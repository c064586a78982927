-------------------------- MODULE TelnetReceiveProofs --------------------------
(***************************************************************************)
(* Safety of the decoder for any bytes, any number of them and any cuts:   *)
(* nothing is lost, the messages say what telnet says the bytes mean, and  *)
(* the commands are the lines of the text.                                 *)
(***************************************************************************)
EXTENDS TelnetReceive, SequenceLemmas

-----------------------------------------------------------------------------
(* The least and the greatest of a set of positions.                       *)

LEMMA MinOfNats ==
  ASSUME NEW T, T \subseteq Nat, T # {}
  PROVE  Min(T) \in T /\ \A y \in T : Min(T) <= y
  <1>1. \E m \in T : \A y \in T : m <= y
    BY LeastOfNats
  <1> QED BY <1>1 DEF Min

LEMMA MaxOfPositions ==
  ASSUME NEW n \in Nat, NEW T, T \subseteq 1 .. n, T # {}
  PROVE  Max(T) \in T /\ \A y \in T : y <= Max(T)
  <1> DEFINE U == {n - i : i \in T}
  <1>1. U \subseteq Nat /\ U # {}
    <2>1. \A i \in T : n - i \in Nat
      OBVIOUS
    <2>2. U \subseteq Nat
      BY <2>1
    <2>3. PICK i \in T : TRUE
      OBVIOUS
    <2>4. n - i \in U
      OBVIOUS
    <2> QED BY <2>2, <2>4
  <1>2. PICK i \in T : Min(U) = n - i
    BY <1>1, MinOfNats
  <1>3. \A j \in T : Min(U) <= n - j
    BY <1>1, MinOfNats
  <1>4. \A j \in T : i >= j
    BY <1>2, <1>3
  <1>5. \E m \in T : \A y \in T : m >= y
    BY <1>4
  <1> QED BY <1>5 DEF Max

LEMMA Reassociate ==
  \A a, b, c \in Seq(ClientByte) : (a \o b) \o c = a \o (b \o c)
  BY ConcatAssociative

(* What is left of a sequence and what was taken from it.                  *)
LEMMA RestProperties ==
  ASSUME NEW S, NEW bytes \in Seq(S), NEW n \in 0 .. Len(bytes)
  PROVE  /\ Rest(bytes, n) \in Seq(S)
         /\ Len(Rest(bytes, n)) = Len(bytes) - n
         /\ \A i \in 1 .. Len(bytes) - n : Rest(bytes, n)[i] = bytes[n + i]
  <1>1. Len(bytes) \in Nat /\ n \in Nat /\ n <= Len(bytes)
    BY LenProperties
  <1>2. \A i \in n + 1 .. Len(bytes) : bytes[i] \in S
    BY <1>1, ElementOfSeq
  <1>3. /\ Rest(bytes, n) \in Seq(S)
        /\ Len(Rest(bytes, n)) = IF n + 1 <= Len(bytes)
                                 THEN Len(bytes) - (n + 1) + 1 ELSE 0
        /\ \A i \in 1 .. Len(bytes) - (n + 1) + 1 :
             Rest(bytes, n)[i] = bytes[n + 1 + i - 1]
    BY <1>1, <1>2, SubSeqProperties DEF Rest
  <1> QED BY <1>1, <1>3

LEMMA Refits ==
  ASSUME NEW S, NEW bytes \in Seq(S), NEW e \in Seq(S), Len(e) <= Len(bytes),
         \A i \in 1 .. Len(e) : e[i] = bytes[i]
  PROVE  /\ e \o Rest(bytes, Len(e)) = bytes
         /\ Rest(bytes, Len(e)) \in Seq(S)
  <1> DEFINE n == Len(e)
             r == Rest(bytes, n)
  <1>1. n \in Nat /\ Len(bytes) \in Nat /\ n \in 0 .. Len(bytes)
    BY LenProperties
  <1>2. /\ r \in Seq(S) /\ Len(r) = Len(bytes) - n
        /\ \A i \in 1 .. Len(bytes) - n : r[i] = bytes[n + i]
    BY <1>1, RestProperties
  <1> HIDE DEF r
  <1> DEFINE c == e \o r
  <1>3. /\ c \in Seq(S) /\ Len(c) = Len(e) + Len(r)
        /\ \A i \in 1 .. Len(e) + Len(r) :
             c[i] = IF i <= Len(e) THEN e[i] ELSE r[i - Len(e)]
    BY <1>2, ConcatProperties
  <1> HIDE DEF c
  <1>4. Len(c) = Len(bytes)
    BY <1>1, <1>2, <1>3
  <1>5. ASSUME NEW i \in 1 .. Len(bytes)
        PROVE  c[i] = bytes[i]
    <2>1. CASE i <= n
      BY <1>1, <1>2, <1>3, <2>1
    <2>2. CASE i > n
      <3>1. i - n \in 1 .. Len(bytes) - n /\ n + (i - n) = i
        BY <1>1, <2>2
      <3>2. r[i - n] = bytes[i]
        BY <1>2, <3>1
      <3>3. i \in 1 .. Len(e) + Len(r) /\ ~(i <= Len(e))
        BY <1>1, <1>2, <2>2
      <3>4. c[i] = r[i - Len(e)]
        BY <1>3, <3>3
      <3> QED BY <3>2, <3>4
    <2> QED BY <1>1, <2>1, <2>2
  <1>6. c = bytes
    BY <1>3, <1>4, <1>5, SeqEqual
  <1> QED BY <1>2, <1>6 DEF r, c

(* The text in front of the first IAC.                                     *)
LEMMA TextProperties ==
  ASSUME NEW bytes \in Seq(ClientByte), bytes # << >>, bytes[1] # "IAC"
  PROVE  /\ TextLength(bytes) \in 1 .. Len(bytes)
         /\ ~CharIsSigned =>
              \A i \in 1 .. TextLength(bytes) : bytes[i] # "IAC"
  <1> DEFINE IACs == {i \in DOMAIN bytes : bytes[i] = "IAC"}
  <1>1. /\ Len(bytes) \in Nat /\ DOMAIN bytes = 1 .. Len(bytes)
        /\ Len(bytes) > 0
    BY LenProperties, EmptySeq
  <1>2. CASE CharIsSigned \/ IACs = {}
    BY <1>1, <1>2 DEF TextLength
  <1>3. CASE ~CharIsSigned /\ IACs # {}
    <2>1. IACs \subseteq Nat
      BY <1>1
    <2>2. Min(IACs) \in IACs /\ \A i \in IACs : Min(IACs) <= i
      BY <1>3, <2>1, MinOfNats
    <2>3. TextLength(bytes) = Min(IACs) - 1
      BY <1>3 DEF TextLength
    <2>4. Min(IACs) \in 1 .. Len(bytes) /\ Min(IACs) # 1
      BY <1>1, <2>2
    <2>5. \A i \in 1 .. Len(bytes) : bytes[i] = "IAC" => Min(IACs) <= i
      BY <1>1, <2>2
    <2> HIDE DEF IACs
    <2> QED BY <1>1, <2>3, <2>4, <2>5
  <1> QED BY <1>2, <1>3

LEMMA TrimIsTyped ==
  ASSUME NEW bytes \in Seq(ClientByte)
  PROVE  Trim(bytes) \in Seq(ClientByte)
  <1> DEFINE kept == {i \in DOMAIN bytes : bytes[i] \notin Whitespace}
  <1>1. Len(bytes) \in Nat /\ DOMAIN bytes = 1 .. Len(bytes)
    BY LenProperties
  <1>2. CASE kept = {}
    BY <1>2, EmptySeq DEF Trim
  <1>3. CASE kept # {}
    <2>1. kept \subseteq Nat /\ kept \subseteq 1 .. Len(bytes)
      BY <1>1
    <2>2. Min(kept) \in 1 .. Len(bytes) /\ Max(kept) \in 1 .. Len(bytes)
      BY <1>1, <1>3, <2>1, MinOfNats, MaxOfPositions
    <2>3. \A i \in Min(kept) .. Max(kept) : bytes[i] \in ClientByte
      BY <1>1, <2>2, ElementOfSeq
    <2>4. Trim(bytes) = SubSeq(bytes, Min(kept), Max(kept))
      BY <1>3 DEF Trim
    <2> HIDE DEF kept
    <2> QED BY <2>2, <2>3, <2>4, SubSeqProperties
  <1> QED BY <1>2, <1>3

-----------------------------------------------------------------------------
(* The invariant: every byte read is in a message or still in the inbox.   *)

IInv == TypeOK /\ NothingLost

LEMMA InitInvariant == Init => IInv
  <1> SUFFICES ASSUME Init PROVE IInv
    OBVIOUS
  <1>1. << >> \in Seq(ClientByte) /\ << >> \in Seq(Message)
        /\ << >> \in Seq(Seq(ClientByte))
    BY EmptySeq
  <1>2. TypeOK
    BY <1>1 DEF Init, TypeOK
  <1>3. << >> \o << >> = << >>
    BY <1>1, ConcatEmptySeq
  <1> QED BY <1>2, <1>3 DEF Init, IInv, NothingLost

(* A message that is encoded by the first bytes of the inbox.              *)
LEMMA EmitKeeps ==
  ASSUME IInv, NEW m \in Message, NEW n, Emit(m, n),
         Encoding(m) \in Seq(ClientByte), Len(Encoding(m)) = n,
         n <= Len(inbox), \A i \in 1 .. n : Encoding(m)[i] = inbox[i],
         received' = received
  PROVE  /\ inbox' \in Seq(ClientByte) /\ framed' \in Seq(ClientByte)
         /\ messages' \in Seq(Message)
         /\ NothingLost'
  <1> DEFINE e == Encoding(m)
  <1>1. /\ messages' = Append(messages, m) /\ framed' = framed \o e
        /\ inbox' = Rest(inbox, Len(e))
    BY DEF Emit
  <1>2. /\ framed \in Seq(ClientByte) /\ inbox \in Seq(ClientByte)
        /\ messages \in Seq(Message) /\ framed \o inbox = received
    BY DEF IInv, TypeOK, NothingLost
  <1> HIDE DEF e
  <1>3. e \in Seq(ClientByte) /\ Len(e) <= Len(inbox)
        /\ \A i \in 1 .. Len(e) : e[i] = inbox[i]
    BY DEF e
  <1>4. e \o Rest(inbox, Len(e)) = inbox /\ Rest(inbox, Len(e)) \in Seq(ClientByte)
    BY <1>2, <1>3, Refits
  <1>5. (framed \o e) \o inbox' = framed \o (e \o inbox')
    <2>1. /\ framed \in Seq(ClientByte) /\ e \in Seq(ClientByte)
          /\ inbox' \in Seq(ClientByte)
      BY <1>1, <1>2, <1>3, <1>4
    <2> QED BY ONLY <2>1, Reassociate
  <1>6. framed' \o inbox' = received'
    BY <1>1, <1>2, <1>4, <1>5
  <1>7. framed' \in Seq(ClientByte)
    BY <1>1, <1>2, <1>3, ConcatProperties
  <1>8. messages' \in Seq(Message)
    BY <1>1, <1>2, AppendProperties
  <1> QED BY <1>1, <1>4, <1>6, <1>7, <1>8 DEF NothingLost

(* Text, or an IAC that was escaped, goes to cmdbuff.                      *)
LEMMA EmitTextKeeps ==
  ASSUME IInv, NEW bytes \in Seq(ClientByte), NEW n, EmitText(bytes, n),
         Encoding(AppData(bytes)) \in Seq(ClientByte),
         Len(Encoding(AppData(bytes))) = n, n <= Len(inbox),
         \A i \in 1 .. n : Encoding(AppData(bytes))[i] = inbox[i]
  PROVE  IInv'
  <1>1. AppData(bytes) \in Message
    BY DEF AppData, Message
  <1>2. /\ Emit(AppData(bytes), n) /\ cmdbuff' = cmdbuff \o bytes
        /\ pc' = "onReceiveAppData" /\ reading' = reading
        /\ received' = received /\ commands' = commands
    BY DEF EmitText
  <1>3. /\ inbox' \in Seq(ClientByte) /\ framed' \in Seq(ClientByte)
        /\ messages' \in Seq(Message) /\ NothingLost'
    BY <1>1, <1>2, EmitKeeps
  <1>4. cmdbuff' \in Seq(ClientByte)
    BY <1>2, ConcatProperties DEF IInv, TypeOK
  <1>5. TypeOK'
    BY <1>2, <1>3, <1>4 DEF IInv, TypeOK
  <1> QED BY <1>3, <1>5 DEF IInv

LEMMA TextInvariant == IInv /\ TakeText => IInv'
  <1> SUFFICES ASSUME IInv, TakeText PROVE IInv'
    OBVIOUS
  <1> DEFINE n == TextLength(inbox)
             data == SubSeq(inbox, 1, n)
  <1>1. inbox \in Seq(ClientByte) /\ inbox # << >> /\ inbox[1] # "IAC"
    BY DEF IInv, TypeOK, TakeText, Decoding
  <1>2. n \in 1 .. Len(inbox) /\ Len(inbox) \in Nat
    BY <1>1, TextProperties, LenProperties
  <1>3. EmitText(data, n)
    BY DEF TakeText
  <1> HIDE DEF n
  <1>4. \A i \in 1 .. n : inbox[i] \in ClientByte
    BY <1>1, <1>2, ElementOfSeq
  <1>5. /\ data \in Seq(ClientByte) /\ Len(data) = n
        /\ \A i \in 1 .. n : data[i] = inbox[i]
    BY <1>2, <1>4, SubSeqProperties
  <1> HIDE DEF data
  <1>6. data # <<"IAC">>
    BY <1>1, <1>2, <1>5
  <1>7. Encoding(AppData(data)) = data
    BY <1>6 DEF Encoding, AppData
  <1> QED BY <1>2, <1>3, <1>5, <1>7, EmitTextKeeps

(* What begins with IAC is looked at only when all of it is there.         *)
LEMMA EnoughBytes ==
  ASSUME TypeOK, Decoding, inbox[1] = "IAC"
  PROVE  /\ Len(inbox) \in Nat /\ Len(inbox) > 1
         /\ Len(inbox) >= Needed(inbox[2])
         /\ inbox[1] \in ClientByte /\ inbox[2] \in ClientByte
  <1>1. inbox \in Seq(ClientByte) /\ Len(inbox) \in Nat
    BY LenProperties DEF TypeOK
  <1>2. Len(inbox) > 1 /\ ~(Len(inbox) < Needed(inbox[2]))
    BY DEF Decoding, Incomplete
  <1>3. Needed(inbox[2]) \in Nat
    BY DEF Needed
  <1> QED BY <1>1, <1>2, <1>3, ElementOfSeq

LEMMA EscapeInvariant == IInv /\ TakeEscape => IInv'
  <1> SUFFICES ASSUME IInv, TakeEscape PROVE IInv'
    OBVIOUS
  <1>1. inbox[1] = "IAC" /\ inbox[2] = "IAC" /\ EmitText(<<"IAC">>, 2)
    BY DEF TakeEscape
  <1>2. Len(inbox) \in Nat /\ Len(inbox) > 1 /\ "IAC" \in ClientByte
    BY <1>1, EnoughBytes DEF IInv, TakeEscape
  <1>3. Encoding(AppData(<<"IAC">>)) = <<"IAC", "IAC">>
    BY DEF Encoding, AppData
  <1>4. <<"IAC">> \in Seq(ClientByte) /\ <<"IAC", "IAC">> \in Seq(ClientByte)
    BY <1>2
  <1>5. /\ Len(<<"IAC", "IAC">>) = 2 /\ 2 <= Len(inbox)
        /\ \A i \in 1 .. 2 : <<"IAC", "IAC">>[i] = inbox[i]
    BY <1>1, <1>2
  <1> DEFINE e == Encoding(AppData(<<"IAC">>))
  <1>6. /\ e \in Seq(ClientByte) /\ Len(e) = 2
        /\ \A i \in 1 .. 2 : e[i] = inbox[i]
    BY <1>3, <1>4, <1>5
  <1> QED BY <1>1, <1>4, <1>5, <1>6, EmitTextKeeps, Zenon

LEMMA NegotiationInvariant == IInv /\ TakeNegotiation => IInv'
  <1> SUFFICES ASSUME IInv, TakeNegotiation PROVE IInv'
    OBVIOUS
  <1> DEFINE m == Negotiation(inbox[2], inbox[3])
  <1>1. /\ inbox[1] = "IAC" /\ inbox[2] \in Offer /\ Emit(m, 3)
        /\ pc' = pc /\ reading' = reading /\ cmdbuff' = cmdbuff
        /\ received' = received /\ commands' = commands
    BY DEF TakeNegotiation
  <1>2. /\ Len(inbox) \in Nat /\ Len(inbox) >= 3 /\ "IAC" \in ClientByte
        /\ inbox[2] \in ClientByte
    BY <1>1, EnoughBytes DEF IInv, TakeNegotiation, Needed
  <1>3. inbox[3] \in ClientByte
    BY <1>2, ElementOfSeq DEF IInv, TypeOK
  <1>4. m \in Message /\ Encoding(m) = <<"IAC", inbox[2], inbox[3]>>
    BY <1>1, <1>3 DEF Negotiation, Message, Encoding
  <1>5. Encoding(m) \in Seq(ClientByte) /\ Len(Encoding(m)) = 3
    BY <1>2, <1>3, <1>4
  <1>6. \A i \in 1 .. 3 : Encoding(m)[i] = inbox[i]
    BY <1>1, <1>4
  <1> HIDE DEF m
  <1>7. /\ inbox' \in Seq(ClientByte) /\ framed' \in Seq(ClientByte)
        /\ messages' \in Seq(Message) /\ NothingLost'
    BY <1>1, <1>2, <1>4, <1>5, <1>6, EmitKeeps
  <1>8. TypeOK'
    BY <1>1, <1>7 DEF IInv, TypeOK
  <1> QED BY <1>7, <1>8 DEF IInv

LEMMA CommandInvariant == IInv /\ TakeCommand => IInv'
  <1> SUFFICES ASSUME IInv, TakeCommand PROVE IInv'
    OBVIOUS
  <1> DEFINE m == Command(inbox[2])
  <1>1. /\ inbox[1] = "IAC" /\ Emit(m, 2)
        /\ pc' = pc /\ reading' = reading /\ cmdbuff' = cmdbuff
        /\ received' = received /\ commands' = commands
    BY DEF TakeCommand
  <1>2. /\ Len(inbox) \in Nat /\ Len(inbox) > 1 /\ "IAC" \in ClientByte
        /\ inbox[2] \in ClientByte
    BY <1>1, EnoughBytes DEF IInv, TakeCommand
  <1>3. m \in Message /\ Encoding(m) = <<"IAC", inbox[2]>>
    BY <1>2 DEF Command, Message, Encoding
  <1>4. Encoding(m) \in Seq(ClientByte) /\ Len(Encoding(m)) = 2
    BY <1>2, <1>3
  <1>5. \A i \in 1 .. 2 : Encoding(m)[i] = inbox[i]
    BY <1>1, <1>3
  <1> HIDE DEF m
  <1>8. 2 <= Len(inbox)
    BY <1>2
  <1>6. /\ inbox' \in Seq(ClientByte) /\ framed' \in Seq(ClientByte)
        /\ messages' \in Seq(Message) /\ NothingLost'
    BY <1>1, <1>3, <1>4, <1>5, <1>8, EmitKeeps, Zenon
  <1>7. TypeOK'
    BY <1>1, <1>6 DEF IInv, TypeOK
  <1> QED BY <1>6, <1>7 DEF IInv

LEMMA CutInvariant == IInv /\ CutCommand => IInv'
  <1> SUFFICES ASSUME IInv, CutCommand PROVE IInv'
    OBVIOUS
  <1>1. PICK n \in DOMAIN cmdbuff :
          /\ commands' = Append(commands, Trim(SubSeq(cmdbuff, 1, n)))
          /\ cmdbuff' = Rest(cmdbuff, n)
    BY DEF CutCommand
  <1>2. /\ pc' = pc /\ reading' = reading /\ inbox' = inbox
        /\ received' = received /\ framed' = framed /\ messages' = messages
    BY DEF CutCommand
  <1>3. /\ cmdbuff \in Seq(ClientByte) /\ Len(cmdbuff) \in Nat
        /\ n \in 1 .. Len(cmdbuff) /\ commands \in Seq(Seq(ClientByte))
    BY LenProperties DEF IInv, TypeOK
  <1>4. cmdbuff' \in Seq(ClientByte)
    BY <1>1, <1>3, RestProperties
  <1>5. \A i \in 1 .. n : cmdbuff[i] \in ClientByte
    BY <1>3, ElementOfSeq
  <1>6. SubSeq(cmdbuff, 1, n) \in Seq(ClientByte)
    BY <1>3, <1>5, SubSeqProperties
  <1>7. commands' \in Seq(Seq(ClientByte))
    BY <1>1, <1>3, <1>6, TrimIsTyped, AppendProperties
  <1> QED BY <1>2, <1>4, <1>7 DEF IInv, TypeOK, NothingLost

(* A read appends to both ends of the equation.                            *)
LEMMA ReadInvariant ==
  ASSUME IInv, NEW chunk \in Seq(ClientByte), ReadCompletes(chunk)
  PROVE  IInv'
  <1>1. /\ inbox' = inbox \o chunk /\ received' = received \o chunk
        /\ pc' = "onReceive" /\ reading' = FALSE /\ cmdbuff' = cmdbuff
        /\ framed' = framed /\ messages' = messages /\ commands' = commands
    BY DEF ReadCompletes
  <1>2. /\ inbox \in Seq(ClientByte) /\ received \in Seq(ClientByte)
        /\ framed \in Seq(ClientByte) /\ framed \o inbox = received
    BY DEF IInv, TypeOK, NothingLost
  <1>3. inbox' \in Seq(ClientByte) /\ received' \in Seq(ClientByte)
    BY <1>1, <1>2, ConcatProperties
  <1>4. (framed \o inbox) \o chunk = framed \o (inbox \o chunk)
    BY <1>2, Reassociate
  <1>5. NothingLost'
    BY <1>1, <1>2, <1>4 DEF NothingLost
  <1>6. TypeOK'
    BY <1>1, <1>3 DEF IInv, TypeOK
  <1> QED BY <1>5, <1>6 DEF IInv

LEMMA StepInvariant == IInv /\ [Next]_receiveVars => IInv'
  <1> SUFFICES ASSUME IInv, [Next]_receiveVars PROVE IInv'
    OBVIOUS
  <1>1. CASE UNCHANGED receiveVars
    BY <1>1 DEF receiveVars, bufferVars, historyVars, IInv, TypeOK, NothingLost
  <1>2. CASE SeekSubnegotiationEnd \/ NoMoreCommands \/ Receive \/ ReadFails
    <2>1. /\ inbox' = inbox /\ cmdbuff' = cmdbuff /\ received' = received
          /\ framed' = framed /\ messages' = messages /\ commands' = commands
      BY <1>2 DEF SeekSubnegotiationEnd, NoMoreCommands, Receive, ReadFails,
         bufferVars, historyVars
    <2>2. /\ reading' \in BOOLEAN
          /\ pc' \in {"reactor", "onReceive", "onReceiveAppData", "seek", "aborted"}
      BY <1>2 DEF SeekSubnegotiationEnd, NoMoreCommands, Receive, ReadFails,
         IInv, TypeOK
    <2> QED BY <2>1, <2>2 DEF IInv, TypeOK, NothingLost
  <1>3. ASSUME NEW n \in 1 .. MaxRead, NEW chunk \in [1 .. n -> ClientByte],
               ReadCompletes(chunk)
        PROVE  IInv'
    <2>1. n \in Nat
      BY ReadAssumption
    <2>2. chunk \in Seq(ClientByte)
      BY <2>1, SeqDef
    <2> QED BY <1>3, <2>2, ReadInvariant
  <1> QED BY <1>1, <1>2, <1>3, TextInvariant, EscapeInvariant,
          NegotiationInvariant, CommandInvariant, CutInvariant
       DEF Next, HandlerStep, SocketStep

THEOREM Invariance == Spec => []IInv
  BY InitInvariant, StepInvariant, PTL DEF Spec

(* Every variable of the receiver keeps its type.                          *)
THEOREM TypeCorrect == Spec => []TypeOK
  <1>1. IInv => TypeOK
    BY DEF IInv
  <1> QED BY <1>1, Invariance, PTL

(* Whatever a client sends and however it is cut, what onReceive consumes  *)
(* is what it decodes: no byte is lost, repeated or overtaken.             *)
THEOREM NoByteLost == Spec => []NothingLost
  <1>1. IInv => NothingLost
    BY DEF IInv
  <1> QED BY <1>1, Invariance, PTL

-----------------------------------------------------------------------------
(* On a compiler whose char is unsigned text stops where it should.        *)

LEMMA TextStops ==
  ASSUME IInv, DataStopsAtIAC, NEW data \in Seq(ClientByte),
         messages' = Append(messages, AppData(data)),
         data = <<"IAC">> \/ \A j \in DOMAIN data : data[j] # "IAC"
  PROVE  DataStopsAtIAC'
  <1> SUFFICES ASSUME NEW i \in DOMAIN messages',
                      messages'[i].type = "AppData",
                      messages'[i].data # <<"IAC">>,
                      NEW j \in DOMAIN messages'[i].data
               PROVE  messages'[i].data[j] # "IAC"
    BY DEF DataStopsAtIAC
  <1>1. AppData(data) \in Message /\ AppData(data).data = data
    BY DEF AppData, Message
  <1>2. messages \in Seq(Message)
    BY DEF IInv, TypeOK
  <1>3. /\ Len(messages) \in Nat /\ DOMAIN messages = 1 .. Len(messages)
        /\ DOMAIN messages' = 1 .. Len(messages) + 1
        /\ \A k \in 1 .. Len(messages) : messages'[k] = messages[k]
        /\ messages'[Len(messages) + 1] = AppData(data)
    BY <1>1, <1>2, AppendProperties, LenProperties
  <1>4. CASE i \in DOMAIN messages
    BY <1>3, <1>4 DEF DataStopsAtIAC
  <1>5. CASE i = Len(messages) + 1
    BY <1>1, <1>3, <1>5
  <1> QED BY <1>3, <1>4, <1>5

LEMMA StopsStep ==
  ~CharIsSigned /\ IInv /\ DataStopsAtIAC /\ [Next]_receiveVars
    => DataStopsAtIAC'
  <1> SUFFICES ASSUME ~CharIsSigned, IInv, DataStopsAtIAC, [Next]_receiveVars
               PROVE  DataStopsAtIAC'
    OBVIOUS
  <1>1. CASE messages' = messages
    BY <1>1 DEF DataStopsAtIAC
  <1>2. CASE TakeText
    <2> DEFINE n == TextLength(inbox)
               data == SubSeq(inbox, 1, n)
    <2>1. inbox \in Seq(ClientByte) /\ inbox # << >> /\ inbox[1] # "IAC"
      BY <1>2 DEF IInv, TypeOK, TakeText, Decoding
    <2>2. /\ n \in 1 .. Len(inbox) /\ Len(inbox) \in Nat
          /\ \A i \in 1 .. n : inbox[i] # "IAC"
      BY <2>1, TextProperties, LenProperties
    <2>3. messages' = Append(messages, AppData(data))
      BY <1>2 DEF TakeText, EmitText, Emit
    <2> HIDE DEF n
    <2>4. \A i \in 1 .. n : inbox[i] \in ClientByte
      BY <2>1, <2>2, ElementOfSeq
    <2>5. /\ data \in Seq(ClientByte) /\ Len(data) = n
          /\ \A i \in 1 .. n : data[i] = inbox[i]
      BY <2>2, <2>4, SubSeqProperties
    <2> HIDE DEF data
    <2>6. DOMAIN data = 1 .. n
      BY <2>5, LenProperties
    <2> QED BY <2>2, <2>3, <2>5, <2>6, TextStops
  <1>3. CASE TakeEscape
    <2>1. inbox[1] = "IAC" /\ messages' = Append(messages, AppData(<<"IAC">>))
      BY <1>3 DEF TakeEscape, EmitText, Emit
    <2>2. "IAC" \in ClientByte
      BY <1>3, <2>1, EnoughBytes DEF IInv, TakeEscape
    <2>3. <<"IAC">> \in Seq(ClientByte)
      BY <2>2
    <2> QED BY <2>1, <2>3, TextStops
  <1>4. ASSUME NEW m \in Message, m.type # "AppData",
               messages' = Append(messages, m)
        PROVE  DataStopsAtIAC'
    <2>1. messages \in Seq(Message)
      BY DEF IInv, TypeOK
    <2>2. /\ Len(messages) \in Nat /\ DOMAIN messages = 1 .. Len(messages)
          /\ DOMAIN messages' = 1 .. Len(messages) + 1
          /\ \A k \in 1 .. Len(messages) : messages'[k] = messages[k]
          /\ messages'[Len(messages) + 1] = m
      BY <1>4, <2>1, AppendProperties, LenProperties
    <2> QED BY <1>4, <2>2 DEF DataStopsAtIAC
  <1>5. CASE TakeNegotiation
    <2> DEFINE m == Negotiation(inbox[2], inbox[3])
    <2>1. /\ inbox[1] = "IAC" /\ inbox[2] \in Offer
          /\ messages' = Append(messages, m)
      BY <1>5 DEF TakeNegotiation, Emit
    <2>2. Len(inbox) \in Nat /\ Len(inbox) >= 3
      BY <1>5, <2>1, EnoughBytes DEF IInv, TakeNegotiation, Needed
    <2>3. inbox[3] \in ClientByte
      BY <2>2, ElementOfSeq DEF IInv, TypeOK
    <2>4. m \in Message /\ m.type # "AppData"
      BY <2>1, <2>3 DEF Negotiation, Message
    <2> QED BY <1>4, <2>1, <2>4
  <1>6. CASE TakeCommand
    <2> DEFINE m == Command(inbox[2])
    <2>1. inbox[1] = "IAC" /\ messages' = Append(messages, m)
      BY <1>6 DEF TakeCommand, Emit
    <2>2. inbox[2] \in ClientByte
      BY <1>6, <2>1, EnoughBytes DEF IInv, TakeCommand
    <2>3. m \in Message /\ m.type # "AppData"
      BY <2>2 DEF Command, Message
    <2> QED BY <1>4, <2>1, <2>3
  <1> QED BY <1>1, <1>2, <1>3, <1>5, <1>6
       DEF Next, HandlerStep, SocketStep, SeekSubnegotiationEnd, CutCommand,
           NoMoreCommands, Receive, ReadCompletes, ReadFails, receiveVars,
           historyVars

(* "Send all data up to an IAC": what signed_scan refutes for signed char  *)
(* holds of every stream when char is unsigned.                            *)
THEOREM TextStopsAtIAC == ~CharIsSigned => (Spec => []DataStopsAtIAC)
  <1> SUFFICES ASSUME ~CharIsSigned PROVE Spec => []DataStopsAtIAC
    OBVIOUS
  <1>1. Init => DataStopsAtIAC
    BY DEF Init, DataStopsAtIAC
  <1>2. IInv /\ DataStopsAtIAC /\ [Next]_receiveVars => DataStopsAtIAC'
    BY StopsStep
  <1> QED BY <1>1, <1>2, Invariance, PTL DEF Spec

-----------------------------------------------------------------------------
(* What the bytes say, as telnet has it: Hearing is a run of Hear.         *)

Octet == ClientByte \cup Offer \cup {"IAC"}

HearState ==
  [mode : {"text", "IAC", "SB", "SB IAC"} \cup Offer, heard : Seq(Seq(Octet))]

LEMMA HearIsTyped ==
  ASSUME NEW state \in HearState, NEW byte \in Octet
  PROVE  Hear(state, byte) \in HearState
  <1>1. state.heard \in Seq(Seq(Octet)) /\ state.mode \in {"text", "IAC", "SB", "SB IAC"} \cup Offer
    BY DEF HearState
  <1>2. "IAC" \in Octet /\ Offer \subseteq Octet
    BY DEF Octet
  <1>3. <<byte>> \in Seq(Octet) /\ <<"IAC">> \in Seq(Octet) /\ <<"IAC", byte>> \in Seq(Octet)
    BY <1>2
  <1>4. state.mode \in Offer => <<"IAC", state.mode, byte>> \in Seq(Octet)
    BY <1>2
  <1>5. /\ Append(state.heard, <<byte>>) \in Seq(Seq(Octet))
        /\ Append(state.heard, <<"IAC">>) \in Seq(Seq(Octet))
        /\ Append(state.heard, <<"IAC", byte>>) \in Seq(Seq(Octet))
    BY <1>1, <1>3, AppendProperties
  <1>6. state.mode \in Offer =>
          Append(state.heard, <<"IAC", state.mode, byte>>) \in Seq(Seq(Octet))
    BY <1>1, <1>4, AppendProperties
  <1>7. CASE state.mode = "text"
    BY <1>1, <1>5, <1>7 DEF Hear, HearState, Offer
  <1>8. CASE state.mode = "IAC"
    BY <1>1, <1>5, <1>8 DEF Hear, HearState, Offer
  <1>9. CASE state.mode = "SB" \/ state.mode = "SB IAC"
    BY <1>1, <1>9 DEF Hear, HearState, Offer
  <1>10. CASE state.mode \in Offer
    BY <1>1, <1>6, <1>10 DEF Hear, HearState, Offer
  <1> QED BY <1>1, <1>7, <1>8, <1>9, <1>10

(* What one more byte says, by what it follows.                            *)
LEMMA HearInText ==
  ASSUME NEW state \in HearState, state.mode = "text", NEW byte
  PROVE  Hear(state, byte) =
           IF byte = "IAC" THEN [mode |-> "IAC", heard |-> state.heard]
           ELSE [mode |-> "text", heard |-> Append(state.heard, <<byte>>)]
  <1>1. state = [mode |-> "text", heard |-> state.heard]
    BY DEF HearState
  <1> QED BY <1>1 DEF Hear, Offer

LEMMA HearAfterIAC ==
  ASSUME NEW state \in HearState, state.mode = "IAC", NEW byte
  PROVE  /\ byte = "IAC" =>
              Hear(state, byte) =
                [mode |-> "text", heard |-> Append(state.heard, <<"IAC">>)]
         /\ byte \in Offer \cup {"SB"} =>
              Hear(state, byte) = [mode |-> byte, heard |-> state.heard]
         /\ byte \notin Offer \cup {"SB", "IAC"} =>
              Hear(state, byte) =
                [mode |-> "text", heard |-> Append(state.heard, <<"IAC", byte>>)]
  BY DEF Hear, HearState, Offer

LEMMA HearAfterOffer ==
  ASSUME NEW state \in HearState, state.mode \in Offer, NEW byte
  PROVE  Hear(state, byte) =
           [mode |-> "text",
            heard |-> Append(state.heard, <<"IAC", state.mode, byte>>)]
  BY DEF Hear, HearState, Offer

LEMMA HearInSubnegotiation ==
  ASSUME NEW state \in HearState, state.mode \in {"SB", "SB IAC"}, NEW byte
  PROVE  /\ Hear(state, byte).heard = state.heard
         /\ state.mode = "SB" => Hear(state, byte).mode \in {"SB", "SB IAC"}
  BY DEF Hear, HearState, Offer

Unheard == [mode |-> "text", heard |-> << >>]

LEMMA HearingRun ==
  ASSUME NEW bytes, bytes \in Seq(Octet)
  PROVE  \E f \in [0 .. Len(bytes) -> HearState] :
           /\ f[0] = Unheard
           /\ \A i \in 1 .. Len(bytes) : f[i] = Hear(f[i - 1], bytes[i])
           /\ Hearing(bytes) = f[Len(bytes)]
  <1> DEFINE n == Len(bytes)
             step == [i \in 1 .. n |-> [a \in HearState |-> Hear(a, bytes[i])]]
             Run(f) == [i \in 0 .. n |->
                          IF i = 0 THEN Unheard ELSE Hear(f[i - 1], bytes[i])]
             run == CHOOSE f : f = Run(f)
  <1>1. n \in Nat /\ \A i \in 1 .. n : bytes[i] \in Octet
    BY LenProperties, ElementOfSeq
  <1>2. Unheard \in HearState
    BY EmptySeq DEF Unheard, HearState
  <1>3. step \in [1 .. n -> [HearState -> HearState]]
    BY <1>1, HearIsTyped
  <1>4. PICK g :
          /\ g \in [0 .. n -> HearState]
          /\ g[0] = Unheard
          /\ \A i \in 1 .. n : g[i] = step[i][g[i - 1]]
    <2>1. PICK A : A = HearState
      OBVIOUS
    <2>2. PICK begin : begin = Unheard
      OBVIOUS
    <2>3. PICK k : k = n
      OBVIOUS
    <2>4. PICK walk : walk = step
      OBVIOUS
    <2>5. begin \in A
      BY <1>2, <2>1, <2>2
    <2>8. k \in Nat
      BY <1>1, <2>3
    <2>6. walk \in [1 .. k -> [A -> A]]
      BY <1>3, <2>1, <2>3, <2>4, Zenon
    <2>7. \E g \in [0 .. k -> A] :
            g[0] = begin /\ \A i \in 1 .. k : g[i] = walk[i][g[i - 1]]
      BY ONLY <2>5, <2>6, <2>8, RunExists
    <2> QED BY <2>1, <2>2, <2>3, <2>4, <2>7, Zenon
  <1>5. \A i \in 1 .. n : g[i - 1] \in HearState /\ g[i] = Hear(g[i - 1], bytes[i])
    <2> TAKE i \in 1 .. n
    <2>1. i - 1 \in 0 .. n
      BY <1>1
    <2>2. g[i - 1] \in HearState
      BY <1>4, <2>1
    <2>3. step[i][g[i - 1]] = Hear(g[i - 1], bytes[i])
      BY <2>2, Zenon
    <2> QED BY <1>4, <2>2, <2>3
  <1>6. g = Run(g)
    <2>1. \A i \in 0 .. n : g[i] = IF i = 0 THEN Unheard ELSE Hear(g[i - 1], bytes[i])
      <3> HIDE DEF Unheard, Hear
      <3> QED BY <1>1, <1>4, <1>5
    <2>2. g = [i \in 0 .. n |-> g[i]]
      BY <1>4, Zenon
    <2> QED BY <2>1, <2>2, Zenon
  <1>7. run = Run(run)
    BY <1>6, Zenon
  <1>8. Hearing(bytes) = run[n]
    BY Zenon DEF Hearing, Unheard
  <1> HIDE DEF run
  <1>9. \A i \in 0 .. n : run[i] = IF i = 0 THEN Unheard ELSE Hear(run[i - 1], bytes[i])
    BY <1>7, Zenon
  <1>10. \A i \in 0 .. n : run[i] = g[i]
    <2>1. PICK k : k = n
      OBVIOUS
    <2>5. k \in Nat
      BY <1>1, <2>1
    <2>6. PICK r : r = run
      OBVIOUS
    <2>2. r[0] = g[0]
      BY <1>1, <1>4, <1>9, <2>6
    <2>3. \A i \in 1 .. k : r[i - 1] = g[i - 1] => r[i] = g[i]
      <3> TAKE i \in 1 .. k
      <3>1. i \in 0 .. n /\ i # 0 /\ i \in 1 .. n
        BY <1>1, <2>1
      <3> QED BY <1>5, <1>9, <2>6, <3>1, Zenon
    <2>4. \A i \in 0 .. k : r[i] = g[i]
      BY ONLY <2>2, <2>3, <2>5, RunsAgree
    <2> QED BY <2>1, <2>4, <2>6
  <1>11. n \in 0 .. n
    BY <1>1
  <1> QED BY <1>4, <1>5, <1>8, <1>10, <1>11

LEMMA HearingOfNothing == Hearing(<< >>) = Unheard
  <1>1. << >> \in Seq(Octet) /\ Len(<< >>) = 0
    BY EmptySeq
  <1> QED BY <1>1, HearingRun

LEMMA HearingIsTyped ==
  ASSUME NEW bytes, bytes \in Seq(Octet)
  PROVE  Hearing(bytes) \in HearState
  <1>1. Len(bytes) \in 0 .. Len(bytes)
    BY LenProperties
  <1> QED BY <1>1, HearingRun

LEMMA HeardIsTyped ==
  ASSUME NEW bytes, bytes \in Seq(Octet)
  PROVE  Heard(bytes) \in Seq(Seq(Octet))
  BY HearingIsTyped DEF HearState, Heard

LEMMA HearingAppend ==
  ASSUME NEW bytes, bytes \in Seq(Octet), NEW byte \in Octet
  PROVE  Hearing(Append(bytes, byte)) = Hear(Hearing(bytes), byte)
  <1>1. PICK longer : longer = Append(bytes, byte)
    OBVIOUS
  <1>2. PICK n : n = Len(bytes)
    OBVIOUS
  <1>3. /\ n \in Nat /\ longer \in Seq(Octet) /\ Len(longer) = n + 1
        /\ \A i \in 1 .. n : longer[i] = bytes[i]
        /\ longer[n + 1] = byte
    BY <1>1, <1>2, LenProperties, AppendProperties
  <1>4. PICK f :
          /\ f \in [0 .. n + 1 -> HearState]
          /\ f[0] = Unheard
          /\ \A i \in 1 .. n + 1 : f[i] = Hear(f[i - 1], longer[i])
          /\ Hearing(longer) = f[n + 1]
    <2>1. \E f \in [0 .. Len(longer) -> HearState] :
            /\ f[0] = Unheard
            /\ \A i \in 1 .. Len(longer) : f[i] = Hear(f[i - 1], longer[i])
            /\ Hearing(longer) = f[Len(longer)]
      BY ONLY <1>3, HearingRun
    <2> QED BY <1>3, <2>1, Zenon
  <1>5. PICK g :
          /\ g \in [0 .. n -> HearState]
          /\ g[0] = Unheard
          /\ \A i \in 1 .. n : g[i] = Hear(g[i - 1], bytes[i])
          /\ Hearing(bytes) = g[n]
    BY <1>2, HearingRun
  <1>6. \A i \in 1 .. n : f[i - 1] = g[i - 1] => f[i] = g[i]
    <2> TAKE i \in 1 .. n
    <2>1. i \in 1 .. n + 1
      BY <1>3
    <2> QED BY <1>3, <1>4, <1>5, <2>1, Zenon
  <1>7. f[0] = g[0]
    BY <1>4, <1>5
  <1>8. f[n] = g[n]
    <2>1. n \in Nat
      BY <1>3
    <2>2. \A i \in 0 .. n : f[i] = g[i]
      BY ONLY <1>6, <1>7, <2>1, RunsAgree
    <2> QED BY <2>1, <2>2
  <1>9. n + 1 \in 1 .. n + 1 /\ (n + 1) - 1 = n
    BY <1>3
  <1>10. f[n + 1] = Hear(f[n], longer[n + 1])
    BY <1>4, <1>9
  <1> QED BY <1>1, <1>3, <1>4, <1>5, <1>8, <1>10, Zenon

(* Text says each of its bytes.                                            *)
Singles(data) == [i \in DOMAIN data |-> <<data[i]>>]

LEMMA SinglesAreTyped ==
  ASSUME NEW data, data \in Seq(Octet)
  PROVE  Singles(data) \in Seq(Seq(Octet)) /\ Len(Singles(data)) = Len(data)
  <1>1. DOMAIN data = 1 .. Len(data) /\ Len(data) \in Nat
    BY LenProperties
  <1>2. \A i \in 1 .. Len(data) : <<data[i]>> \in Seq(Octet)
    <2> TAKE i \in 1 .. Len(data)
    <2>1. data[i] \in Octet
      BY ElementOfSeq
    <2> QED BY <2>1
  <1>3. PICK A : A = Seq(Octet)
    OBVIOUS
  <1>4. Singles(data) \in [1 .. Len(data) -> A]
    BY <1>1, <1>2, <1>3, Zenon DEF Singles
  <1>5. Singles(data) \in Seq(A)
    BY <1>1, <1>4, SeqDef
  <1> QED BY <1>1, <1>3, <1>4, <1>5, LenProperties

LEMMA SinglesAppend ==
  ASSUME NEW data, data \in Seq(Octet), NEW byte \in Octet
  PROVE  Singles(Append(data, byte)) = Append(Singles(data), <<byte>>)
  <1>1. PICK longer : longer = Append(data, byte)
    OBVIOUS
  <1>2. PICK n : n = Len(data)
    OBVIOUS
  <1>3. /\ n \in Nat /\ longer \in Seq(Octet) /\ Len(longer) = n + 1
        /\ \A i \in 1 .. n : longer[i] = data[i]
        /\ longer[n + 1] = byte
        /\ DOMAIN longer = 1 .. n + 1 /\ DOMAIN data = 1 .. n
    BY <1>1, <1>2, LenProperties, AppendProperties
  <1>4. PICK A : A = Seq(Octet)
    OBVIOUS
  <1>5. PICK s : s = Singles(data)
    OBVIOUS
  <1>6. PICK t : t = Singles(longer)
    OBVIOUS
  <1>7. PICK e : e = <<byte>>
    OBVIOUS
  <1>8. s \in Seq(A) /\ Len(s) = n /\ t \in Seq(A) /\ Len(t) = n + 1 /\ e \in A
    BY <1>2, <1>3, <1>4, <1>5, <1>6, <1>7, SinglesAreTyped
  <1>9. \A i \in 1 .. n : s[i] = <<data[i]>>
    BY <1>3, <1>5 DEF Singles
  <1>10. \A i \in 1 .. n + 1 : t[i] = <<longer[i]>>
    BY <1>3, <1>6 DEF Singles
  <1>11. PICK u : u = Append(s, e)
    OBVIOUS
  <1>12. /\ u \in Seq(A) /\ Len(u) = n + 1
         /\ \A i \in 1 .. n : u[i] = s[i]
         /\ u[n + 1] = e
    BY <1>8, <1>11, AppendProperties
  <1>13. ASSUME NEW i \in 1 .. n + 1 PROVE t[i] = u[i]
    <2>1. CASE i \in 1 .. n
      BY <1>3, <1>9, <1>10, <1>12, <2>1
    <2>2. CASE i = n + 1
      <3>1. n + 1 \in 1 .. n + 1
        BY <1>3
      <3> QED BY <1>3, <1>7, <1>10, <1>12, <2>2, <3>1
    <2> QED BY <1>3, <2>1, <2>2
  <1>14. t = u
    BY ONLY <1>8, <1>12, <1>13, SeqEqual
  <1> QED BY <1>1, <1>5, <1>6, <1>7, <1>11, <1>14

LEMMA HearingText ==
  ASSUME NEW bytes, bytes \in Seq(Octet), Hearing(bytes).mode = "text",
         NEW data, data \in Seq(Octet \ {"IAC"})
  PROVE  Hearing(bytes \o data) =
           [mode |-> "text", heard |-> Heard(bytes) \o Singles(data)]
  <1>1. PICK T : T = Octet \ {"IAC"}
    OBVIOUS
  <1>2. PICK h : h = Heard(bytes)
    OBVIOUS
  <1>3. h \in Seq(Seq(Octet)) /\ Hearing(bytes) = [mode |-> "text", heard |-> h]
    BY <1>2, HearingIsTyped DEF HearState, Heard
  <1> DEFINE P == {d \in Seq(T) : Hearing(bytes \o d) =
                                    [mode |-> "text", heard |-> h \o Singles(d)]}
  <1>4. Seq(T) \subseteq Seq(Octet)
    BY <1>1, SeqMonotonic
  <1>5. << >> \in P
    <2>1. << >> \in Seq(T) /\ bytes \o << >> = bytes
      BY EmptySeq, ConcatEmptySeq
    <2>2. Singles(<< >>) = << >>
      BY DEF Singles
    <2>3. h \o << >> = h
      BY <1>3, ConcatEmptySeq
    <2> QED BY <1>3, <2>1, <2>2, <2>3
  <1>6. ASSUME NEW d \in Seq(T), NEW e \in T, d \in P
        PROVE  Append(d, e) \in P
    <2>1. d \in Seq(Octet) /\ e \in Octet /\ e # "IAC"
      BY <1>1, <1>4
    <2>2. Append(d, e) \in Seq(T)
      BY AppendProperties
    <2>3. bytes \o d \in Seq(Octet)
      BY <2>1, ConcatProperties
    <2>4. bytes \o Append(d, e) = Append(bytes \o d, e)
      BY ONLY <2>1, ConcatAppend, bytes \in Seq(Octet)
    <2>5. PICK state : state = Hearing(bytes \o d)
      OBVIOUS
    <2>10. state = [mode |-> "text", heard |-> h \o Singles(d)]
      BY <1>6, <2>5
    <2>6. /\ state \in HearState /\ state.mode = "text"
          /\ state.heard = h \o Singles(d)
      <3>1. state \in HearState
        BY <2>3, <2>5, HearingIsTyped
      <3>2. PICK said : said = h \o Singles(d)
        OBVIOUS
      <3>3. state = [mode |-> "text", heard |-> said]
        BY <2>10, <3>2, Zenon
      <3>4. state.mode = "text" /\ state.heard = said
        BY ONLY <3>3
      <3> QED BY <3>1, <3>2, <3>4, Zenon
    <2>7. Hearing(bytes \o Append(d, e)) = Hear(state, e)
      BY <2>1, <2>3, <2>4, <2>5, HearingAppend
    <2>8. Hear(state, e) = [mode |-> "text", heard |-> Append(state.heard, <<e>>)]
      BY <2>1, <2>6, HearInText
    <2>9. Append(h \o Singles(d), <<e>>) = h \o Singles(Append(d, e))
      <3>1. PICK A : A = Seq(Octet)
        OBVIOUS
      <3>2. PICK s : s = Singles(d)
        OBVIOUS
      <3>3. PICK b : b = <<e>>
        OBVIOUS
      <3>4. h \in Seq(A) /\ s \in Seq(A) /\ b \in A
        BY <1>3, <2>1, <3>1, <3>2, <3>3, SinglesAreTyped
      <3>5. h \o Append(s, b) = Append(h \o s, b)
        BY ONLY <3>4, ConcatAppend
      <3> QED BY <2>1, <3>2, <3>3, <3>5, SinglesAppend
    <2> QED BY <2>2, <2>6, <2>7, <2>8, <2>9
  <1> HIDE DEF P
  <1>7. data \in P
    BY <1>1, <1>5, <1>6, SeqSetInduction
  <1> QED BY <1>2, <1>7 DEF P

LEMMA HearingIAC ==
  ASSUME NEW bytes, bytes \in Seq(Octet), Hearing(bytes).mode = "text"
  PROVE  Hearing(Append(bytes, "IAC")) = [mode |-> "IAC", heard |-> Heard(bytes)]
  <1>1. "IAC" \in Octet
    BY DEF Octet
  <1>2. Hearing(Append(bytes, "IAC")) = Hear(Hearing(bytes), "IAC")
    BY <1>1, HearingAppend
  <1>3. Hearing(bytes) \in HearState
    BY HearingIsTyped
  <1> QED BY <1>2, <1>3, HearInText DEF Heard

(* IAC and one byte more.                                                  *)
LEMMA HearingPair ==
  ASSUME NEW bytes, bytes \in Seq(Octet), Hearing(bytes).mode = "text",
         NEW byte, byte \in Octet
  PROVE  /\ byte = "IAC" =>
              Hearing(bytes \o <<"IAC", byte>>) =
                [mode |-> "text", heard |-> Append(Heard(bytes), <<"IAC">>)]
         /\ byte \in Offer \cup {"SB"} =>
              Hearing(bytes \o <<"IAC", byte>>) =
                [mode |-> byte, heard |-> Heard(bytes)]
         /\ byte \notin Offer \cup {"SB", "IAC"} =>
              Hearing(bytes \o <<"IAC", byte>>) =
                [mode |-> "text", heard |-> Append(Heard(bytes), <<"IAC", byte>>)]
  <1>1. "IAC" \in Octet
    BY DEF Octet
  <1>2. PICK begun : begun = Append(bytes, "IAC")
    OBVIOUS
  <1>3. PICK state : state = Hearing(begun)
    OBVIOUS
  <1>4. begun \in Seq(Octet)
    BY <1>1, <1>2, AppendProperties
  <1>5. state \in HearState /\ state = [mode |-> "IAC", heard |-> Heard(bytes)]
    BY <1>2, <1>3, <1>4, HearingIAC, HearingIsTyped
  <1>6. bytes \o <<"IAC", byte>> = Append(begun, byte)
    BY <1>1, <1>2, ConcatTwo
  <1>7. Hearing(bytes \o <<"IAC", byte>>) = Hear(state, byte)
    BY <1>3, <1>4, <1>6, HearingAppend
  <1>8. state.mode = "IAC" /\ state.heard = Heard(bytes)
    BY <1>5
  <1> QED BY ONLY <1>5, <1>7, <1>8, HearAfterIAC

LEMMA HearingOffer ==
  ASSUME NEW bytes, bytes \in Seq(Octet), Hearing(bytes).mode = "text",
         NEW command, command \in Offer, NEW option, option \in Octet
  PROVE  Hearing(bytes \o <<"IAC", command, option>>) =
           [mode |-> "text",
            heard |-> Append(Heard(bytes), <<"IAC", command, option>>)]
  <1>1. "IAC" \in Octet /\ command \in Octet
    BY DEF Octet
  <1>2. PICK begun : begun = bytes \o <<"IAC", command>>
    OBVIOUS
  <1>3. begun = Append(Append(bytes, "IAC"), command)
    BY <1>1, <1>2, ConcatTwo
  <1>4. begun \in Seq(Octet)
    BY <1>1, <1>3, AppendProperties
  <1>5. PICK state : state = Hearing(begun)
    OBVIOUS
  <1>6. state = [mode |-> command, heard |-> Heard(bytes)]
    BY <1>1, <1>2, <1>5, HearingPair
  <1>7. state \in HearState
    BY <1>4, <1>5, HearingIsTyped
  <1>10. state.mode = command /\ state.heard = Heard(bytes)
    BY ONLY <1>6
  <1>8. bytes \o <<"IAC", command, option>> = Append(begun, option)
    BY <1>1, <1>3, ConcatThree
  <1>9. Hearing(bytes \o <<"IAC", command, option>>) = Hear(state, option)
    BY <1>4, <1>5, <1>8, HearingAppend
  <1> QED BY ONLY <1>7, <1>9, <1>10, command \in Offer, HearAfterOffer

LEMMA HowManyNeeded ==
  ASSUME NEW code
  PROVE  /\ code \in Offer => Needed(code) = 3
         /\ code = "SB" => Needed(code) = 5
         /\ code \notin Offer \cup {"SB"} => Needed(code) = 2
  <1>1. "SB" \notin Offer
    BY DEF Offer
  <1> HIDE DEF Offer
  <1> QED BY <1>1 DEF Needed

(* What waits in the inbox while the handler is not running says nothing   *)
(* yet: the message it begins is not complete.                             *)
LEMMA IncompleteSaysNothing ==
  ASSUME NEW bytes, bytes \in Seq(Octet), Hearing(bytes).mode = "text",
         NEW left, left \in Seq(Octet), left = << >> \/ Incomplete(left)
  PROVE  Heard(bytes \o left) = Heard(bytes)
  <1>1. CASE left = << >>
    BY <1>1, ConcatEmptySeq
  <1>2. CASE left # << >> /\ Incomplete(left)
    <2>5. PICK n : n = Len(left)
      OBVIOUS
    <2>1. n \in Nat /\ n > 0 /\ left[1] = "IAC"
      BY <1>2, <2>5, EmptySeq, LenProperties DEF Incomplete
    <2>2. \A i \in 1 .. n : left[i] \in Octet
      BY <2>5, ElementOfSeq
    <2>3. CASE n = 1
      <3>1. left = <<"IAC">>
        BY <2>1, <2>3, <2>5
      <3>2. "IAC" \in Octet
        BY DEF Octet
      <3>3. bytes \o left = Append(bytes, "IAC")
        BY <3>1, <3>2, AppendIsConcat
      <3> QED BY <3>3, HearingIAC DEF Heard
    <2>4. CASE n > 1
      <3>1. n < Needed(left[2]) /\ left[2] \in Octet
        BY <1>2, <2>1, <2>2, <2>4, <2>5 DEF Incomplete
      <3>2. CASE left[2] \in Offer
        <4>1. n = 2
          <5>1. Needed(left[2]) = 3
            BY ONLY <3>2, HowManyNeeded
          <5> QED BY ONLY <2>1, <2>4, <3>1, <5>1
        <4>2. left = <<"IAC", left[2]>>
          BY <2>1, <2>5, <4>1, WrittenOut, left \in Seq(Octet)
        <4>3. Hearing(bytes \o <<"IAC", left[2]>>) =
                [mode |-> left[2], heard |-> Heard(bytes)]
          BY <3>1, <3>2, HearingPair
        <4>4. Hearing(bytes \o left).heard = Heard(bytes)
          BY <4>2, <4>3
        <4> QED BY <4>4 DEF Heard
      <3>3. CASE left[2] = "SB"
        <4>1. n \in {2, 3, 4}
          <5>1. Needed(left[2]) = 5
            BY ONLY <3>3, HowManyNeeded
          <5> QED BY ONLY <2>1, <2>4, <3>1, <5>1
        <4>2. PICK two : two = Append(Append(bytes, "IAC"), left[2])
          OBVIOUS
        <4>3. "IAC" \in Octet
          BY DEF Octet
        <4>4. two \in Seq(Octet)
          BY <3>1, <4>2, <4>3, AppendProperties
        <4>5. two = bytes \o <<"IAC", left[2]>>
          BY <3>1, <4>2, <4>3, ConcatTwo
        <4>6. Hearing(two) = [mode |-> "SB", heard |-> Heard(bytes)]
          BY <3>1, <3>3, <4>5, HearingPair
        <4>7. Hearing(two).mode = "SB" /\ Hearing(two).heard = Heard(bytes)
          BY ONLY <4>6
        <4>8. CASE n = 2
          <5>1. left = <<"IAC", left[2]>>
            BY <2>1, <2>5, <4>8, WrittenOut, left \in Seq(Octet)
          <5> QED BY <4>5, <4>7, <5>1 DEF Heard
        <4>9. CASE n > 2
          <5>1. left[3] \in Octet
            BY <2>1, <2>2, <4>9
          <5>2. PICK three : three = Append(two, left[3])
            OBVIOUS
          <5>3. Hearing(two) \in HearState
            BY <4>4, HearingIsTyped
          <5>4. Hearing(three) = Hear(Hearing(two), left[3])
            BY <4>4, <5>1, <5>2, HearingAppend
          <5>5. /\ Hearing(three).mode \in {"SB", "SB IAC"}
                /\ Hearing(three).heard = Heard(bytes)
            BY <4>7, <5>3, <5>4, HearInSubnegotiation
          <5>6. CASE n = 3
            <6>1. left = <<"IAC", left[2], left[3]>>
              BY <2>1, <2>5, <5>6, WrittenOut, left \in Seq(Octet)
            <6>2. bytes \o left = three
              <7>1. bytes \o <<"IAC", left[2], left[3]>> = three
                BY <3>1, <4>2, <4>3, <5>1, <5>2, ConcatThree
              <7> QED BY <6>1, <7>1, Zenon
            <6> QED BY <5>5, <6>2 DEF Heard
          <5>7. CASE n = 4
            <6>1. left = <<"IAC", left[2], left[3], left[4]>>
              BY <2>1, <2>5, <5>7, WrittenOut, left \in Seq(Octet)
            <6>2. left[4] \in Octet
              BY <2>2, <5>7
            <6>3. bytes \o left = Append(three, left[4])
              <7>1. bytes \o <<"IAC", left[2], left[3], left[4]>>
                      = Append(Append(Append(Append(bytes, "IAC"), left[2]), left[3]),
                               left[4])
                BY ONLY <3>1, <4>3, <5>1, <6>2, bytes \in Seq(Octet), ConcatFour
              <7> QED BY <4>2, <5>2, <6>1, <7>1, Zenon
            <6>4. three \in Seq(Octet)
              BY <4>4, <5>1, <5>2, AppendProperties
            <6>5. Hearing(three) \in HearState
              BY <6>4, HearingIsTyped
            <6>6. Hearing(bytes \o left) = Hear(Hearing(three), left[4])
              BY <6>2, <6>3, <6>4, HearingAppend
            <6> QED BY <5>5, <6>5, <6>6, HearInSubnegotiation DEF Heard
          <5> QED BY <4>1, <4>9, <5>6, <5>7
        <4> QED BY <4>1, <4>8, <4>9
      <3>4. CASE left[2] \notin Offer \cup {"SB"}
        <4>1. Needed(left[2]) = 2
          BY ONLY <3>4, HowManyNeeded
        <4> QED BY ONLY <2>1, <2>4, <3>1, <4>1
      <3> QED BY <3>2, <3>3, <3>4
    <2> QED BY <2>1, <2>3, <2>4
  <1> QED BY <1>1, <1>2

-----------------------------------------------------------------------------
(* The messages so far say what the bytes they were cut from say.          *)

EventsOf(ms) == [i \in DOMAIN ms |-> Events(ms[i])]

Decoded ==
  /\ Hearing(framed).mode = "text"
  /\ FlattenSeq(EventsOf(messages)) = Heard(framed)

(* What is in the inbox while the handler is not running.                  *)
WaitsForMore == pc = "reactor" => inbox = << >> \/ Incomplete(inbox)

Said == Seq(Seq(Octet))

LEMMA EventsAreTyped ==
  ASSUME NEW m \in Message
  PROVE  Events(m) \in Said
  <1>1. CASE m.type = "AppData"
    <2>1. m.data \in Seq(ClientByte)
      BY <1>1 DEF Message
    <2>2. m.data \in Seq(Octet)
      BY <2>1, SeqMonotonic DEF Octet
    <2>3. Events(m) = Singles(m.data)
      BY <1>1 DEF Events, Singles
    <2> QED BY <2>2, <2>3, SinglesAreTyped DEF Said
  <1>2. CASE m.type = "Command"
    <2>1. m.code \in Octet /\ "IAC" \in Octet
      BY <1>2 DEF Message, Octet
    <2>2. Events(m) = <<<<"IAC", m.code>>>>
      BY <1>2 DEF Events, Encoding
    <2>3. <<"IAC", m.code>> \in Seq(Octet)
      BY <2>1
    <2> QED BY <2>2, <2>3 DEF Said
  <1>3. CASE m.type = "Negotiation"
    <2>1. m.command \in Octet /\ m.option \in Octet /\ "IAC" \in Octet
      BY <1>3 DEF Message, Octet
    <2>2. Events(m) = <<<<"IAC", m.command, m.option>>>>
      BY <1>3 DEF Events, Encoding
    <2>3. <<"IAC", m.command, m.option>> \in Seq(Octet)
      BY <2>1
    <2> QED BY <2>2, <2>3 DEF Said
  <1>4. m.type \in {"AppData", "Command", "Negotiation"}
    BY DEF Message
  <1> QED BY <1>1, <1>2, <1>3, <1>4

LEMMA EventsOfAreTyped ==
  ASSUME NEW ms, ms \in Seq(Message)
  PROVE  EventsOf(ms) \in Seq(Said) /\ Len(EventsOf(ms)) = Len(ms)
  <1>1. DOMAIN ms = 1 .. Len(ms) /\ Len(ms) \in Nat
    BY LenProperties
  <1>2. \A i \in 1 .. Len(ms) : Events(ms[i]) \in Said
    BY ElementOfSeq, EventsAreTyped
  <1>3. EventsOf(ms) \in [1 .. Len(ms) -> Said]
    BY <1>1, <1>2, Zenon DEF EventsOf
  <1>4. EventsOf(ms) \in Seq(Said)
    BY <1>1, <1>3, SeqDef
  <1> QED BY <1>1, <1>3, <1>4, LenProperties

LEMMA EventsOfAppend ==
  ASSUME NEW ms, ms \in Seq(Message), NEW m, m \in Message
  PROVE  EventsOf(Append(ms, m)) = Append(EventsOf(ms), Events(m))
  <1>1. PICK longer : longer = Append(ms, m)
    OBVIOUS
  <1>2. PICK n : n = Len(ms)
    OBVIOUS
  <1>3. /\ n \in Nat /\ longer \in Seq(Message) /\ Len(longer) = n + 1
        /\ \A i \in 1 .. n : longer[i] = ms[i]
        /\ longer[n + 1] = m
        /\ DOMAIN longer = 1 .. n + 1 /\ DOMAIN ms = 1 .. n
    BY <1>1, <1>2, LenProperties, AppendProperties
  <1>4. PICK s : s = EventsOf(ms)
    OBVIOUS
  <1>5. PICK t : t = EventsOf(longer)
    OBVIOUS
  <1>6. PICK e : e = Events(m)
    OBVIOUS
  <1>7. s \in Seq(Said) /\ Len(s) = n /\ t \in Seq(Said) /\ Len(t) = n + 1 /\ e \in Said
    BY <1>2, <1>3, <1>4, <1>5, <1>6, EventsOfAreTyped, EventsAreTyped
  <1>8. \A i \in 1 .. n : s[i] = Events(ms[i])
    BY <1>3, <1>4, Zenon DEF EventsOf
  <1>9. \A i \in 1 .. n + 1 : t[i] = Events(longer[i])
    BY <1>3, <1>5, Zenon DEF EventsOf
  <1>10. PICK u : u = Append(s, e)
    OBVIOUS
  <1>11. /\ u \in Seq(Said) /\ Len(u) = n + 1
         /\ \A i \in 1 .. n : u[i] = s[i]
         /\ u[n + 1] = e
    BY <1>7, <1>10, AppendProperties
  <1>12. ASSUME NEW i \in 1 .. n + 1 PROVE t[i] = u[i]
    <2>1. CASE i \in 1 .. n
      BY <1>3, <1>8, <1>9, <1>11, <2>1, Zenon
    <2>2. CASE i = n + 1
      BY <1>3, <1>6, <1>9, <1>11, <2>2, Zenon
    <2> QED BY <1>3, <2>1, <2>2
  <1>13. t = u
    BY ONLY <1>7, <1>11, <1>12, SeqEqual
  <1> QED BY <1>1, <1>4, <1>5, <1>6, <1>10, <1>13

LEMMA OneMoreMessage ==
  ASSUME IInv, Decoded, NEW m, m \in Message, NEW e,
         messages' = Append(messages, m), framed' = framed \o e,
         Hearing(framed \o e) =
           [mode |-> "text", heard |-> Heard(framed) \o Events(m)]
  PROVE  Decoded'
  <1>1. messages \in Seq(Message)
    BY DEF IInv, TypeOK
  <1>2. Events(m) \in Said /\ EventsOf(messages) \in Seq(Said)
    BY <1>1, EventsAreTyped, EventsOfAreTyped
  <1>3. EventsOf(messages') = Append(EventsOf(messages), Events(m))
    BY <1>1, EventsOfAppend
  <1>4. FlattenSeq(Append(EventsOf(messages), Events(m)))
          = FlattenSeq(EventsOf(messages)) \o Events(m)
    BY <1>2, FlattenAppend DEF Said
  <1>5. PICK said : said = Heard(framed) \o Events(m)
    OBVIOUS
  <1>6. Hearing(framed') = [mode |-> "text", heard |-> said]
    BY <1>5, Zenon
  <1>7. Hearing(framed').mode = "text" /\ Hearing(framed').heard = said
    BY ONLY <1>6
  <1>8. FlattenSeq(EventsOf(messages')) = said
    BY <1>3, <1>4, <1>5, Zenon DEF Decoded
  <1> QED BY <1>7, <1>8, Zenon DEF Decoded, Heard

LEMMA Octets ==
  /\ ClientByte \subseteq Octet /\ Offer \subseteq Octet /\ "IAC" \in Octet
  /\ Seq(ClientByte) \subseteq Seq(Octet)
  <1>1. ClientByte \subseteq Octet /\ Offer \subseteq Octet /\ "IAC" \in Octet
    BY DEF Octet
  <1> QED BY <1>1, SeqMonotonic

LEMMA TextDecoded ==
  ASSUME ~CharIsSigned, IInv, Decoded, TakeText
  PROVE  Decoded'
  <1> DEFINE n == TextLength(inbox)
             data == SubSeq(inbox, 1, n)
  <1>1. inbox \in Seq(ClientByte) /\ inbox # << >> /\ inbox[1] # "IAC"
        /\ framed \in Seq(ClientByte)
    BY DEF IInv, TypeOK, TakeText, Decoding
  <1>2. /\ n \in 1 .. Len(inbox) /\ Len(inbox) \in Nat
        /\ \A i \in 1 .. n : inbox[i] # "IAC"
    BY <1>1, TextProperties, LenProperties
  <1>3. /\ messages' = Append(messages, AppData(data))
        /\ framed' = framed \o Encoding(AppData(data))
    BY DEF TakeText, EmitText, Emit
  <1> HIDE DEF n
  <1>4. \A i \in 1 .. n : inbox[i] \in ClientByte /\ inbox[i] \in Octet \ {"IAC"}
    BY <1>1, <1>2, ElementOfSeq, Octets
  <1>5. data \in Seq(ClientByte) /\ data \in Seq(Octet \ {"IAC"})
        /\ Len(data) = n /\ \A i \in 1 .. n : data[i] = inbox[i]
    BY <1>2, <1>4, SubSeqProperties
  <1> HIDE DEF data
  <1>6. data # <<"IAC">>
    BY <1>1, <1>2, <1>5
  <1>7. /\ AppData(data) \in Message
        /\ Encoding(AppData(data)) = data
        /\ Events(AppData(data)) = Singles(data)
    BY <1>5, <1>6 DEF AppData, Message, Encoding, Events, Singles
  <1>8. framed \in Seq(Octet) /\ Hearing(framed).mode = "text"
    BY <1>1, Octets DEF Decoded
  <1>9. Hearing(framed \o data) =
          [mode |-> "text", heard |-> Heard(framed) \o Singles(data)]
    BY ONLY <1>5, <1>8, HearingText
  <1> QED BY <1>3, <1>7, <1>9, OneMoreMessage, Zenon

LEMMA EscapeDecoded ==
  ASSUME IInv, Decoded, TakeEscape
  PROVE  Decoded'
  <1> DEFINE m == AppData(<<"IAC">>)
  <1>1. /\ framed \in Seq(Octet) /\ Hearing(framed).mode = "text"
    BY Octets DEF IInv, TypeOK, Decoded
  <1>2. "IAC" \in ClientByte
    BY EnoughBytes DEF IInv, TakeEscape
  <1>3. messages' = Append(messages, m) /\ framed' = framed \o Encoding(m)
    BY DEF TakeEscape, EmitText, Emit
  <1>4. <<"IAC">> \in Seq(ClientByte)
    BY <1>2
  <1>5. m \in Message /\ Encoding(m) = <<"IAC", "IAC">>
    BY <1>4 DEF AppData, Message, Encoding
  <1>6. Events(m) = <<<<"IAC">>>>
    BY DEF AppData, Events
  <1>7. Hearing(framed \o <<"IAC", "IAC">>) =
          [mode |-> "text", heard |-> Append(Heard(framed), <<"IAC">>)]
    BY <1>1, Octets, HearingPair
  <1>8. Append(Heard(framed), <<"IAC">>) = Heard(framed) \o <<<<"IAC">>>>
    <2>1. Heard(framed) \in Seq(Seq(Octet))
      BY <1>1, HeardIsTyped
    <2>2. <<"IAC">> \in Seq(Octet)
      BY Octets
    <2> QED BY ONLY <2>1, <2>2, AppendIsConcat
  <1> HIDE DEF m
  <1> QED BY <1>3, <1>5, <1>6, <1>7, <1>8, OneMoreMessage, Zenon

LEMMA CommandDecoded ==
  ASSUME IInv, Decoded, TakeCommand
  PROVE  Decoded'
  <1> DEFINE m == Command(inbox[2])
  <1>1. /\ framed \in Seq(Octet) /\ Hearing(framed).mode = "text"
    BY Octets DEF IInv, TypeOK, Decoded
  <1>2. inbox[2] \in ClientByte /\ inbox[2] \notin Offer \cup {"SB", "IAC"}
    BY EnoughBytes DEF IInv, TakeCommand
  <1>3. messages' = Append(messages, m) /\ framed' = framed \o Encoding(m)
    BY DEF TakeCommand, Emit
  <1>4. PICK code : code = inbox[2]
    OBVIOUS
  <1>5. /\ m \in Message /\ Encoding(m) = <<"IAC", code>>
        /\ Events(m) = <<<<"IAC", code>>>>
    BY <1>2, <1>4 DEF Command, Message, Encoding, Events
  <1>6. code \in Octet /\ code \notin Offer \cup {"SB", "IAC"}
    BY <1>2, <1>4, Octets
  <1>7. Hearing(framed \o <<"IAC", code>>) =
          [mode |-> "text", heard |-> Append(Heard(framed), <<"IAC", code>>)]
    BY ONLY <1>1, <1>6, HearingPair
  <1>8. Append(Heard(framed), <<"IAC", code>>) = Heard(framed) \o <<<<"IAC", code>>>>
    <2>1. Heard(framed) \in Seq(Seq(Octet))
      BY <1>1, HeardIsTyped
    <2>2. <<"IAC", code>> \in Seq(Octet)
      BY <1>6, Octets
    <2> QED BY ONLY <2>1, <2>2, AppendIsConcat
  <1> HIDE DEF m
  <1> QED BY <1>3, <1>5, <1>7, <1>8, OneMoreMessage, Zenon

LEMMA NegotiationDecoded ==
  ASSUME IInv, Decoded, TakeNegotiation
  PROVE  Decoded'
  <1> DEFINE m == Negotiation(inbox[2], inbox[3])
  <1>1. /\ framed \in Seq(Octet) /\ Hearing(framed).mode = "text"
    BY Octets DEF IInv, TypeOK, Decoded
  <1>2. inbox[1] = "IAC" /\ inbox[2] \in Offer /\ Decoding
    BY DEF TakeNegotiation
  <1>3. Len(inbox) \in Nat /\ Len(inbox) >= 3
    BY <1>2, EnoughBytes, HowManyNeeded DEF IInv
  <1>4. inbox[3] \in ClientByte
    BY <1>3, ElementOfSeq DEF IInv, TypeOK
  <1>5. messages' = Append(messages, m) /\ framed' = framed \o Encoding(m)
    BY DEF TakeNegotiation, Emit
  <1>6. PICK command : command = inbox[2]
    OBVIOUS
  <1>7. PICK option : option = inbox[3]
    OBVIOUS
  <1>8. /\ m \in Message /\ Encoding(m) = <<"IAC", command, option>>
        /\ Events(m) = <<<<"IAC", command, option>>>>
    BY <1>2, <1>4, <1>6, <1>7 DEF Negotiation, Message, Encoding, Events
  <1>9. command \in Offer /\ option \in Octet
    BY <1>2, <1>4, <1>6, <1>7, Octets
  <1>10. Hearing(framed \o <<"IAC", command, option>>) =
           [mode |-> "text",
            heard |-> Append(Heard(framed), <<"IAC", command, option>>)]
    BY ONLY <1>1, <1>9, HearingOffer
  <1>11. Append(Heard(framed), <<"IAC", command, option>>)
           = Heard(framed) \o <<<<"IAC", command, option>>>>
    <2>1. Heard(framed) \in Seq(Seq(Octet))
      BY <1>1, HeardIsTyped
    <2>2. <<"IAC", command, option>> \in Seq(Octet)
      BY <1>9, Octets
    <2> QED BY ONLY <2>1, <2>2, AppendIsConcat
  <1> HIDE DEF m
  <1> QED BY <1>5, <1>8, <1>10, <1>11, OneMoreMessage, Zenon

DecodedInv == IInv /\ Decoded /\ WaitsForMore

LEMMA DecodedInit == Init => DecodedInv
  <1> SUFFICES ASSUME Init PROVE DecodedInv
    OBVIOUS
  <1>1. IInv
    BY InitInvariant
  <1>2. WaitsForMore
    BY DEF Init, WaitsForMore
  <1>3. EventsOf(<< >>) = << >>
    BY DEF EventsOf
  <1>4. Decoded
    BY <1>3, FlattenOfNothing, HearingOfNothing DEF Init, Decoded, Heard, Unheard
  <1> QED BY <1>1, <1>2, <1>4 DEF DecodedInv

LEMMA DecodedStep ==
  ~CharIsSigned /\ DecodedInv /\ [Next]_receiveVars => DecodedInv'
  <1> SUFFICES ASSUME ~CharIsSigned, DecodedInv, [Next]_receiveVars
               PROVE  DecodedInv'
    OBVIOUS
  <1>1. IInv /\ Decoded /\ WaitsForMore
    BY DEF DecodedInv
  <1>2. IInv'
    BY <1>1, StepInvariant
  <1>3. WaitsForMore'
    BY <1>1 DEF WaitsForMore, Next, HandlerStep, SocketStep, TakeEscape, TakeText,
       TakeNegotiation, TakeCommand, EmitText, SeekSubnegotiationEnd, CutCommand,
       NoMoreCommands, Receive, ReadCompletes, ReadFails, receiveVars, bufferVars,
       Decoding
  <1>4. Decoded'
    <2>1. CASE framed' = framed /\ messages' = messages
      BY <1>1, <2>1 DEF Decoded
    <2>2. CASE TakeText \/ TakeEscape \/ TakeCommand \/ TakeNegotiation
      BY <1>1, <2>2, TextDecoded, EscapeDecoded, CommandDecoded, NegotiationDecoded
    <2> QED BY <2>1, <2>2
         DEF Next, HandlerStep, SocketStep, SeekSubnegotiationEnd, CutCommand,
             NoMoreCommands, Receive, ReadCompletes, ReadFails, receiveVars,
             historyVars
  <1> QED BY <1>2, <1>3, <1>4 DEF DecodedInv

LEMMA DecodedInvariance == ~CharIsSigned => (Spec => []DecodedInv)
  <1> SUFFICES ASSUME ~CharIsSigned PROVE Spec => []DecodedInv
    OBVIOUS
  <1>1. DecodedInv /\ [Next]_receiveVars => DecodedInv'
    BY DecodedStep
  <1> QED BY <1>1, DecodedInit, PTL DEF Spec

(* On a compiler whose char is unsigned: whatever the client sends and     *)
(* however it is cut into reads, the messages that onReceive has handed on *)
(* when the handler returns say what telnet says those bytes mean.         *)
THEOREM DecodesTelnet == ~CharIsSigned => (Spec => []DecodedAsTelnet)
  <1> SUFFICES ASSUME ~CharIsSigned PROVE Spec => []DecodedAsTelnet
    OBVIOUS
  <1>1. DecodedInv => DecodedAsTelnet
    <2> SUFFICES ASSUME DecodedInv, pc = "reactor"
                 PROVE  FlattenSeq(EventsOf(messages)) = Heard(received)
      BY DEF DecodedAsTelnet, EventsOf
    <2>1. /\ framed \in Seq(Octet) /\ inbox \in Seq(Octet)
          /\ framed \o inbox = received
      BY Octets DEF DecodedInv, IInv, TypeOK, NothingLost
    <2>2. Hearing(framed).mode = "text" /\ (inbox = << >> \/ Incomplete(inbox))
      BY DEF DecodedInv, Decoded, WaitsForMore
    <2>3. Heard(framed \o inbox) = Heard(framed)
      BY <2>1, <2>2, IncompleteSaysNothing
    <2> QED BY <2>1, <2>3, Zenon DEF DecodedInv, Decoded
  <1> QED BY <1>1, DecodedInvariance, PTL

-----------------------------------------------------------------------------
(* Text cut into lines, one byte at a time.                                *)

CutState == [ended : Seq(Seq(ClientByte)), open : Seq(ClientByte)]

Uncut == [ended |-> << >>, open |-> << >>]

(* What one more byte does to the lines.                                   *)
LEMMA CutCases ==
  ASSUME NEW state \in CutState, NEW byte \in ClientByte
  PROVE  /\ Cut(state, byte).ended =
              IF byte = "LF" THEN Append(state.ended, Append(state.open, byte))
                             ELSE state.ended
         /\ Cut(state, byte).open =
              IF byte = "LF" THEN << >> ELSE Append(state.open, byte)
         /\ Cut(state, byte) \in CutState
  <1>1. state = [ended |-> state.ended, open |-> state.open]
        /\ state.ended \in Seq(Seq(ClientByte)) /\ state.open \in Seq(ClientByte)
    BY DEF CutState
  <1>2. << >> \in Seq(ClientByte) /\ Append(state.open, byte) \in Seq(ClientByte)
    BY <1>1, EmptySeq, AppendProperties
  <1>3. Append(state.ended, Append(state.open, byte)) \in Seq(Seq(ClientByte))
    BY <1>1, <1>2, AppendProperties
  <1>4. CASE byte = "LF"
    <2>1. Cut(state, byte) = [ended |-> Append(state.ended, Append(state.open, byte)),
                              open |-> << >>]
      BY <1>4 DEF Cut
    <2>2. PICK more : more = Append(state.ended, Append(state.open, byte))
      OBVIOUS
    <2>3. PICK cut : cut = Cut(state, byte)
      OBVIOUS
    <2>4. cut = [ended |-> more, open |-> << >>] /\ more \in Seq(Seq(ClientByte))
      BY <1>3, <2>1, <2>2, <2>3
    <2>5. cut.ended = more /\ cut.open = << >> /\ cut \in CutState
      BY <1>2, <2>4 DEF CutState
    <2> QED BY <1>4, <2>2, <2>3, <2>5, Zenon
  <1>5. CASE byte # "LF"
    <2>1. Cut(state, byte) = [ended |-> state.ended, open |-> Append(state.open, byte)]
      BY <1>1, <1>5 DEF Cut
    <2> QED BY <1>1, <1>2, <1>5, <2>1 DEF CutState
  <1> QED BY <1>4, <1>5

LEMMA CutIsTyped ==
  ASSUME NEW state \in CutState, NEW byte \in ClientByte
  PROVE  Cut(state, byte) \in CutState
  BY CutCases

LEMMA CutsRun ==
  ASSUME NEW text, text \in Seq(ClientByte)
  PROVE  \E f \in [0 .. Len(text) -> CutState] :
           /\ f[0] = Uncut
           /\ \A i \in 1 .. Len(text) : f[i] = Cut(f[i - 1], text[i])
           /\ Cuts(text) = f[Len(text)]
  <1> DEFINE n == Len(text)
             step == [i \in 1 .. n |-> [a \in CutState |-> Cut(a, text[i])]]
             Run(f) == [i \in 0 .. n |->
                          IF i = 0 THEN Uncut ELSE Cut(f[i - 1], text[i])]
             run == CHOOSE f : f = Run(f)
  <1>1. n \in Nat /\ \A i \in 1 .. n : text[i] \in ClientByte
    BY LenProperties, ElementOfSeq
  <1>2. Uncut \in CutState
    BY EmptySeq DEF Uncut, CutState
  <1>3. step \in [1 .. n -> [CutState -> CutState]]
    BY <1>1, CutIsTyped
  <1>4. PICK g :
          /\ g \in [0 .. n -> CutState]
          /\ g[0] = Uncut
          /\ \A i \in 1 .. n : g[i] = step[i][g[i - 1]]
    <2>1. PICK A : A = CutState
      OBVIOUS
    <2>2. PICK begin : begin = Uncut
      OBVIOUS
    <2>3. PICK k : k = n
      OBVIOUS
    <2>4. PICK walk : walk = step
      OBVIOUS
    <2>5. begin \in A
      BY <1>2, <2>1, <2>2
    <2>8. k \in Nat
      BY <1>1, <2>3
    <2>6. walk \in [1 .. k -> [A -> A]]
      BY <1>3, <2>1, <2>3, <2>4, Zenon
    <2>7. \E g \in [0 .. k -> A] :
            g[0] = begin /\ \A i \in 1 .. k : g[i] = walk[i][g[i - 1]]
      BY ONLY <2>5, <2>6, <2>8, RunExists
    <2> QED BY <2>1, <2>2, <2>3, <2>4, <2>7, Zenon
  <1>5. \A i \in 1 .. n : g[i - 1] \in CutState /\ g[i] = Cut(g[i - 1], text[i])
    <2> TAKE i \in 1 .. n
    <2>1. i - 1 \in 0 .. n
      BY <1>1
    <2>2. g[i - 1] \in CutState
      BY <1>4, <2>1
    <2>3. step[i][g[i - 1]] = Cut(g[i - 1], text[i])
      BY <2>2, Zenon
    <2> QED BY <1>4, <2>2, <2>3
  <1>6. g = Run(g)
    <2>1. \A i \in 0 .. n : g[i] = IF i = 0 THEN Uncut ELSE Cut(g[i - 1], text[i])
      <3> HIDE DEF Uncut, Cut
      <3> QED BY <1>1, <1>4, <1>5
    <2>2. g = [i \in 0 .. n |-> g[i]]
      BY <1>4, Zenon
    <2> QED BY <2>1, <2>2, Zenon
  <1>7. run = Run(run)
    BY <1>6, Zenon
  <1>8. Cuts(text) = run[n]
    BY Zenon DEF Cuts, Uncut
  <1> HIDE DEF run
  <1>9. \A i \in 0 .. n : run[i] = IF i = 0 THEN Uncut ELSE Cut(run[i - 1], text[i])
    BY <1>7, Zenon
  <1>10. \A i \in 0 .. n : run[i] = g[i]
    <2>1. PICK k : k = n
      OBVIOUS
    <2>5. k \in Nat
      BY <1>1, <2>1
    <2>6. PICK r : r = run
      OBVIOUS
    <2>2. r[0] = g[0]
      BY <1>1, <1>4, <1>9, <2>6
    <2>3. \A i \in 1 .. k : r[i - 1] = g[i - 1] => r[i] = g[i]
      <3> TAKE i \in 1 .. k
      <3>1. i \in 0 .. n /\ i # 0 /\ i \in 1 .. n
        BY <1>1, <2>1
      <3> QED BY <1>5, <1>9, <2>6, <3>1, Zenon
    <2>4. \A i \in 0 .. k : r[i] = g[i]
      BY ONLY <2>2, <2>3, <2>5, RunsAgree
    <2> QED BY <2>1, <2>4, <2>6
  <1>11. n \in 0 .. n
    BY <1>1
  <1> QED BY <1>4, <1>5, <1>8, <1>10, <1>11

LEMMA CutsOfNothing == Cuts(<< >>) = Uncut
  <1>1. << >> \in Seq(ClientByte) /\ Len(<< >>) = 0
    BY EmptySeq
  <1> QED BY <1>1, CutsRun

LEMMA CutsAreTyped ==
  ASSUME NEW text, text \in Seq(ClientByte)
  PROVE  Cuts(text) \in CutState
  <1>1. Len(text) \in 0 .. Len(text)
    BY LenProperties
  <1> QED BY <1>1, CutsRun

LEMMA CutsAppend ==
  ASSUME NEW text, text \in Seq(ClientByte), NEW byte \in ClientByte
  PROVE  Cuts(Append(text, byte)) = Cut(Cuts(text), byte)
  <1>1. PICK longer : longer = Append(text, byte)
    OBVIOUS
  <1>2. PICK n : n = Len(text)
    OBVIOUS
  <1>3. /\ n \in Nat /\ longer \in Seq(ClientByte) /\ Len(longer) = n + 1
        /\ \A i \in 1 .. n : longer[i] = text[i]
        /\ longer[n + 1] = byte
    BY <1>1, <1>2, LenProperties, AppendProperties
  <1>4. PICK f :
          /\ f \in [0 .. n + 1 -> CutState]
          /\ f[0] = Uncut
          /\ \A i \in 1 .. n + 1 : f[i] = Cut(f[i - 1], longer[i])
          /\ Cuts(longer) = f[n + 1]
    <2>1. \E f \in [0 .. Len(longer) -> CutState] :
            /\ f[0] = Uncut
            /\ \A i \in 1 .. Len(longer) : f[i] = Cut(f[i - 1], longer[i])
            /\ Cuts(longer) = f[Len(longer)]
      BY ONLY <1>3, CutsRun
    <2> QED BY <1>3, <2>1, Zenon
  <1>5. PICK g :
          /\ g \in [0 .. n -> CutState]
          /\ g[0] = Uncut
          /\ \A i \in 1 .. n : g[i] = Cut(g[i - 1], text[i])
          /\ Cuts(text) = g[n]
    BY <1>2, CutsRun
  <1>6. \A i \in 1 .. n : f[i - 1] = g[i - 1] => f[i] = g[i]
    <2> TAKE i \in 1 .. n
    <2>1. i \in 1 .. n + 1
      BY <1>3
    <2> QED BY <1>3, <1>4, <1>5, <2>1, Zenon
  <1>7. f[0] = g[0]
    BY <1>4, <1>5
  <1>8. f[n] = g[n]
    <2>1. n \in Nat
      BY <1>3
    <2>2. \A i \in 0 .. n : f[i] = g[i]
      BY ONLY <1>6, <1>7, <2>1, RunsAgree
    <2> QED BY <2>1, <2>2
  <1>9. n + 1 \in 1 .. n + 1 /\ (n + 1) - 1 = n
    BY <1>3
  <1>10. f[n + 1] = Cut(f[n], longer[n + 1])
    BY <1>4, <1>9
  <1> QED BY <1>1, <1>3, <1>4, <1>5, <1>8, <1>10, Zenon


LEMMA LinesGrow ==
  ASSUME NEW text, text \in Seq(ClientByte), NEW byte \in ClientByte
  PROVE  /\ Lines(Append(text, byte)) =
              IF byte = "LF" THEN Append(Lines(text), Append(LastLine(text), byte))
                             ELSE Lines(text)
         /\ LastLine(Append(text, byte)) =
              IF byte = "LF" THEN << >> ELSE Append(LastLine(text), byte)
  <1>1. PICK state : state = Cuts(text)
    OBVIOUS
  <1>2. PICK cut : cut = Cut(state, byte)
    OBVIOUS
  <1>3. state \in CutState
    BY <1>1, CutsAreTyped
  <1>4. byte \in ClientByte
    OBVIOUS
  <1>5. /\ cut.ended = IF byte = "LF" THEN Append(state.ended, Append(state.open, byte))
                                      ELSE state.ended
        /\ cut.open = IF byte = "LF" THEN << >> ELSE Append(state.open, byte)
    BY <1>2, <1>3, <1>4, CutCases, Zenon
  <1>6. Cuts(Append(text, byte)) = cut
    BY <1>1, <1>2, CutsAppend, Zenon
  <1> QED BY <1>1, <1>5, <1>6, Zenon DEF Lines, LastLine

LEMMA LinesAreTyped ==
  ASSUME NEW text, text \in Seq(ClientByte)
  PROVE  Lines(text) \in Seq(Seq(ClientByte)) /\ LastLine(text) \in Seq(ClientByte)
  BY CutsAreTyped DEF CutState, Lines, LastLine

LEMMA LinesOfNothing == Lines(<< >>) = << >> /\ LastLine(<< >>) = << >>
  BY CutsOfNothing DEF Lines, LastLine, Uncut

(* What the lines of a text are from here on depends on the open line only. *)
GoOnAlike(s, t, data) ==
  \E more \in Seq(Seq(ClientByte)) :
    /\ Lines(s \o data) = Lines(s) \o more
    /\ Lines(t \o data) = Lines(t) \o more
    /\ LastLine(s \o data) = LastLine(t \o data)

LEMMA CutsGoOn ==
  ASSUME NEW s, s \in Seq(ClientByte), NEW t, t \in Seq(ClientByte),
         LastLine(s) = LastLine(t), NEW data, data \in Seq(ClientByte)
  PROVE  GoOnAlike(s, t, data)
  <1> DEFINE Like(d, more) == /\ Lines(s \o d) = Lines(s) \o more
                              /\ Lines(t \o d) = Lines(t) \o more
                              /\ LastLine(s \o d) = LastLine(t \o d)
             Has(d) == \E more \in Seq(Seq(ClientByte)) : Like(d, more)
  <1>1. PICK A : A = Seq(ClientByte)
    OBVIOUS
  <1>2. Has(<< >>)
    <2>1. s \o << >> = s /\ t \o << >> = t
      BY ConcatEmptySeq
    <2>2. Lines(s) \in Seq(A) /\ Lines(t) \in Seq(A)
      BY <1>1, LinesAreTyped
    <2>3. Lines(s) \o << >> = Lines(s) /\ Lines(t) \o << >> = Lines(t)
          /\ << >> \in Seq(A)
      BY <2>2, ConcatEmptySeq, EmptySeq
    <2> QED BY <1>1, <2>1, <2>3, Zenon
  <1>3. ASSUME NEW d, d \in Seq(ClientByte), NEW e \in ClientByte, Has(d)
        PROVE  Has(Append(d, e))
    <2>1. PICK more : more \in Seq(A) /\ Like(d, more)
      BY <1>1, <1>3
    <2>2. PICK sd, td : sd = s \o d /\ td = t \o d
      OBVIOUS
    <2>3. sd \in Seq(ClientByte) /\ td \in Seq(ClientByte)
      BY <1>3, <2>2, ConcatProperties
    <2>4. s \o Append(d, e) = Append(sd, e) /\ t \o Append(d, e) = Append(td, e)
      <3>1. s \in Seq(ClientByte)
        OBVIOUS
      <3>2. t \in Seq(ClientByte)
        OBVIOUS
      <3>3. d \in Seq(ClientByte)
        BY <1>3
      <3>4. e \in ClientByte
        BY <1>3
      <3>5. s \o Append(d, e) = Append(s \o d, e)
        BY ONLY <3>1, <3>3, <3>4, ConcatAppend
      <3>6. t \o Append(d, e) = Append(t \o d, e)
        BY ONLY <3>2, <3>3, <3>4, ConcatAppend
      <3> QED BY <2>2, <3>5, <3>6, Zenon
    <2>5. Lines(sd) = Lines(s) \o more /\ Lines(td) = Lines(t) \o more
          /\ LastLine(sd) = LastLine(td)
      BY <2>1, <2>2, Zenon
    <2>6. CASE e # "LF"
      <3>1. /\ Lines(Append(sd, e)) = Lines(sd) /\ Lines(Append(td, e)) = Lines(td)
            /\ LastLine(Append(sd, e)) = LastLine(Append(td, e))
        BY <2>3, <2>5, <2>6, LinesGrow
      <3> QED BY <1>1, <2>1, <2>4, <2>5, <3>1, Zenon
    <2>7. CASE e = "LF"
      <3>1. PICK line : line = Append(LastLine(sd), e)
        OBVIOUS
      <3>2. line \in A
        BY <1>1, <2>3, <3>1, LinesAreTyped, AppendProperties
      <3>3. /\ Lines(Append(sd, e)) = Append(Lines(sd), line)
            /\ Lines(Append(td, e)) = Append(Lines(td), line)
            /\ LastLine(Append(sd, e)) = LastLine(Append(td, e))
        <4>1. /\ Lines(Append(sd, e)) = Append(Lines(sd), Append(LastLine(sd), e))
              /\ LastLine(Append(sd, e)) = << >>
          BY <2>3, <2>7, LinesGrow, Zenon
        <4>2. /\ Lines(Append(td, e)) = Append(Lines(td), Append(LastLine(td), e))
              /\ LastLine(Append(td, e)) = << >>
          BY <2>3, <2>7, LinesGrow, Zenon
        <4> QED BY <2>5, <3>1, <4>1, <4>2, Zenon
      <3>4. Lines(s) \in Seq(A) /\ Lines(t) \in Seq(A)
        BY <1>1, LinesAreTyped
      <3>5. /\ Append(Lines(s) \o more, line) = Lines(s) \o Append(more, line)
            /\ Append(Lines(t) \o more, line) = Lines(t) \o Append(more, line)
        <4>1. PICK ls, lt : ls = Lines(s) /\ lt = Lines(t)
          OBVIOUS
        <4>2. ls \in Seq(A)
          BY <3>4, <4>1
        <4>3. lt \in Seq(A)
          BY <3>4, <4>1
        <4>4. more \in Seq(A)
          BY <2>1
        <4>5. ls \o Append(more, line) = Append(ls \o more, line)
          BY ONLY <3>2, <4>2, <4>4, ConcatAppend
        <4>6. lt \o Append(more, line) = Append(lt \o more, line)
          BY ONLY <3>2, <4>3, <4>4, ConcatAppend
        <4> QED BY <4>1, <4>5, <4>6, Zenon
      <3>6. Append(more, line) \in Seq(A)
        BY <2>1, <3>2, AppendProperties
      <3> QED BY <1>1, <2>4, <2>5, <3>3, <3>5, <3>6, Zenon
    <2> QED BY <2>6, <2>7
  <1> HIDE DEF Has
  <1> DEFINE P == {d \in Seq(ClientByte) : Has(d)}
  <1>4. << >> \in P
    BY <1>2, EmptySeq
  <1>5. \A d \in Seq(ClientByte), e \in ClientByte : d \in P => Append(d, e) \in P
    BY <1>3, AppendProperties
  <1> HIDE DEF P
  <1>6. \A d \in Seq(ClientByte) : d \in P
    BY ONLY <1>4, <1>5, SeqSetInduction
  <1> QED BY <1>6 DEF P, Has, GoOnAlike

(* A text without an LF is one open line.                                  *)
LEMMA OpenText ==
  ASSUME NEW text, text \in Seq(ClientByte \ {"LF"})
  PROVE  Lines(text) = << >> /\ LastLine(text) = text
  <1> DEFINE Open(d) == Lines(d) = << >> /\ LastLine(d) = d
             P == {d \in Seq(ClientByte \ {"LF"}) : Open(d)}
  <1>1. PICK S : S = ClientByte \ {"LF"}
    OBVIOUS
  <1>2. << >> \in P
    BY EmptySeq, LinesOfNothing
  <1>3. ASSUME NEW d \in Seq(S), NEW e \in S, Open(d)
        PROVE  Open(Append(d, e))
    <2>1. S \subseteq ClientByte /\ e \in ClientByte /\ e # "LF"
      BY <1>1
    <2>2. d \in Seq(ClientByte)
      BY <2>1, SeqMonotonic
    <2> QED BY <1>3, <2>1, <2>2, LinesGrow
  <1> HIDE DEF Open
  <1>4. \A d \in Seq(S), e \in S : d \in P => Append(d, e) \in P
    BY <1>1, <1>3, AppendProperties
  <1> HIDE DEF P
  <1>5. \A d \in Seq(S) : d \in P
    BY ONLY <1>2, <1>4, SeqSetInduction
  <1> QED BY <1>1, <1>5 DEF P, Open

(* What CutCommand takes is the first line.                                *)
LEMMA FirstLine ==
  ASSUME NEW text, text \in Seq(ClientByte), NEW n \in 1 .. Len(text),
         text[n] = "LF", \A i \in 1 .. n - 1 : text[i] # "LF"
  PROVE  LET line == SubSeq(text, 1, n)
             rest == Rest(text, n)
         IN  /\ line \in Seq(ClientByte) /\ rest \in Seq(ClientByte)
             /\ Lines(text) = <<line>> \o Lines(rest)
             /\ LastLine(text) = LastLine(rest)
  <1>1. PICK line : line = SubSeq(text, 1, n)
    OBVIOUS
  <1>2. PICK rest : rest = Rest(text, n)
    OBVIOUS
  <1>3. PICK front : front = SubSeq(text, 1, n - 1)
    OBVIOUS
  <1>4. Len(text) \in Nat /\ \A i \in 1 .. n : text[i] \in ClientByte
    BY LenProperties, ElementOfSeq
  <1>5. line \in Seq(ClientByte) /\ Len(line) = n /\ \A i \in 1 .. n : line[i] = text[i]
    BY <1>1, <1>4, SubSeqProperties
  <1>6. \A i \in 1 .. n - 1 : text[i] \in ClientByte \ {"LF"}
    BY <1>4
  <1>7. /\ front \in Seq(ClientByte \ {"LF"}) /\ Len(front) = n - 1
        /\ \A i \in 1 .. n - 1 : front[i] = text[i]
    BY <1>3, <1>4, <1>6, SubSeqProperties
  <1>8. front \in Seq(ClientByte) /\ "LF" \in ClientByte
    <2>1. ClientByte \ {"LF"} \subseteq ClientByte
      OBVIOUS
    <2> QED BY <1>4, <1>7, <2>1, SeqMonotonic
  <1>9. line = Append(front, "LF")
    <2>1. PICK other : other = Append(front, "LF")
      OBVIOUS
    <2>2. /\ other \in Seq(ClientByte) /\ Len(other) = n
          /\ \A i \in 1 .. n - 1 : other[i] = front[i]
          /\ other[n] = "LF"
      BY <1>4, <1>7, <1>8, <2>1, AppendProperties
    <2>3. ASSUME NEW i \in 1 .. n PROVE line[i] = other[i]
      <3>1. i \in 1 .. n - 1 \/ i = n
        BY <1>4
      <3> QED BY <1>5, <1>7, <2>2, <3>1
    <2>4. line = other
      BY ONLY <1>5, <2>2, <2>3, SeqEqual
    <2> QED BY <2>1, <2>4
  <1>10. Lines(line) = <<line>> /\ LastLine(line) = << >>
    <2>1. Lines(front) = << >> /\ LastLine(front) = front
      BY <1>7, OpenText
    <2>2. Lines(Append(front, "LF")) = Append(<< >>, Append(front, "LF"))
          /\ LastLine(Append(front, "LF")) = << >>
      <3>1. PICK lf : lf = "LF"
        OBVIOUS
      <3>2. lf \in ClientByte
        BY <1>8, <3>1
      <3>3. /\ Lines(Append(front, lf)) = Append(Lines(front), Append(LastLine(front), lf))
            /\ LastLine(Append(front, lf)) = << >>
        BY <1>8, <3>1, <3>2, LinesGrow, Zenon
      <3> QED BY <2>1, <3>1, <3>3, Zenon
    <2>3. Append(<< >>, line) = <<line>>
      OBVIOUS
    <2> QED BY <1>9, <2>2, <2>3, Zenon
  <1>11. rest \in Seq(ClientByte) /\ line \o rest = text
    <2>1. n \in 0 .. Len(text)
      BY <1>4
    <2>2. text \in Seq(ClientByte)
      OBVIOUS
    <2>3. line \in Seq(ClientByte)
      BY <1>5
    <2>4. Len(line) <= Len(text)
      BY <1>4, <1>5
    <2>5. \A i \in 1 .. Len(line) : line[i] = text[i]
      BY <1>5
    <2>6. line \o Rest(text, Len(line)) = text /\ Rest(text, Len(line)) \in Seq(ClientByte)
      BY ONLY <2>2, <2>3, <2>4, <2>5, Refits
    <2> QED BY <1>2, <1>5, <2>6, Zenon
  <1>12. PICK more :
           /\ more \in Seq(Seq(ClientByte))
           /\ Lines(line \o rest) = Lines(line) \o more
           /\ Lines(<< >> \o rest) = Lines(<< >>) \o more
           /\ LastLine(line \o rest) = LastLine(<< >> \o rest)
    <2>1. << >> \in Seq(ClientByte) /\ LastLine(line) = LastLine(<< >>)
      BY <1>10, LinesOfNothing, EmptySeq
    <2>2. PICK none : none = << >>
      OBVIOUS
    <2>3. none \in Seq(ClientByte)
      BY <2>1, <2>2
    <2>4. LastLine(line) = LastLine(none)
      BY <2>1, <2>2
    <2>5. line \in Seq(ClientByte)
      BY <1>5
    <2>6. rest \in Seq(ClientByte)
      BY <1>11
    <2>7. GoOnAlike(line, none, rest)
      BY ONLY <2>3, <2>4, <2>5, <2>6, CutsGoOn
    <2> QED BY <2>2, <2>7, Zenon DEF GoOnAlike
  <1>13. << >> \o rest = rest /\ Lines(<< >>) \o more = more
    BY <1>11, <1>12, ConcatEmptySeq, LinesOfNothing
  <1> QED BY <1>1, <1>2, <1>5, <1>10, <1>11, <1>12, <1>13, Zenon

-----------------------------------------------------------------------------
(* The commands and the text.                                              *)

TextOf(m) == IF m.type = "AppData" THEN m.data ELSE << >>

TextMap == [m \in Message |-> TextOf(m)]
TrimMap == [line \in Seq(ClientByte) |-> Trim(line)]

Trimmed(lines) == Mapped(TrimMap, lines)

LEMMA MapsOfText ==
  /\ TextMap \in Maps(Message, Seq(ClientByte))
  /\ TrimMap \in Maps(Seq(ClientByte), Seq(ClientByte))
  <1>1. \A m \in Message : TextOf(m) \in Seq(ClientByte)
    BY EmptySeq DEF Message, TextOf
  <1>2. \A line \in Seq(ClientByte) : Trim(line) \in Seq(ClientByte)
    BY TrimIsTyped
  <1> QED BY <1>1, <1>2 DEF Maps, TextMap, TrimMap

TextsOf(ms) == FlattenSeq(Mapped(TextMap, ms))

LEMMA TextIsTextsOf ==
  ASSUME messages \in Seq(Message)
  PROVE  Text = TextsOf(messages)
  <1>1. DOMAIN messages = 1 .. Len(messages)
        /\ \A i \in 1 .. Len(messages) : messages[i] \in Message
    BY LenProperties, ElementOfSeq
  <1>2. [i \in DOMAIN messages |-> TextMap[messages[i]]]
          = [i \in DOMAIN messages |-> IF messages[i].type = "AppData"
                                      THEN messages[i].data ELSE << >>]
    BY <1>1 DEF TextMap, TextOf
  <1> QED BY <1>2, Zenon DEF Text, TextsOf, Mapped

LEMMA TextsAreTyped ==
  ASSUME NEW ms, ms \in Seq(Message)
  PROVE  TextsOf(ms) \in Seq(ClientByte)
  <1>1. PICK A : A = Seq(ClientByte)
    OBVIOUS
  <1>2. TextMap \in Maps(Message, A)
    BY <1>1, MapsOfText
  <1>3. Mapped(TextMap, ms) \in Seq(A)
    BY <1>2, MapIsTyped
  <1> QED BY <1>1, <1>3, FlattenIsTyped DEF TextsOf

LEMMA TextsAppend ==
  ASSUME NEW ms, ms \in Seq(Message), NEW m, m \in Message
  PROVE  TextsOf(Append(ms, m)) = TextsOf(ms) \o TextOf(m)
  <1>1. PICK A : A = Seq(ClientByte)
    OBVIOUS
  <1>2. TextMap \in Maps(Message, A)
    BY <1>1, MapsOfText
  <1>3. ms \in Seq(Message) /\ m \in Message
    OBVIOUS
  <1>4. Mapped(TextMap, Append(ms, m)) = Append(Mapped(TextMap, ms), TextMap[m])
    BY ONLY <1>2, <1>3, MapAppend
  <1>5. TextMap[m] = TextOf(m) /\ TextMap[m] \in A
    BY <1>2 DEF TextMap, Maps
  <1>6. PICK texts : texts = Mapped(TextMap, ms)
    OBVIOUS
  <1>7. texts \in Seq(Seq(ClientByte))
    BY <1>1, <1>2, <1>6, MapIsTyped
  <1>8. PICK text : text = TextOf(m) /\ text \in Seq(ClientByte)
    BY <1>1, <1>5
  <1>9. FlattenSeq(Append(texts, text)) = FlattenSeq(texts) \o text
    BY <1>7, <1>8, FlattenAppend
  <1> QED BY <1>4, <1>5, <1>6, <1>8, <1>9, Zenon DEF TextsOf

(* The commands cut and the lines of the buffer make the lines of a text.  *)
MakeLines(cut, buff, texts) ==
  /\ cut \o Trimmed(Lines(buff)) = Trimmed(Lines(texts))
  /\ LastLine(buff) = LastLine(texts)

Cutting(texts) == MakeLines(commands, cmdbuff, texts)

NoLineWaits ==
  pc \in {"reactor", "onReceive"} =>
    \A i \in DOMAIN cmdbuff : cmdbuff[i] # "LF"

CommandsInv == IInv /\ Cutting(TextsOf(messages)) /\ NoLineWaits

(* More text at the end.                                                   *)
LEMMA TextArrives ==
  ASSUME NEW buff, buff \in Seq(ClientByte), NEW texts, texts \in Seq(ClientByte),
         NEW data, data \in Seq(ClientByte),
         NEW cut, cut \in Seq(Seq(ClientByte)),
         MakeLines(cut, buff, texts)
  PROVE  MakeLines(cut, buff \o data, texts \o data)
  <1>1. PICK A : A = Seq(ClientByte)
    OBVIOUS
  <1>2. TrimMap \in Maps(A, A)
    BY <1>1, MapsOfText
  <1>3. PICK more :
          /\ more \in Seq(A)
          /\ Lines(buff \o data) = Lines(buff) \o more
          /\ Lines(texts \o data) = Lines(texts) \o more
          /\ LastLine(buff \o data) = LastLine(texts \o data)
    <2>1. GoOnAlike(buff, texts, data)
      BY CutsGoOn DEF MakeLines
    <2> QED BY <1>1, <2>1, Zenon DEF GoOnAlike
  <1>4. PICK lb, lt : lb = Lines(buff) /\ lt = Lines(texts)
    OBVIOUS
  <1>5. lb \in Seq(A) /\ lt \in Seq(A)
    BY <1>1, <1>4, LinesAreTyped
  <1>6. /\ Trimmed(lb \o more) = Trimmed(lb) \o Trimmed(more)
        /\ Trimmed(lt \o more) = Trimmed(lt) \o Trimmed(more)
    <2>1. more \in Seq(A)
      BY <1>3
    <2> QED BY ONLY <1>2, <1>5, <2>1, MapConcat DEF Trimmed
  <1>7. PICK tb, tm : tb = Trimmed(lb) /\ tm = Trimmed(more)
    OBVIOUS
  <1>8. tb \in Seq(A) /\ tm \in Seq(A) /\ cut \in Seq(A)
    BY <1>1, <1>2, <1>3, <1>5, <1>7, MapIsTyped DEF Trimmed
  <1>9. (cut \o tb) \o tm = cut \o (tb \o tm)
    BY ONLY <1>8, ConcatAssociative
  <1> QED BY <1>3, <1>4, <1>6, <1>7, <1>9, Zenon DEF MakeLines

(* The first line becomes a command.                                       *)
LEMMA CommandCut ==
  ASSUME IInv, Cutting(TextsOf(messages)), CutCommand
  PROVE  Cutting(TextsOf(messages))'
  <1>1. cmdbuff \in Seq(ClientByte) /\ commands \in Seq(Seq(ClientByte))
        /\ messages' = messages
    BY DEF IInv, TypeOK, CutCommand
  <1>2. DOMAIN cmdbuff = 1 .. Len(cmdbuff)
    BY <1>1, LenProperties
  <1>3. PICK n : /\ n \in 1 .. Len(cmdbuff)
                 /\ cmdbuff[n] = "LF"
                 /\ \A i \in 1 .. n - 1 : cmdbuff[i] # "LF"
                 /\ commands' = Append(commands, Trim(SubSeq(cmdbuff, 1, n)))
                 /\ cmdbuff' = Rest(cmdbuff, n)
    BY <1>2 DEF CutCommand
  <1>4. PICK line, rest : line = SubSeq(cmdbuff, 1, n) /\ rest = Rest(cmdbuff, n)
    OBVIOUS
  <1>5. /\ line \in Seq(ClientByte) /\ rest \in Seq(ClientByte)
        /\ Lines(cmdbuff) = <<line>> \o Lines(rest)
        /\ LastLine(cmdbuff) = LastLine(rest)
    BY <1>1, <1>3, <1>4, FirstLine, Zenon
  <1>6. PICK A : A = Seq(ClientByte)
    OBVIOUS
  <1>7. PICK one, lr : one = <<line>> /\ lr = Lines(rest)
    OBVIOUS
  <1>8. one \in Seq(A) /\ lr \in Seq(A)
    BY <1>5, <1>6, <1>7, LinesAreTyped
  <1>9. TrimMap \in Maps(A, A)
    BY <1>6, MapsOfText
  <1>10. Trimmed(one \o lr) = Trimmed(one) \o Trimmed(lr)
    BY ONLY <1>8, <1>9, MapConcat DEF Trimmed
  <1>11. Trimmed(one) = <<Trim(line)>>
    BY <1>5, <1>7 DEF Trimmed, Mapped, TrimMap
  <1>12. PICK command, trest : command = Trim(line) /\ trest = Trimmed(lr)
    OBVIOUS
  <1>13. command \in A /\ trest \in Seq(A) /\ commands \in Seq(A)
    BY <1>1, <1>5, <1>6, <1>8, <1>9, <1>12, TrimIsTyped, MapIsTyped DEF Trimmed
  <1>14. Append(commands, command) \o trest = commands \o (<<command>> \o trest)
    <2>1. <<command>> \in Seq(A) /\ Append(commands, command) = commands \o <<command>>
      BY <1>13, AppendIsConcat
    <2> QED BY <1>13, <2>1, ConcatAssociative
  <1>15. commands' \o Trimmed(Lines(rest)) = commands \o Trimmed(Lines(cmdbuff))
    BY <1>3, <1>4, <1>5, <1>7, <1>10, <1>11, <1>12, <1>14, Zenon
  <1>16. cmdbuff' = rest
    BY <1>3, <1>4
  <1> QED BY <1>1, <1>5, <1>15, <1>16, Zenon DEF Cutting, MakeLines

(* A message that is no text.                                              *)
LEMMA NoTextArrives ==
  ASSUME IInv, Cutting(TextsOf(messages)), NEW m, m \in Message,
         m.type # "AppData", messages' = Append(messages, m),
         cmdbuff' = cmdbuff, commands' = commands
  PROVE  Cutting(TextsOf(messages))'
  <1>1. messages \in Seq(Message)
    BY DEF IInv, TypeOK
  <1>2. TextOf(m) = << >>
    BY DEF TextOf
  <1>3. TextsOf(messages') = TextsOf(messages) \o << >>
    BY <1>1, <1>2, TextsAppend, Zenon
  <1>4. TextsOf(messages) \o << >> = TextsOf(messages)
    BY <1>1, TextsAreTyped, ConcatEmptySeq
  <1> QED BY <1>3, <1>4, Zenon DEF Cutting, MakeLines

LEMMA DataArrives ==
  ASSUME IInv, Cutting(TextsOf(messages)), NEW data, data \in Seq(ClientByte),
         messages' = Append(messages, AppData(data)),
         cmdbuff' = cmdbuff \o data, commands' = commands
  PROVE  Cutting(TextsOf(messages))'
  <1>1. messages \in Seq(Message) /\ cmdbuff \in Seq(ClientByte)
        /\ commands \in Seq(Seq(ClientByte))
    BY DEF IInv, TypeOK
  <1>2. AppData(data) \in Message /\ TextOf(AppData(data)) = data
    BY DEF AppData, Message, TextOf
  <1>3. TextsOf(messages') = TextsOf(messages) \o data
    BY <1>1, <1>2, TextsAppend, Zenon
  <1>4. PICK texts : texts = TextsOf(messages) /\ texts \in Seq(ClientByte)
    BY <1>1, TextsAreTyped
  <1>5. PICK buff, cut : buff = cmdbuff /\ cut = commands
    OBVIOUS
  <1>6. MakeLines(cut, buff \o data, texts \o data)
    <2>2. buff \in Seq(ClientByte) /\ cut \in Seq(Seq(ClientByte))
      BY <1>1, <1>5
    <2>3. MakeLines(cut, buff, texts)
      BY <1>4, <1>5, Zenon DEF Cutting
    <2>4. data \in Seq(ClientByte) /\ texts \in Seq(ClientByte)
      BY <1>4
    <2> QED BY ONLY <2>2, <2>3, <2>4, TextArrives
  <1> QED BY <1>3, <1>4, <1>5, <1>6, Zenon DEF Cutting

LEMMA CommandsInit == Init => CommandsInv
  <1> SUFFICES ASSUME Init PROVE CommandsInv
    OBVIOUS
  <1>1. IInv
    BY InitInvariant
  <1>2. NoLineWaits
    BY DEF Init, NoLineWaits
  <1>3. Mapped(TextMap, << >>) = << >> /\ Trimmed(<< >>) = << >>
    BY DEF Mapped, Trimmed
  <1>4. TextsOf(<< >>) = << >>
    BY <1>3, FlattenOfNothing DEF TextsOf
  <1>5. << >> \o << >> = << >>
    BY EmptySeq, ConcatEmptySeq
  <1>6. messages = << >> /\ cmdbuff = << >> /\ commands = << >>
    BY DEF Init
  <1>7. Cutting(TextsOf(messages))
    BY <1>3, <1>4, <1>5, <1>6, LinesOfNothing, Zenon DEF Cutting, MakeLines
  <1> QED BY <1>1, <1>2, <1>7 DEF CommandsInv

LEMMA CommandsStep == CommandsInv /\ [Next]_receiveVars => CommandsInv'
  <1> SUFFICES ASSUME CommandsInv, [Next]_receiveVars PROVE CommandsInv'
    OBVIOUS
  <1>1. IInv /\ Cutting(TextsOf(messages)) /\ NoLineWaits
    BY DEF CommandsInv
  <1>2. IInv'
    BY <1>1, StepInvariant
  <1>3. NoLineWaits'
    BY <1>1 DEF NoLineWaits, Next, HandlerStep, SocketStep, TakeEscape, TakeText,
       TakeNegotiation, TakeCommand, EmitText, SeekSubnegotiationEnd, CutCommand,
       NoMoreCommands, Receive, ReadCompletes, ReadFails, receiveVars, bufferVars,
       Decoding
  <1>4. CASE messages' = messages /\ cmdbuff' = cmdbuff /\ commands' = commands
    <2>1. Cutting(TextsOf(messages))'
      BY <1>1, <1>4 DEF Cutting
    <2> QED BY <1>2, <1>3, <2>1 DEF CommandsInv
  <1>5. CASE CutCommand
    BY <1>1, <1>2, <1>3, <1>5, CommandCut DEF CommandsInv
  <1>6. CASE TakeText
    <2> DEFINE n == TextLength(inbox)
               data == SubSeq(inbox, 1, n)
    <2>1. inbox \in Seq(ClientByte) /\ inbox # << >> /\ inbox[1] # "IAC"
      BY <1>1, <1>6 DEF IInv, TypeOK, TakeText, Decoding
    <2>2. n \in 1 .. Len(inbox) /\ Len(inbox) \in Nat
      BY <2>1, TextProperties, LenProperties
    <2>3. /\ messages' = Append(messages, AppData(data))
          /\ cmdbuff' = cmdbuff \o data /\ commands' = commands
      BY <1>6 DEF TakeText, EmitText, Emit
    <2> HIDE DEF n
    <2>4. \A i \in 1 .. n : inbox[i] \in ClientByte
      BY <2>1, <2>2, ElementOfSeq
    <2>5. data \in Seq(ClientByte)
      BY <2>2, <2>4, SubSeqProperties
    <2> HIDE DEF data
    <2> QED BY <1>1, <1>2, <1>3, <2>3, <2>5, DataArrives DEF CommandsInv
  <1>7. CASE TakeEscape
    <2>1. /\ messages' = Append(messages, AppData(<<"IAC">>))
          /\ cmdbuff' = cmdbuff \o <<"IAC">> /\ commands' = commands
      BY <1>7 DEF TakeEscape, EmitText, Emit
    <2>2. "IAC" \in ClientByte
      BY <1>1, <1>7, EnoughBytes DEF IInv, TakeEscape
    <2>3. PICK data : data = <<"IAC">>
      OBVIOUS
    <2>4. data \in Seq(ClientByte)
      BY <2>2, <2>3
    <2> QED BY <1>1, <1>2, <1>3, <2>1, <2>3, <2>4, DataArrives DEF CommandsInv
  <1>8. CASE TakeCommand
    <2>1. inbox[2] \in ClientByte
      BY <1>1, <1>8, EnoughBytes DEF IInv, TakeCommand
    <2>4. PICK m : m = Command(inbox[2])
      OBVIOUS
    <2>2. m = Command(inbox[2]) /\ m \in Message /\ m.type # "AppData"
      BY <2>1, <2>4 DEF Command, Message
    <2>3. /\ messages' = Append(messages, m)
          /\ cmdbuff' = cmdbuff /\ commands' = commands
      BY <1>8, <2>2 DEF TakeCommand, Emit
    <2> QED BY <1>1, <1>2, <1>3, <2>2, <2>3, NoTextArrives DEF CommandsInv
  <1>9. CASE TakeNegotiation
    <2>1. Len(inbox) \in Nat /\ Len(inbox) >= 3 /\ inbox[2] \in Offer
      BY <1>1, <1>9, EnoughBytes DEF IInv, TakeNegotiation, Needed
    <2>2. inbox[3] \in ClientByte
      BY <1>1, <2>1, ElementOfSeq DEF IInv, TypeOK
    <2>5. PICK m : m = Negotiation(inbox[2], inbox[3])
      OBVIOUS
    <2>3. m = Negotiation(inbox[2], inbox[3]) /\ m \in Message /\ m.type # "AppData"
      BY <2>1, <2>2, <2>5 DEF Negotiation, Message
    <2>4. /\ messages' = Append(messages, m)
          /\ cmdbuff' = cmdbuff /\ commands' = commands
      BY <1>9, <2>3 DEF TakeNegotiation, Emit
    <2> QED BY <1>1, <1>2, <1>3, <2>3, <2>4, NoTextArrives DEF CommandsInv
  <1> QED BY <1>4, <1>5, <1>6, <1>7, <1>8, <1>9
       DEF Next, HandlerStep, SocketStep, SeekSubnegotiationEnd, NoMoreCommands,
           Receive, ReadCompletes, ReadFails, receiveVars, bufferVars, historyVars

(* Whatever the client sends and however it is cut into reads, the         *)
(* commands that onReceiveAppData has cut are the lines of the text of all *)
(* messages, trimmed, and cmdbuff is what follows the last of them.        *)
THEOREM CommandsMatchLines == Spec => []CommandsAreLines
  <1>1. CommandsInv => CommandsAreLines
    <2> SUFFICES ASSUME CommandsInv, pc \in {"reactor", "onReceive"}
                 PROVE  /\ commands = [k \in DOMAIN Lines(Text) |-> Trim(Lines(Text)[k])]
                        /\ cmdbuff = LastLine(Text)
      BY DEF CommandsAreLines
    <2>1. /\ messages \in Seq(Message) /\ cmdbuff \in Seq(ClientByte)
          /\ commands \in Seq(Seq(ClientByte))
      BY DEF CommandsInv, IInv, TypeOK
    <2>2. Text = TextsOf(messages) /\ TextsOf(messages) \in Seq(ClientByte)
      BY <2>1, TextIsTextsOf, TextsAreTyped
    <2>3. Len(cmdbuff) \in Nat /\ DOMAIN cmdbuff = 1 .. Len(cmdbuff)
          /\ \A i \in 1 .. Len(cmdbuff) : cmdbuff[i] \in ClientByte
      BY <2>1, LenProperties, ElementOfSeq
    <2>4. \A i \in 1 .. Len(cmdbuff) : cmdbuff[i] \in ClientByte \ {"LF"}
      BY <2>3 DEF CommandsInv, NoLineWaits
    <2>5. cmdbuff \in Seq(ClientByte \ {"LF"})
      BY <2>1, <2>3, <2>4, SeqDef, LenProperties
    <2>6. Lines(cmdbuff) = << >> /\ LastLine(cmdbuff) = cmdbuff
      BY <2>5, OpenText
    <2>7. Trimmed(<< >>) = << >>
      BY DEF Trimmed, Mapped
    <2>8. commands \o << >> = commands
      BY <2>1, ConcatEmptySeq
    <2>9. commands = Trimmed(Lines(Text)) /\ cmdbuff = LastLine(Text)
      BY <2>2, <2>6, <2>7, <2>8, Zenon DEF CommandsInv, Cutting, MakeLines
    <2>10. Lines(Text) \in Seq(Seq(ClientByte))
      BY <2>2, LinesAreTyped
    <2>11. \A k \in DOMAIN Lines(Text) : TrimMap[Lines(Text)[k]] = Trim(Lines(Text)[k])
      <3>1. PICK lines : lines = Lines(Text) /\ lines \in Seq(Seq(ClientByte))
        BY <2>10
      <3>2. DOMAIN lines = 1 .. Len(lines)
            /\ \A k \in 1 .. Len(lines) : lines[k] \in Seq(ClientByte)
        BY <3>1, LenProperties, ElementOfSeq
      <3> QED BY <3>1, <3>2 DEF TrimMap
    <2>12. Trimmed(Lines(Text)) = [k \in DOMAIN Lines(Text) |-> Trim(Lines(Text)[k])]
      BY <2>11, Zenon DEF Trimmed, Mapped
    <2> QED BY <2>9, <2>12, Zenon
  <1> QED BY <1>1, CommandsInit, CommandsStep, PTL DEF Spec

-----------------------------------------------------------------------------
(* For those who use the receiver.                                         *)

(* What has been heard stays heard when more bytes come.                   *)
HearsMore(bytes, more) ==
  \E said \in Said : Heard(bytes \o more) = Heard(bytes) \o said

LEMMA HearAddsOne ==
  ASSUME NEW state \in HearState, NEW byte \in Octet
  PROVE  \/ Hear(state, byte).heard = state.heard
         \/ \E event \in Seq(Octet) : Hear(state, byte).heard = Append(state.heard, event)
  <1>1. state.mode = "text" =>
          \/ Hear(state, byte).heard = state.heard
          \/ Hear(state, byte).heard = Append(state.heard, <<byte>>)
    BY HearInText
  <1>2. state.mode = "IAC" =>
          \/ Hear(state, byte).heard = state.heard
          \/ Hear(state, byte).heard = Append(state.heard, <<"IAC">>)
          \/ Hear(state, byte).heard = Append(state.heard, <<"IAC", byte>>)
    BY HearAfterIAC
  <1>3. state.mode \in {"SB", "SB IAC"} => Hear(state, byte).heard = state.heard
    BY HearInSubnegotiation
  <1>4. state.mode \in Offer =>
          Hear(state, byte).heard = Append(state.heard, <<"IAC", state.mode, byte>>)
    BY HearAfterOffer
  <1>5. state.mode \in {"text", "IAC", "SB", "SB IAC"} \cup Offer
    BY DEF HearState
  <1>6. /\ <<byte>> \in Seq(Octet) /\ <<"IAC">> \in Seq(Octet)
        /\ <<"IAC", byte>> \in Seq(Octet)
        /\ state.mode \in Offer => <<"IAC", state.mode, byte>> \in Seq(Octet)
    <2>1. "IAC" \in Octet /\ Offer \subseteq Octet
      BY Octets
    <2> QED BY <2>1
  <1> QED BY <1>1, <1>2, <1>3, <1>4, <1>5, <1>6, Zenon

LEMMA HeardGrows ==
  ASSUME NEW bytes, bytes \in Seq(Octet), NEW more, more \in Seq(Octet)
  PROVE  HearsMore(bytes, more)
  <1> DEFINE P == {m \in Seq(Octet) : HearsMore(bytes, m)}
  <1>1. << >> \in P
    <2>1. << >> \in Said /\ << >> \in Seq(Octet) /\ Heard(bytes) \in Said
      BY EmptySeq, HeardIsTyped DEF Said
    <2>2. bytes \o << >> = bytes
      BY ConcatEmptySeq
    <2>3. Heard(bytes) \o << >> = Heard(bytes)
      BY <2>1, ConcatEmptySeq DEF Said
    <2> QED BY <2>1, <2>2, <2>3, Zenon DEF HearsMore
  <1>2. ASSUME NEW m, m \in Seq(Octet), NEW byte \in Octet, HearsMore(bytes, m)
        PROVE  HearsMore(bytes, Append(m, byte))
    <2>1. PICK said : said \in Said /\ Heard(bytes \o m) = Heard(bytes) \o said
      BY <1>2, Zenon DEF HearsMore
    <2>2. PICK all : all = bytes \o m
      OBVIOUS
    <2>3. all \in Seq(Octet)
      BY <1>2, <2>2, ConcatProperties
    <2>4. bytes \o Append(m, byte) = Append(all, byte)
      <3>1. bytes \in Seq(Octet) /\ m \in Seq(Octet) /\ byte \in Octet
        BY <1>2
      <3> QED BY ONLY <2>2, <3>1, ConcatAppend
    <2>5. PICK state : state = Hearing(all) /\ state \in HearState
      BY <2>3, HearingIsTyped
    <2>6. Hearing(Append(all, byte)) = Hear(state, byte)
      BY <2>3, <2>5, HearingAppend
    <2>7. state.heard = Heard(bytes) \o said
      BY <2>1, <2>2, <2>5, Zenon DEF Heard
    <2>8. CASE Hear(state, byte).heard = state.heard
      BY <2>1, <2>4, <2>6, <2>7, <2>8, Zenon DEF HearsMore, Heard
    <2>9. ASSUME NEW event \in Seq(Octet),
                 Hear(state, byte).heard = Append(state.heard, event)
          PROVE  HearsMore(bytes, Append(m, byte))
      <3>1. PICK A : A = Seq(Octet)
        OBVIOUS
      <3>2. PICK before : before = Heard(bytes)
        OBVIOUS
      <3>3. before \in Seq(A) /\ said \in Seq(A) /\ event \in A
        BY <2>1, <3>1, <3>2, HeardIsTyped DEF Said
      <3>4. before \o Append(said, event) = Append(before \o said, event)
        BY ONLY <3>3, ConcatAppend
      <3>5. Append(said, event) \in Said
        BY <3>1, <3>3, AppendProperties DEF Said
      <3>6. Heard(bytes \o Append(m, byte)) = Append(before \o said, event)
        BY <2>4, <2>6, <2>7, <2>9, <3>2, Zenon DEF Heard
      <3> QED BY <3>2, <3>4, <3>5, <3>6, Zenon DEF HearsMore
    <2> QED BY <2>5, <2>8, <2>9, HearAddsOne
  <1>3. \A m \in Seq(Octet), byte \in Octet : m \in P => Append(m, byte) \in P
    BY <1>2, AppendProperties
  <1> HIDE DEF P
  <1>4. \A m \in Seq(Octet) : m \in P
    BY ONLY <1>1, <1>3, SeqSetInduction
  <1> QED BY <1>4 DEF P

(* What one more message adds to what was heard.                           *)
LEMMA MessageHeard ==
  ASSUME DecodedInv, DecodedInv', NEW m, m \in Message,
         messages' = Append(messages, m)
  PROVE  Heard(framed') = Heard(framed) \o Events(m)
  <1>1. messages \in Seq(Message)
    BY DEF DecodedInv, IInv, TypeOK
  <1>2. Events(m) \in Said /\ EventsOf(messages) \in Seq(Said)
    BY <1>1, EventsAreTyped, EventsOfAreTyped
  <1>3. EventsOf(messages') = Append(EventsOf(messages), Events(m))
    BY <1>1, EventsOfAppend
  <1>4. FlattenSeq(Append(EventsOf(messages), Events(m)))
          = FlattenSeq(EventsOf(messages)) \o Events(m)
    BY <1>2, FlattenAppend DEF Said
  <1> QED BY <1>3, <1>4, Zenon DEF DecodedInv, Decoded

(* Messages are framed one after the other.                                *)
LEMMA FramedGrows ==
  IInv /\ [Next]_receiveVars =>
    \E e \in Seq(ClientByte) : framed' = framed \o e
  <1> SUFFICES ASSUME IInv, [Next]_receiveVars
               PROVE  \E e \in Seq(ClientByte) : framed' = framed \o e
    OBVIOUS
  <1>1. CASE framed' = framed
    <2>1. framed \o << >> = framed /\ << >> \in Seq(ClientByte)
      BY EmptySeq, ConcatEmptySeq DEF IInv, TypeOK
    <2> QED BY <1>1, <2>1, Zenon
  <1>2. inbox \in Seq(ClientByte) /\ Len(inbox) \in Nat
    BY LenProperties DEF IInv, TypeOK
  <1>3. CASE TakeText
    <2> DEFINE n == TextLength(inbox)
               data == SubSeq(inbox, 1, n)
    <2>1. inbox # << >> /\ inbox[1] # "IAC"
      BY <1>3 DEF TakeText, Decoding
    <2>2. n \in 1 .. Len(inbox)
      BY <1>2, <2>1, TextProperties
    <2>3. framed' = framed \o Encoding(AppData(data))
      BY <1>3 DEF TakeText, EmitText, Emit
    <2> HIDE DEF n
    <2>4. \A i \in 1 .. n : inbox[i] \in ClientByte
      BY <1>2, <2>2, ElementOfSeq
    <2>5. data \in Seq(ClientByte) /\ Len(data) = n
          /\ \A i \in 1 .. n : data[i] = inbox[i]
      BY <1>2, <2>2, <2>4, SubSeqProperties
    <2> HIDE DEF data
    <2>6. data # <<"IAC">>
      BY <2>1, <2>2, <2>5
    <2>7. Encoding(AppData(data)) = data
      BY <2>6 DEF Encoding, AppData
    <2> QED BY <2>3, <2>5, <2>7, Zenon
  <1>4. CASE TakeEscape
    <2>1. framed' = framed \o Encoding(AppData(<<"IAC">>))
      BY <1>4 DEF TakeEscape, EmitText, Emit
    <2>2. "IAC" \in ClientByte
      BY <1>4, EnoughBytes DEF IInv, TakeEscape
    <2>3. Encoding(AppData(<<"IAC">>)) = <<"IAC", "IAC">>
      BY DEF Encoding, AppData
    <2>4. <<"IAC", "IAC">> \in Seq(ClientByte)
      BY <2>2
    <2> QED BY <2>1, <2>3, <2>4, Zenon
  <1>5. CASE TakeCommand
    <2>1. framed' = framed \o Encoding(Command(inbox[2]))
      BY <1>5 DEF TakeCommand, Emit
    <2>2. "IAC" \in ClientByte /\ inbox[2] \in ClientByte
      BY <1>5, EnoughBytes DEF IInv, TakeCommand
    <2>3. Encoding(Command(inbox[2])) = <<"IAC", inbox[2]>>
      BY DEF Encoding, Command
    <2>4. <<"IAC", inbox[2]>> \in Seq(ClientByte)
      BY <2>2
    <2> QED BY <2>1, <2>3, <2>4, Zenon
  <1>6. CASE TakeNegotiation
    <2>1. framed' = framed \o Encoding(Negotiation(inbox[2], inbox[3]))
      BY <1>6 DEF TakeNegotiation, Emit
    <2>2. "IAC" \in ClientByte /\ inbox[2] \in ClientByte /\ Len(inbox) >= 3
      BY <1>6, EnoughBytes DEF IInv, TakeNegotiation, Needed
    <2>3. inbox[3] \in ClientByte
      BY <1>2, <2>2, ElementOfSeq
    <2>4. Encoding(Negotiation(inbox[2], inbox[3])) = <<"IAC", inbox[2], inbox[3]>>
      BY DEF Encoding, Negotiation
    <2>5. <<"IAC", inbox[2], inbox[3]>> \in Seq(ClientByte)
      BY <2>2, <2>3
    <2> QED BY <2>1, <2>4, <2>5, Zenon
  <1> QED BY <1>1, <1>3, <1>4, <1>5, <1>6
       DEF Next, HandlerStep, SocketStep, SeekSubnegotiationEnd, CutCommand,
           NoMoreCommands, Receive, ReadCompletes, ReadFails, receiveVars,
           historyVars

(* No more is read than the bound allows.                                  *)
LEMMA ReceivedBounded ==
  IInv /\ Len(received) <= MaxBytes /\ [Next]_receiveVars => Len(received') <= MaxBytes
  <1> SUFFICES ASSUME IInv, Len(received) <= MaxBytes, [Next]_receiveVars
               PROVE  Len(received') <= MaxBytes
    OBVIOUS
  <1>1. CASE received' = received
    BY <1>1
  <1>2. ASSUME NEW n \in 1 .. MaxRead, NEW chunk \in [1 .. n -> ClientByte],
               ReadCompletes(chunk)
        PROVE  Len(received') <= MaxBytes
    <2>1. chunk \in Seq(ClientByte)
      BY ReadAssumption, SeqDef
    <2>2. received \in Seq(ClientByte)
      BY DEF IInv, TypeOK
    <2>3. Len(received') = Len(received) + Len(chunk)
      BY <1>2, <2>1, <2>2, ConcatProperties DEF ReadCompletes
    <2> QED BY <1>2, <2>3 DEF ReadCompletes
  <1> QED BY <1>1, <1>2
       DEF Next, HandlerStep, SocketStep, TakeEscape, TakeText, TakeNegotiation,
           TakeCommand, EmitText, SeekSubnegotiationEnd, CutCommand, NoMoreCommands,
           Receive, ReadFails, receiveVars, historyVars

=============================================================================
