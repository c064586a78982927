-------------------------- MODULE TelnetOptionProofs --------------------------
(***************************************************************************)
(* Safety of the negotiation of options, for any options and any client    *)
(* that negotiates as RFC 854 asks.                                        *)
(***************************************************************************)
EXTENDS TelnetOption, SequenceTheorems, FiniteSetTheorems, TLAPS

-----------------------------------------------------------------------------
(* The inductive invariant.                                                *)

(* The program has been told of the connection if it is started, once, and *)
(* not before start() has been called.                                     *)
ToldOnce ==
  /\ server.readies = IF server.started THEN 1 ELSE 0
  /\ timer = "unset" => ~server.started

IInv ==
  /\ TypeOK
  /\ ToldOnce
  /\ ReadyAfterHandshakes

Holders == Side \cup {"special"}

NoHandshakes(s) == \A h \in Holders : s.holders[h] = {}

(* What handling a negotiation does to the connection: handshakes are only *)
(* settled, and it becomes ready at most once and with none left open.     *)
Advances(s, t) ==
  /\ t \in Server
  /\ \A h \in Holders : t.holders[h] \subseteq s.holders[h]
  /\ \/ t.started = s.started /\ t.readies = s.readies
     \/ /\ ~s.started /\ t.started /\ t.readies = s.readies + 1
        /\ NoHandshakes(t)

-----------------------------------------------------------------------------
(* Facts about the operators on a connection.                              *)

LEMMA ServerFields ==
  ASSUME NEW s \in Server
  PROVE  /\ s.options \in [Side -> [Options -> Perspective]]
         /\ s.holders \in [Holders -> SUBSET Options]
         /\ s.toClient \in Seq(Message)
         /\ s.started \in BOOLEAN
         /\ s.readies \in Nat
  BY DEF Server, Holders

LEMMA AdvancesType ==
  ASSUME NEW s, NEW t, Advances(s, t)
  PROVE  t \in Server
  BY DEF Advances

LEMMA AdvancesReflexive ==
  ASSUME NEW s \in Server
  PROVE  Advances(s, s)
  BY DEF Advances

LEMMA AdvancesTransitive ==
  ASSUME NEW s \in Server, NEW t, NEW u, Advances(s, t), Advances(t, u)
  PROVE  Advances(s, u)
  <1>1. t \in Server /\ u \in Server
    BY DEF Advances
  <1>2. \A h \in Holders : u.holders[h] \subseteq s.holders[h]
    BY DEF Advances
  <1>3. CASE t.started = s.started /\ t.readies = s.readies
    BY <1>1, <1>2, <1>3 DEF Advances
  <1>4. CASE ~s.started /\ t.started /\ t.readies = s.readies + 1
             /\ NoHandshakes(t)
    <2>1. u.started = t.started /\ u.readies = t.readies
      BY <1>4 DEF Advances
    <2>2. NoHandshakes(u)
      BY <1>4 DEF Advances, NoHandshakes
    <2> QED BY <1>1, <1>2, <1>4, <2>1, <2>2 DEF Advances
  <1> QED BY <1>3, <1>4 DEF Advances

LEMMA OptionsChange ==
  ASSUME NEW s \in Server, NEW opts \in [Side -> [Options -> Perspective]]
  PROVE  Advances(s, [s EXCEPT !.options = opts])
  BY DEF Advances, Server

LEMMA FlagChange ==
  ASSUME NEW s \in Server, NEW side \in Side, NEW o \in Options,
         NEW b \in BOOLEAN
  PROVE  /\ Advances(s, [s EXCEPT !.options[side][o].enabled = b])
         /\ Advances(s, [s EXCEPT !.options[side][o].negotiating = b])
         /\ Advances(s, [s EXCEPT !.options[side][o].answered = b])
  <1>1. s.options[side][o] \in Perspective
    BY ServerFields
  <1>2. /\ [s.options[side][o] EXCEPT !.enabled = b] \in Perspective
        /\ [s.options[side][o] EXCEPT !.negotiating = b] \in Perspective
        /\ [s.options[side][o] EXCEPT !.answered = b] \in Perspective
    BY <1>1 DEF Perspective
  <1>3. ASSUME NEW p \in Perspective
        PROVE  Advances(s, [s EXCEPT !.options[side][o] = p])
    <2>1. [s.options EXCEPT ![side][o] = p] \in [Side -> [Options -> Perspective]]
      BY ServerFields
    <2> QED BY <2>1, OptionsChange
  <1> QED BY <1>2, <1>3

LEMMA SendAdvances ==
  ASSUME NEW s \in Server, NEW command \in {"WILL", "WONT", "DO", "DONT"},
         NEW o \in Options
  PROVE  Advances(s, SendNegotiate(s, command, o))
  <1>1. Append(s.toClient, <<command, o>>) \in Seq(Message)
    BY ServerFields, AppendProperties DEF Message
  <1> QED BY <1>1 DEF SendNegotiate, Advances, Server

LEMMA FinishReadyKeepsType ==
  ASSUME NEW s \in Server
  PROVE  /\ FinishReady(s) \in Server
         /\ FinishReady(s).started
         /\ FinishReady(s).holders = s.holders
         /\ FinishReady(s).readies = IF s.started THEN s.readies
                                                  ELSE s.readies + 1
  <1>1. CASE s.started
    BY <1>1 DEF FinishReady
  <1>2. CASE ~s.started
    <2> DEFINE t == [s EXCEPT !.started = TRUE, !.readies = @ + 1]
    <2>1. s.readies + 1 \in Nat
      BY ServerFields
    <2>2. /\ t \in Server /\ t.started /\ t.holders = s.holders
          /\ t.readies = s.readies + 1
      BY <2>1 DEF Server
    <2> QED BY <1>2, <2>2 DEF FinishReady
  <1> QED BY <1>1, <1>2, ServerFields

LEMMA CheckReadyAdvances ==
  ASSUME NEW s \in Server
  PROVE  Advances(s, CheckReady(s))
  <1>1. DOMAIN s.holders = Holders
    BY ServerFields
  <1>2. CASE ~s.started /\ NoHandshakes(s)
    BY <1>1, <1>2, FinishReadyKeepsType DEF CheckReady, NoHandshakes, Advances
  <1>3. CASE ~(~s.started /\ NoHandshakes(s))
    BY <1>1, <1>3, AdvancesReflexive DEF CheckReady, NoHandshakes
  <1> QED BY <1>2, <1>3

LEMMA ProcessAdvances ==
  ASSUME NEW s \in Server, NEW side \in Side, NEW o \in Options
  PROVE  Advances(s, ProcessHandshake(s, side, o))
  <1> DEFINE t == [s EXCEPT !.holders[side] = @ \ {o}]
  <1>1. Advances(s, t)
    <2>1. [s.holders EXCEPT ![side] = @ \ {o}] \in [Holders -> SUBSET Options]
      BY ServerFields DEF Holders
    <2>2. t \in Server
      BY <2>1 DEF Server, Holders
    <2>3. \A h \in Holders : t.holders[h] \subseteq s.holders[h]
      BY ServerFields DEF Server
    <2>4. t.started = s.started /\ t.readies = s.readies
      BY DEF Server
    <2> QED BY <2>2, <2>3, <2>4 DEF Advances
  <1>2. Advances(t, CheckReady(t))
    BY <1>1, AdvancesType, CheckReadyAdvances
  <1> HIDE DEF t
  <1>3. ProcessHandshake(s, side, o) \in {t, CheckReady(t)}
    BY DEF ProcessHandshake, t
  <1> QED BY <1>1, <1>2, <1>3, AdvancesTransitive

LEMMA AnsweredAdvances ==
  ASSUME NEW s \in Server, NEW side \in Side, NEW o \in Options
  PROVE  Advances(s, Answered(s, side, o))
  <1> DEFINE t == [s EXCEPT !.options[side][o].answered = TRUE]
  <1>1. Advances(s, t)
    BY FlagChange
  <1> HIDE DEF t
  <1>2. Advances(t, ProcessHandshake(t, side, o))
    BY <1>1, AdvancesType, ProcessAdvances
  <1>3. Answered(s, side, o) \in {s, ProcessHandshake(t, side, o)}
    BY DEF Answered, t
  <1> QED BY <1>1, <1>2, <1>3, AdvancesReflexive, AdvancesTransitive

LEMMA NegotiateAdvances ==
  ASSUME NEW s \in Server, NEW command \in {"WILL", "WONT", "DO", "DONT"},
         NEW o \in Options
  PROVE  Advances(s, Negotiate(s, command, o))
  <1>1. ASSUME NEW side \in Side
        PROVE  Advances(s, SendNegotiate([s EXCEPT
                 !.options[side][o].negotiating = TRUE], command, o))
    <2> DEFINE t == [s EXCEPT !.options[side][o].negotiating = TRUE]
    <2>1. Advances(s, t)
      BY FlagChange
    <2> HIDE DEF t
    <2>2. Advances(t, SendNegotiate(t, command, o))
      BY <2>1, AdvancesType, SendAdvances
    <2>3. Advances(s, SendNegotiate(t, command, o))
      BY <2>1, <2>2, AdvancesTransitive
    <2> QED BY <2>3 DEF t
  <1>2. CASE command = "DO"
    BY <1>1, <1>2 DEF Negotiate, Side
  <1>3. CASE command = "WILL"
    BY <1>1, <1>3 DEF Negotiate, Side
  <1>4. CASE command \notin {"DO", "WILL"}
    BY <1>4, AdvancesReflexive DEF Negotiate
  <1> QED BY <1>2, <1>3, <1>4

LEMMA AgreedAdvances ==
  ASSUME NEW s \in Server, NEW side \in Side, NEW o \in Options
  PROVE  Advances(s, Agreed(s, side, o))
  <1> DEFINE settled == [s EXCEPT !.options[side][o].negotiating = FALSE]
             enabled == [settled EXCEPT !.options[side][o].enabled = TRUE]
             agreed  == [s EXCEPT !.options[side][o].enabled = TRUE]
             said    == SendNegotiate(agreed, Accept(side), o)
  <1>1. /\ Accept(side) \in {"WILL", "WONT", "DO", "DONT"}
        /\ Refuse(side) \in {"WILL", "WONT", "DO", "DONT"}
    BY DEF Accept, Refuse
  <1>2. Advances(s, settled) /\ Advances(s, agreed)
    BY FlagChange
  <1>3. settled \in Server /\ agreed \in Server
    BY <1>2, AdvancesType
  <1>4. \/ Agreed(s, side, o) = SendNegotiate(s, Refuse(side), o)
        \/ Agreed(s, side, o) = settled
        \/ Agreed(s, side, o) = Answered(enabled, side, o)
        \/ Agreed(s, side, o) = Answered(said, side, o)
    <2> HIDE DEF settled, enabled, said
    <2>1. CASE o \notin Supports(side)
      BY <2>1 DEF Agreed
    <2>2. CASE o \in Supports(side) /\ s.options[side][o].negotiating
      <3>1. Agreed(s, side, o) = IF settled.options[side][o].enabled
                                 THEN settled ELSE Answered(enabled, side, o)
        BY <2>2 DEF Agreed, settled, enabled
      <3> QED BY <3>1
    <2>3. CASE o \in Supports(side) /\ ~s.options[side][o].negotiating
      BY <2>3 DEF Agreed, said
    <2> QED BY <2>1, <2>2, <2>3
  <1> HIDE DEF settled, agreed
  <1>5. Advances(settled, enabled)
    BY <1>3, FlagChange
  <1>6. Advances(agreed, said)
    BY <1>1, <1>3, SendAdvances
  <1> HIDE DEF enabled, said
  <1>7. Advances(s, enabled) /\ Advances(s, said)
    BY <1>2, <1>5, <1>6, AdvancesTransitive
  <1>8. enabled \in Server /\ said \in Server
    BY <1>7, AdvancesType
  <1>9. /\ Advances(s, Answered(enabled, side, o))
        /\ Advances(s, Answered(said, side, o))
    BY <1>7, <1>8, AnsweredAdvances, AdvancesTransitive
  <1>10. Advances(s, SendNegotiate(s, Refuse(side), o))
    BY <1>1, SendAdvances
  <1> QED BY <1>2, <1>4, <1>9, <1>10

LEMMA DeclinedAdvances ==
  ASSUME NEW s \in Server, NEW side \in Side, NEW o \in Options
  PROVE  Advances(s, Declined(s, side, o))
  <1> DEFINE t == [s EXCEPT !.options[side][o].negotiating = FALSE]
  <1>1. Advances(s, t)
    BY FlagChange
  <1>2. Declined(s, side, o) \in {s, Answered(t, side, o)}
    BY DEF Declined
  <1> HIDE DEF t
  <1>3. Advances(t, Answered(t, side, o))
    BY <1>1, AdvancesType, AnsweredAdvances
  <1> QED BY <1>1, <1>2, <1>3, AdvancesReflexive, AdvancesTransitive

(* Handling a negotiation, with either of the two, advances the connection.*)
LEMMA ReceivingAdvances ==
  ASSUME NEW s \in Server, NEW command \in {"WILL", "WONT", "DO", "DONT"},
         NEW o \in Options
  PROVE  Advances(s, OnReceiveNegotiation(s, command, o))
  <1>1. Advances(s, ReceiveNegotiate(s, command, o))
    <2>1. "local" \in Side /\ "remote" \in Side
      BY DEF Side
    <2>2. CASE command = "WILL"
      BY <2>1, <2>2, AgreedAdvances DEF ReceiveNegotiate
    <2>3. CASE command = "DO"
      BY <2>1, <2>3, AgreedAdvances DEF ReceiveNegotiate
    <2>4. CASE command = "WONT"
      BY <2>1, <2>4, DeclinedAdvances DEF ReceiveNegotiate
    <2>5. CASE command = "DONT"
      BY <2>1, <2>5, DeclinedAdvances DEF ReceiveNegotiate
    <2> QED BY <2>2, <2>3, <2>4, <2>5
  <1> QED BY <1>1, NegotiateAdvances DEF OnReceiveNegotiation

(* What start() makes of the connection.                                   *)
LEMMA OpeningIsSequence ==
  ASSUME NEW opening \in OpeningOrders
  PROVE  opening \in Seq(Message)
  <1> DEFINE openings == {"WILL"} \X StartWill \cup {"DO"} \X StartDo
  <1>1. IsFiniteSet(StartWill) /\ IsFiniteSet(StartDo)
    BY OptionAssumption, FS_Subset
  <1>2. IsFiniteSet({"WILL"}) /\ IsFiniteSet({"DO"})
    BY FS_Singleton
  <1>3. IsFiniteSet(openings)
    BY <1>1, <1>2, FS_Product, FS_Union
  <1>4. Cardinality(openings) \in Nat
    BY <1>3, FS_CardinalityType
  <1>5. openings \subseteq Message
    BY OptionAssumption DEF Message
  <1>6. opening \in [1 .. Cardinality(openings) -> openings]
    BY DEF OpeningOrders, SetToSeqs
  <1> HIDE DEF openings
  <1>7. opening \in [1 .. Cardinality(openings) -> Message]
    BY <1>5, <1>6
  <1> QED BY <1>4, <1>7, SeqDef

LEMMA OnConnectKeepsType ==
  ASSUME NEW s \in Server, NEW opening \in OpeningOrders
  PROVE  /\ OnConnect(s, opening) \in Server
         /\ OnConnect(s, opening).started = s.started
         /\ OnConnect(s, opening).readies = s.readies
  <1> DEFINE opts == [side \in Side |-> [o \in Options |->
                        [s.options[side][o] EXCEPT
                           !.negotiating = @ \/ o \in Opens(side)]]]
             queued == s.toClient \o opening
  <1>1. ASSUME NEW side \in Side, NEW o \in Options
        PROVE  [s.options[side][o] EXCEPT
                  !.negotiating = @ \/ o \in Opens(side)] \in Perspective
    <2>1. s.options[side][o] \in Perspective
      BY ServerFields
    <2> QED BY <2>1 DEF Perspective
  <1>2. opts \in [Side -> [Options -> Perspective]]
    BY <1>1
  <1>3. queued \in Seq(Message)
    BY ServerFields, OpeningIsSequence, ConcatProperties
  <1>4. OnConnect(s, opening) = [s EXCEPT !.options = opts, !.toClient = queued]
    BY DEF OnConnect
  <1> HIDE DEF opts, queued
  <1> QED BY <1>2, <1>3, <1>4 DEF Server

LEMMA RegisteredIsTyped == Registered \in [Holders -> SUBSET Options]
  BY OptionAssumption DEF Registered, Holders, Side

-----------------------------------------------------------------------------
LEMMA InitInvariant == Init => IInv
  <1> SUFFICES ASSUME Init PROVE IInv
    OBVIOUS
  <1>1. << >> \in Seq(Message)
    BY EmptySeq
  <1>2. server \in Server
    BY <1>1 DEF Init, Server, Perspective
  <1>3. ~server.started /\ server.readies = 0 /\ timer = "unset"
    BY DEF Init
  <1>4. toServer = << >> /\ client = [does |-> {}, asks |-> {}] /\ changes = 0
        /\ dispatch \in Dispatches
    BY DEF Init
  <1>5. TypeOK
    BY <1>1, <1>2, <1>3, <1>4, OptionAssumption DEF TypeOK
  <1> QED BY <1>3, <1>5 DEF IInv, ToldOnce, ReadyAfterHandshakes

(* What handling a message keeps of the invariant.                         *)
LEMMA AdvanceKeeps ==
  ASSUME IInv, timer # "unset", timer' = timer, Advances(server, server')
  PROVE  server' \in Server /\ ToldOnce' /\ ReadyAfterHandshakes'
  <1>1. server \in Server /\ server' \in Server
    BY DEF IInv, TypeOK, Advances
  <1>2. DOMAIN server.holders = Holders /\ DOMAIN server'.holders = Holders
        /\ server.started \in BOOLEAN /\ server'.started \in BOOLEAN
        /\ server.readies \in Nat
    BY <1>1, ServerFields
  <1>3. ToldOnce'
    BY <1>2 DEF IInv, ToldOnce, Advances
  <1>4. ReadyAfterHandshakes'
    <2> SUFFICES ASSUME server'.started, timer # "fired", NEW h \in Holders
                 PROVE  server'.holders[h] = {}
      BY <1>2 DEF ReadyAfterHandshakes
    <2>1. CASE server'.started = server.started
      <3>1. server.holders[h] = {}
        BY <1>2, <2>1 DEF IInv, ReadyAfterHandshakes
      <3> QED BY <3>1 DEF Advances
    <2>2. CASE NoHandshakes(server')
      BY <2>2 DEF NoHandshakes
    <2> QED BY <2>1, <2>2 DEF Advances
  <1> QED BY <1>1, <1>3, <1>4

LEMMA StartInvariant == IInv /\ Start => IInv'
  <1> SUFFICES ASSUME IInv, Start PROVE IInv'
    OBVIOUS
  <1> DEFINE registered == [server EXCEPT !.holders = Registered]
  <1>1. /\ timer = "unset" /\ timer' = "pending" /\ dispatch' = dispatch
        /\ toServer' = toServer /\ client' = client /\ changes' = changes
    BY DEF Start
  <1>2. /\ registered \in Server /\ registered.started = server.started
        /\ registered.readies = server.readies
    BY RegisteredIsTyped DEF IInv, TypeOK, Server, Holders
  <1>3. PICK opening \in OpeningOrders :
          server' = OnConnect(registered, opening)
    BY DEF Start
  <1> HIDE DEF registered
  <1>4. /\ server' \in Server /\ server'.started = server.started
        /\ server'.readies = server.readies
    BY <1>2, <1>3, OnConnectKeepsType
  <1>5. ~server.started
    BY <1>1 DEF IInv, ToldOnce
  <1>6. TypeOK'
    BY <1>1, <1>4 DEF IInv, TypeOK
  <1> QED BY <1>1, <1>4, <1>5, <1>6 DEF IInv, ToldOnce, ReadyAfterHandshakes

LEMMA TimerInvariant == IInv /\ TimerFires => IInv'
  <1> SUFFICES ASSUME IInv, TimerFires PROVE IInv'
    OBVIOUS
  <1>1. /\ timer = "pending" /\ timer' = "fired" /\ dispatch' = dispatch
        /\ toServer' = toServer /\ client' = client /\ changes' = changes
        /\ server' = FinishReady(server)
    BY DEF TimerFires
  <1>2. /\ server' \in Server /\ server'.started
        /\ server'.readies = IF server.started THEN server.readies
                                               ELSE server.readies + 1
    BY <1>1, FinishReadyKeepsType DEF IInv, TypeOK
  <1>3. TypeOK'
    BY <1>1, <1>2 DEF IInv, TypeOK
  <1>4. ToldOnce'
    BY <1>1, <1>2 DEF IInv, ToldOnce
  <1> QED BY <1>1, <1>3, <1>4 DEF IInv, ReadyAfterHandshakes

(* The server handles the next negotiation.                                *)
LEMMA ReceiveAdvances ==
  ASSUME TypeOK, ServerReceives
  PROVE  /\ Advances(server, server')
         /\ toServer' \in Seq(Message)
  <1>1. Head(toServer) \in Message /\ Tail(toServer) \in Seq(Message)
    BY HeadTailProperties DEF TypeOK, ServerReceives
  <1>2. /\ Head(toServer)[1] \in {"WILL", "WONT", "DO", "DONT"}
        /\ Head(toServer)[2] \in Options
    BY <1>1 DEF Message
  <1> QED BY <1>1, <1>2, ReceivingAdvances DEF ServerReceives, TypeOK

LEMMA ServerInvariant == IInv /\ ServerReceives => IInv'
  <1> SUFFICES ASSUME IInv, ServerReceives PROVE IInv'
    OBVIOUS
  <1>1. /\ timer # "unset" /\ timer' = timer /\ dispatch' = dispatch
        /\ client' = client /\ changes' = changes
    BY DEF ServerReceives
  <1>2. Advances(server, server') /\ toServer' \in Seq(Message)
    BY ReceiveAdvances DEF IInv
  <1>3. server' \in Server /\ ToldOnce' /\ ReadyAfterHandshakes'
    BY <1>1, <1>2, AdvanceKeeps
  <1>4. TypeOK'
    BY <1>1, <1>2, <1>3 DEF IInv, TypeOK
  <1> QED BY <1>3, <1>4 DEF IInv

(* The client's steps: it reads, or changes its mind.                      *)
ClientSets == [does : SUBSET Options, asks : SUBSET Options]

LEMMA SaysIsTyped ==
  ASSUME TypeOK, NEW command \in {"WILL", "WONT", "DO", "DONT"},
         NEW o \in Options, Says(command, o)
  PROVE  toServer' \in Seq(Message)
  <1>1. <<command, o>> \in Message
    BY DEF Message
  <1> QED BY <1>1, AppendProperties DEF TypeOK, Says

LEMMA ClientMoves ==
  ASSUME TypeOK, NEW o \in Options
  PROVE  /\ [client EXCEPT !.does = @ \cup {o}] \in ClientSets
         /\ [client EXCEPT !.does = @ \ {o}] \in ClientSets
         /\ [client EXCEPT !.asks = @ \cup {o}] \in ClientSets
         /\ [client EXCEPT !.asks = @ \ {o}] \in ClientSets
  BY DEF TypeOK, ClientSets

LEMMA ReadsOnly ==
  ASSUME TypeOK, NEW command, NEW o, Reads(command, o)
  PROVE  /\ server' \in Server /\ server'.holders = server.holders
         /\ server'.started = server.started
         /\ server'.readies = server.readies
  <1>1. Tail(server.toClient) \in Seq(Message)
    BY ServerFields, HeadTailProperties DEF TypeOK, Reads
  <1> QED BY <1>1 DEF TypeOK, Reads, Server

LEMMA ClientReadsIsTyped ==
  ASSUME TypeOK, ClientReads
  PROVE  /\ server' \in Server /\ server'.holders = server.holders
         /\ server'.started = server.started
         /\ server'.readies = server.readies
         /\ client' \in ClientSets /\ toServer' \in Seq(Message)
         /\ dispatch' = dispatch /\ timer' = timer /\ changes' = changes
  <1>1. PICK o \in Options :
          \/ ClientReadsDo(o) \/ ClientReadsDont(o)
          \/ ClientReadsWill(o) \/ ClientReadsWont(o)
    BY DEF ClientReads
  <1>2. PICK command : Reads(command, o)
    BY <1>1 DEF ClientReadsDo, ClientReadsDont, ClientReadsWill,
       ClientReadsWont
  <1>3. \/ toServer' = toServer
        \/ \E answer \in {"WILL", "WONT", "DO", "DONT"} : Says(answer, o)
    BY <1>1 DEF ClientReadsDo, ClientReadsDont, ClientReadsWill,
       ClientReadsWont, InMode
  <1>4. \/ client' = client
        \/ client' = [client EXCEPT !.does = @ \cup {o}]
        \/ client' = [client EXCEPT !.does = @ \ {o}]
        \/ client' = [client EXCEPT !.asks = @ \cup {o}]
        \/ client' = [client EXCEPT !.asks = @ \ {o}]
    BY <1>1 DEF ClientReadsDo, ClientReadsDont, ClientReadsWill,
       ClientReadsWont, InMode
  <1>5. client \in ClientSets /\ toServer \in Seq(Message)
    BY DEF TypeOK, ClientSets
  <1>6. client' \in ClientSets
    BY <1>4, <1>5, ClientMoves
  <1>7. toServer' \in Seq(Message)
    BY <1>3, <1>5, SaysIsTyped
  <1> QED BY <1>2, <1>6, <1>7, ReadsOnly DEF Reads

LEMMA ClientChangesIsTyped ==
  ASSUME TypeOK, NEW o \in Options, ClientChanges(o)
  PROVE  /\ server' = server /\ timer' = timer /\ timer # "unset"
         /\ dispatch' = dispatch /\ changes' \in 0 .. MaxChanges
         /\ client' \in ClientSets /\ toServer' \in Seq(Message)
  <1>1. \E command \in {"WILL", "WONT", "DO", "DONT"} : Says(command, o)
    BY DEF ClientChanges
  <1>2. \/ client' = [client EXCEPT !.does = @ \cup {o}]
        \/ client' = [client EXCEPT !.does = @ \ {o}]
        \/ client' = [client EXCEPT !.asks = @ \cup {o}]
        \/ client' = [client EXCEPT !.asks = @ \ {o}]
    BY DEF ClientChanges
  <1>3. changes' \in 0 .. MaxChanges
    BY OptionAssumption DEF ClientChanges, TypeOK
  <1>4. client' \in ClientSets
    BY <1>2, ClientMoves
  <1>5. toServer' \in Seq(Message)
    BY <1>1, SaysIsTyped
  <1> QED BY <1>3, <1>4, <1>5 DEF ClientChanges

LEMMA ClientInvariant ==
  IInv /\ (ClientReads \/ \E o \in Options : ClientChanges(o)) => IInv'
  <1>1. ASSUME IInv, ClientReads PROVE IInv'
    <2>1. /\ server' \in Server /\ server'.holders = server.holders
          /\ server'.started = server.started
          /\ server'.readies = server.readies
          /\ client' \in ClientSets /\ toServer' \in Seq(Message)
          /\ dispatch' = dispatch /\ timer' = timer /\ changes' = changes
      BY <1>1, ClientReadsIsTyped DEF IInv
    <2>2. ToldOnce' /\ ReadyAfterHandshakes'
      BY <1>1, <2>1 DEF IInv, ToldOnce, ReadyAfterHandshakes
    <2>3. TypeOK'
      BY <1>1, <2>1 DEF IInv, TypeOK, ClientSets
    <2> QED BY <2>2, <2>3 DEF IInv
  <1>2. ASSUME IInv, NEW o \in Options, ClientChanges(o) PROVE IInv'
    <2>1. /\ server' = server /\ timer' = timer /\ timer # "unset"
          /\ dispatch' = dispatch /\ changes' \in 0 .. MaxChanges
          /\ client' \in ClientSets /\ toServer' \in Seq(Message)
      BY <1>2, ClientChangesIsTyped DEF IInv
    <2>2. TypeOK'
      BY <1>2, <2>1 DEF IInv, TypeOK, ClientSets
    <2> QED BY <1>2, <2>1, <2>2 DEF IInv, ToldOnce, ReadyAfterHandshakes
  <1> QED BY <1>1, <1>2

LEMMA StepInvariant == IInv /\ [Next]_vars => IInv'
  <1>1. IInv /\ UNCHANGED vars => IInv'
    BY DEF vars, IInv, TypeOK, ToldOnce, ReadyAfterHandshakes
  <1> QED BY <1>1, StartInvariant, TimerInvariant, ServerInvariant,
          ClientInvariant DEF Next

THEOREM Invariance == Spec => []IInv
  BY InitInvariant, StepInvariant, PTL DEF Spec

(* Every variable of the negotiation keeps its type.                       *)
THEOREM TypeCorrect == Spec => []TypeOK
  <1>1. IInv => TypeOK
    BY DEF IInv
  <1> QED BY <1>1, Invariance, PTL

(* Only the timer makes a connection ready that waits for an answer.       *)
THEOREM NotReadyTooEarly == Spec => []ReadyAfterHandshakes
  <1>1. IInv => ReadyAfterHandshakes
    BY DEF IInv
  <1> QED BY <1>1, Invariance, PTL

-----------------------------------------------------------------------------
(* The negotiation as Readiness sees it.                                   *)

Where ==
  CASE timer = "unset" -> "new"
    [] timer # "unset" /\ server.started -> "ready"
    [] OTHER -> "waiting"

LEMMA Stutter ==
  ASSUME Where' = Where, server'.readies = server.readies
  PROVE  UNCHANGED Promised!vars
  BY DEF Promised!vars, Where

LEMMA SetsUp ==
  ASSUME Where = "new", Where' = "waiting", server'.readies = server.readies
  PROVE  Promised!SetUp(1)
  BY DEF Promised!SetUp, Where

LEMMA HandsOver ==
  ASSUME Where = "waiting", Where' = "ready",
         server'.readies = server.readies + 1
  PROVE  Promised!HandOver(1)
  <1>1. [c \in {1} |-> Where]' = [[c \in {1} |-> Where] EXCEPT ![1] = "ready"]
    OBVIOUS
  <1>2. [c \in {1} |-> server.readies]'
          = [[c \in {1} |-> server.readies] EXCEPT ![1] = server.readies + 1]
    OBVIOUS
  <1>3. [c \in {1} |-> server.readies][1] = server.readies
    OBVIOUS
  <1> QED BY <1>1, <1>2, <1>3 DEF Promised!HandOver, Where

(* A step that leaves the connection as ready as it was, or makes it ready *)
(* and tells the program.                                                  *)
LEMMA ServingStep ==
  ASSUME timer # "unset", timer' # "unset",
         \/ server'.started = server.started /\ server'.readies = server.readies
         \/ /\ ~server.started /\ server'.started
            /\ server'.readies = server.readies + 1
  PROVE  Promised!Next \/ UNCHANGED Promised!vars
  <1>1. CASE server'.started = server.started /\ server'.readies = server.readies
    <2>1. Where' = Where
      BY <1>1 DEF Where
    <2> QED BY <1>1, <2>1, Stutter
  <1>2. CASE /\ ~server.started /\ server'.started
             /\ server'.readies = server.readies + 1
    <2>1. Where = "waiting" /\ Where' = "ready"
      BY <1>2 DEF Where
    <2> QED BY <1>2, <2>1, HandsOver DEF Promised!Next
  <1> QED BY <1>1, <1>2

LEMMA StepOfReadiness ==
  ASSUME IInv, [Next]_vars
  PROVE  [Promised!Next]_Promised!vars
  <1>1. server \in Server /\ TypeOK
    BY DEF IInv, TypeOK
  <1>2. CASE Start
    <2> DEFINE registered == [server EXCEPT !.holders = Registered]
    <2>1. /\ registered \in Server /\ registered.started = server.started
          /\ registered.readies = server.readies
      BY <1>1, RegisteredIsTyped DEF Server, Holders
    <2>2. PICK opening \in OpeningOrders :
            server' = OnConnect(registered, opening)
      BY <1>2 DEF Start
    <2> HIDE DEF registered
    <2>3. server'.started = server.started /\ server'.readies = server.readies
      BY <2>1, <2>2, OnConnectKeepsType
    <2>4. timer = "unset" /\ timer' = "pending" /\ ~server.started
      BY <1>2 DEF Start, IInv, ToldOnce
    <2>5. Where = "new" /\ Where' = "waiting"
      BY <2>3, <2>4 DEF Where
    <2> QED BY <2>3, <2>5, SetsUp DEF Promised!Next
  <1>3. CASE TimerFires
    <2>1. timer # "unset" /\ timer' # "unset" /\ server' = FinishReady(server)
      BY <1>3 DEF TimerFires
    <2>2. \/ server'.started = server.started /\ server'.readies = server.readies
          \/ /\ ~server.started /\ server'.started
             /\ server'.readies = server.readies + 1
      BY <1>1, <2>1, FinishReadyKeepsType, ServerFields
    <2> QED BY <2>1, <2>2, ServingStep
  <1>4. CASE ServerReceives
    <2>1. timer # "unset" /\ timer' # "unset"
      BY <1>4 DEF ServerReceives
    <2>2. Advances(server, server')
      BY <1>1, <1>4, ReceiveAdvances
    <2> QED BY <2>1, <2>2, ServingStep DEF Advances
  <1>5. CASE ClientReads
    <2>1. /\ timer' = timer /\ server'.started = server.started
          /\ server'.readies = server.readies
      BY <1>1, <1>5, ClientReadsIsTyped
    <2>2. Where' = Where
      BY <2>1 DEF Where
    <2> QED BY <2>1, <2>2, Stutter
  <1>6. CASE UNCHANGED vars \/ \E o \in Options : ClientChanges(o)
    <2>1. timer' = timer /\ server' = server
      BY <1>6 DEF ClientChanges, vars
    <2>2. Where' = Where
      BY <2>1 DEF Where
    <2> QED BY <2>1, <2>2, Stutter
  <1> QED BY <1>2, <1>3, <1>4, <1>5, <1>6 DEF Next

(* Whether the timer or the last handshake comes first, the connection is  *)
(* handed over once: every step is one that Readiness allows.              *)
THEOREM HandedOverAsPromised ==
  Spec => Promised!Init /\ [][Promised!Next]_Promised!vars
  <1>1. Init => Promised!Init
    BY DEF Init, Promised!Init
  <1>2. IInv /\ [Next]_vars => [Promised!Next]_Promised!vars
    BY StepOfReadiness
  <1> QED BY <1>1, <1>2, Invariance, PTL DEF Spec

-----------------------------------------------------------------------------
(* No agreement is missed.  What the client does, or relies on, is enabled,*)
(* or the request that will enable it or the refusal that will end it is   *)
(* on its way.                                                             *)

Holds(q, m) == \E i \in DOMAIN q : q[i] = m

Wants(side) == IF side = "remote" THEN client.does ELSE client.asks
Ask(side)   == IF side = "remote" THEN "WILL" ELSE "DO"

InHand(side, o) ==
  \/ server.options[side][o].enabled
  \/ Holds(toServer, <<Ask(side), o>>)
  \/ Holds(server.toClient, <<Refuse(side), o>>)

UnderWay ==
  dispatch = "receiveNegotiate" =>
    \A side \in Side : \A o \in Wants(side) : InHand(side, o)

(* No operator of the server disables an option or takes back a message.   *)
Keeps(s, t) ==
  /\ \A side \in Side, o \in Options :
       s.options[side][o].enabled => t.options[side][o].enabled
  /\ \A m \in Message : Holds(s.toClient, m) => Holds(t.toClient, m)

LEMMA HoldsAppend ==
  ASSUME NEW S, NEW q \in Seq(S), NEW m \in S
  PROVE  /\ Holds(Append(q, m), m)
         /\ \A n : Holds(q, n) => Holds(Append(q, m), n)
  <1>1. Len(q) \in Nat /\ DOMAIN q = 1 .. Len(q)
    BY LenProperties
  <1>2. /\ DOMAIN Append(q, m) = 1 .. Len(q) + 1
        /\ \A i \in 1 .. Len(q) : Append(q, m)[i] = q[i]
        /\ Append(q, m)[Len(q) + 1] = m
    BY <1>1, AppendProperties, LenProperties
  <1>3. /\ Len(q) + 1 \in 1 .. Len(q) + 1
        /\ \A i \in 1 .. Len(q) : i \in 1 .. Len(q) + 1
    BY <1>1
  <1> QED BY <1>1, <1>2, <1>3 DEF Holds

LEMMA HoldsTail ==
  ASSUME NEW S, NEW q \in Seq(S), q # << >>, NEW m, Holds(q, m), Head(q) # m
  PROVE  Holds(Tail(q), m)
  <1>1. Len(q) \in Nat /\ DOMAIN q = 1 .. Len(q)
    BY LenProperties
  <1>2. /\ Head(q) = q[1] /\ Tail(q) \in Seq(S) /\ Len(Tail(q)) = Len(q) - 1
        /\ \A i \in 1 .. Len(Tail(q)) : Tail(q)[i] = q[i + 1]
    BY HeadTailProperties
  <1>3. PICK i \in 1 .. Len(q) : q[i] = m
    BY <1>1 DEF Holds
  <1>4. i # 1
    BY <1>2, <1>3
  <1>5. i - 1 \in 1 .. Len(Tail(q)) /\ (i - 1) + 1 = i
    BY <1>1, <1>2, <1>3, <1>4
  <1>6. Tail(q)[i - 1] = m
    BY <1>2, <1>3, <1>5
  <1>7. DOMAIN Tail(q) = 1 .. Len(Tail(q))
    BY <1>2, LenProperties
  <1> QED BY <1>5, <1>6, <1>7 DEF Holds

LEMMA HoldsConcat ==
  ASSUME NEW S, NEW p \in Seq(S), NEW q \in Seq(S), NEW m, Holds(p, m)
  PROVE  Holds(p \o q, m)
  <1> DEFINE c == p \o q
  <1>1. /\ Len(p) \in Nat /\ DOMAIN p = 1 .. Len(p) /\ Len(q) \in Nat
    BY LenProperties
  <1>2. /\ c \in Seq(S) /\ Len(c) = Len(p) + Len(q)
        /\ \A i \in 1 .. Len(p) + Len(q) :
             c[i] = IF i <= Len(p) THEN p[i] ELSE q[i - Len(p)]
    BY ConcatProperties
  <1> HIDE DEF c
  <1>3. DOMAIN c = 1 .. Len(p) + Len(q)
    BY <1>2, LenProperties
  <1>4. PICK i \in 1 .. Len(p) : p[i] = m
    BY <1>1 DEF Holds
  <1>5. i \in 1 .. Len(p) + Len(q) /\ i <= Len(p)
    BY <1>1
  <1>6. c[i] = m
    BY <1>2, <1>4, <1>5
  <1>7. Holds(c, m)
    BY <1>3, <1>5, <1>6 DEF Holds
  <1> QED BY <1>7 DEF c

LEMMA KeepsTransitive ==
  ASSUME NEW s, NEW t, NEW u, Keeps(s, t), Keeps(t, u)
  PROVE  Keeps(s, u)
  BY DEF Keeps

LEMMA KeepsSame ==
  ASSUME NEW s, NEW t, t.options = s.options, t.toClient = s.toClient
  PROVE  Keeps(s, t)
  BY DEF Keeps

LEMMA FlagKeeps ==
  ASSUME NEW s \in Server, NEW side \in Side, NEW o \in Options
  PROVE  /\ Keeps(s, [s EXCEPT !.options[side][o].enabled = TRUE])
         /\ Keeps(s, [s EXCEPT !.options[side][o].negotiating = FALSE])
         /\ Keeps(s, [s EXCEPT !.options[side][o].answered = TRUE])
         /\ [s EXCEPT !.options[side][o].enabled = TRUE]
              .options[side][o].enabled
  <1>1. ASSUME NEW p \in Perspective, s.options[side][o].enabled => p.enabled
        PROVE  /\ Keeps(s, [s EXCEPT !.options[side][o] = p])
               /\ [s EXCEPT !.options[side][o] = p].options[side][o] = p
    <2> DEFINE opts == [s.options EXCEPT ![side][o] = p]
               t == [s EXCEPT !.options[side][o] = p]
    <2>1. t.options = opts /\ t.toClient = s.toClient
      BY DEF Server
    <2>2. \A sd \in Side, x \in Options :
            opts[sd][x] = IF sd = side /\ x = o THEN p ELSE s.options[sd][x]
      BY ServerFields
    <2> HIDE DEF opts, t
    <2>3. Keeps(s, t)
      BY <1>1, <2>1, <2>2 DEF Keeps
    <2>4. t.options[side][o] = p
      BY <2>1, <2>2
    <2> QED BY <2>3, <2>4 DEF t
  <1> DEFINE q == s.options[side][o]
  <1>2. q \in Perspective
    BY ServerFields
  <1>3. /\ [q EXCEPT !.enabled = TRUE] \in Perspective
        /\ [q EXCEPT !.negotiating = FALSE] \in Perspective
        /\ [q EXCEPT !.answered = TRUE] \in Perspective
        /\ [q EXCEPT !.enabled = TRUE].enabled
        /\ [q EXCEPT !.negotiating = FALSE].enabled = q.enabled
        /\ [q EXCEPT !.answered = TRUE].enabled = q.enabled
    BY <1>2 DEF Perspective
  <1> QED BY <1>1, <1>3

LEMMA SendKeeps ==
  ASSUME NEW s \in Server, NEW command \in {"WILL", "WONT", "DO", "DONT"},
         NEW o \in Options
  PROVE  /\ Keeps(s, SendNegotiate(s, command, o))
         /\ Holds(SendNegotiate(s, command, o).toClient, <<command, o>>)
         /\ SendNegotiate(s, command, o).options = s.options
  <1> DEFINE t == SendNegotiate(s, command, o)
  <1>1. s.toClient \in Seq(Message) /\ <<command, o>> \in Message
    BY ServerFields DEF Message
  <1>2. t.toClient = Append(s.toClient, <<command, o>>) /\ t.options = s.options
    BY DEF SendNegotiate, Server
  <1> DEFINE said == <<command, o>>
  <1> HIDE DEF t, said
  <1>3. /\ Holds(t.toClient, said)
        /\ \A m : Holds(s.toClient, m) => Holds(t.toClient, m)
    <2>1. s.toClient \in Seq(Message) /\ said \in Message
      BY <1>1 DEF said
    <2>2. /\ Holds(Append(s.toClient, said), said)
          /\ \A m : Holds(s.toClient, m) => Holds(Append(s.toClient, said), m)
      BY ONLY <2>1, HoldsAppend
    <2>3. t.toClient = Append(s.toClient, said)
      BY <1>2 DEF said
    <2> QED BY <2>2, <2>3
  <1>4. Keeps(s, t)
    BY <1>2, <1>3 DEF Keeps
  <1> QED BY <1>2, <1>3, <1>4 DEF t, said

LEMMA AnsweredKeeps ==
  ASSUME NEW s \in Server, NEW side \in Side, NEW o \in Options
  PROVE  Keeps(s, Answered(s, side, o))
  <1> DEFINE t == [s EXCEPT !.options[side][o].answered = TRUE]
             u == [t EXCEPT !.holders[side] = @ \ {o}]
  <1>1. Keeps(s, t) /\ t \in Server
    BY FlagKeeps, FlagChange, AdvancesType
  <1> HIDE DEF t
  <1>2. u.options = t.options /\ u.toClient = t.toClient
    BY <1>1 DEF Server
  <1>3. u \in Server
    <2>1. [t.holders EXCEPT ![side] = @ \ {o}] \in [Holders -> SUBSET Options]
      BY <1>1, ServerFields DEF Holders
    <2> QED BY <1>1, <2>1 DEF Server, Holders
  <1> HIDE DEF u
  <1>4. /\ FinishReady(u).options = u.options
        /\ FinishReady(u).toClient = u.toClient
    BY <1>3 DEF FinishReady, Server
  <1>5. CheckReady(u) \in {u, FinishReady(u)}
    BY DEF CheckReady
  <1>6. ProcessHandshake(t, side, o) \in {u, CheckReady(u)}
    BY DEF ProcessHandshake, u
  <1>7. Keeps(t, ProcessHandshake(t, side, o))
    BY <1>2, <1>4, <1>5, <1>6, KeepsSame
  <1>8. Answered(s, side, o) \in {s, ProcessHandshake(t, side, o)}
    BY DEF Answered, t
  <1>9. Keeps(s, s)
    BY KeepsSame
  <1> QED BY <1>1, <1>7, <1>8, <1>9, KeepsTransitive

(* A request enables the option or is refused.                             *)
LEMMA AgreedKeeps ==
  ASSUME NEW s \in Server, NEW side \in Side, NEW o \in Options
  PROVE  /\ Keeps(s, Agreed(s, side, o))
         /\ \/ Agreed(s, side, o).options[side][o].enabled
            \/ Holds(Agreed(s, side, o).toClient, <<Refuse(side), o>>)
  <1> DEFINE settled == [s EXCEPT !.options[side][o].negotiating = FALSE]
             enabled == [settled EXCEPT !.options[side][o].enabled = TRUE]
             agreed  == [s EXCEPT !.options[side][o].enabled = TRUE]
             said    == SendNegotiate(agreed, Accept(side), o)
             result  == Agreed(s, side, o)
  <1>1. /\ Accept(side) \in {"WILL", "WONT", "DO", "DONT"}
        /\ Refuse(side) \in {"WILL", "WONT", "DO", "DONT"}
    BY DEF Accept, Refuse
  <1>2. /\ Keeps(s, settled) /\ Keeps(s, agreed)
        /\ settled \in Server /\ agreed \in Server
        /\ agreed.options[side][o].enabled
    BY FlagKeeps, FlagChange, AdvancesType
  <1>3. CASE o \notin Supports(side)
    <2>1. result = SendNegotiate(s, Refuse(side), o)
      BY <1>3 DEF Agreed
    <2> HIDE DEF result
    <2>2. Keeps(s, result) /\ Holds(result.toClient, <<Refuse(side), o>>)
      BY <1>1, <2>1, SendKeeps
    <2> QED BY <2>2 DEF result
  <1>4. CASE o \in Supports(side) /\ s.options[side][o].negotiating
    <2>1. result = IF settled.options[side][o].enabled
                   THEN settled ELSE Answered(enabled, side, o)
      BY <1>4 DEF Agreed
    <2> HIDE DEF settled, result
    <2>2. /\ Keeps(settled, enabled) /\ enabled \in Server
          /\ enabled.options[side][o].enabled
      BY <1>2, FlagKeeps, FlagChange, AdvancesType
    <2> HIDE DEF enabled
    <2>3. Keeps(enabled, Answered(enabled, side, o))
      BY <2>2, AnsweredKeeps
    <2>4. Answered(enabled, side, o).options[side][o].enabled
      BY <2>2, <2>3 DEF Keeps
    <2>5. Keeps(s, Answered(enabled, side, o))
      BY <1>2, <2>2, <2>3, KeepsTransitive
    <2>6. Keeps(s, result) /\ result.options[side][o].enabled
      BY <1>2, <2>1, <2>4, <2>5
    <2> QED BY <2>6 DEF result
  <1>5. CASE o \in Supports(side) /\ ~s.options[side][o].negotiating
    <2>1. result = Answered(said, side, o)
      BY <1>5 DEF Agreed
    <2> HIDE DEF agreed, result
    <2>2. /\ Keeps(agreed, said) /\ said.options = agreed.options
          /\ said \in Server
      BY <1>1, <1>2, SendKeeps, SendAdvances, AdvancesType
    <2> HIDE DEF said
    <2>3. Keeps(said, Answered(said, side, o))
      BY <2>2, AnsweredKeeps
    <2>4. Answered(said, side, o).options[side][o].enabled
      BY <1>2, <2>2, <2>3 DEF Keeps
    <2>5. Keeps(s, Answered(said, side, o))
      BY <1>2, <2>2, <2>3, KeepsTransitive
    <2>6. Keeps(s, result) /\ result.options[side][o].enabled
      BY <2>1, <2>4, <2>5
    <2> QED BY <2>6 DEF result
  <1> QED BY <1>3, <1>4, <1>5

LEMMA DeclinedKeeps ==
  ASSUME NEW s \in Server, NEW side \in Side, NEW o \in Options
  PROVE  Keeps(s, Declined(s, side, o))
  <1> DEFINE t == [s EXCEPT !.options[side][o].negotiating = FALSE]
  <1>1. Keeps(s, t) /\ t \in Server
    BY FlagKeeps, FlagChange, AdvancesType
  <1>2. Declined(s, side, o) \in {s, Answered(t, side, o)}
    BY DEF Declined
  <1> HIDE DEF t
  <1>3. Keeps(s, s)
    BY KeepsSame
  <1> QED BY <1>1, <1>2, <1>3, AnsweredKeeps, KeepsTransitive

(* receiveNegotiate keeps what was agreed and deals with what is asked.    *)
LEMMA ReceiveKeeps ==
  ASSUME NEW s \in Server, NEW command \in {"WILL", "WONT", "DO", "DONT"},
         NEW o \in Options
  PROVE  /\ Keeps(s, ReceiveNegotiate(s, command, o))
         /\ \A side \in Side : command = Ask(side) =>
              \/ ReceiveNegotiate(s, command, o).options[side][o].enabled
              \/ Holds(ReceiveNegotiate(s, command, o).toClient,
                       <<Refuse(side), o>>)
  <1>1. "local" \in Side /\ "remote" \in Side
    BY DEF Side
  <1>2. CASE command = "WILL"
    <2>1. ReceiveNegotiate(s, command, o) = Agreed(s, "remote", o)
      BY <1>2 DEF ReceiveNegotiate
    <2>2. \A side \in Side : command = Ask(side) => side = "remote"
      BY <1>2 DEF Ask
    <2> QED BY <1>1, <2>1, <2>2, AgreedKeeps
  <1>3. CASE command = "DO"
    <2>1. ReceiveNegotiate(s, command, o) = Agreed(s, "local", o)
      BY <1>3 DEF ReceiveNegotiate
    <2>2. \A side \in Side : command = Ask(side) => side = "local"
      BY <1>3 DEF Ask, Side
    <2> QED BY <1>1, <2>1, <2>2, AgreedKeeps
  <1>4. CASE command \in {"WONT", "DONT"}
    <2>1. ReceiveNegotiate(s, command, o)
            \in {Declined(s, "remote", o), Declined(s, "local", o)}
      BY <1>4 DEF ReceiveNegotiate
    <2>2. \A side \in Side : command # Ask(side)
      BY <1>4 DEF Ask
    <2> QED BY <1>1, <2>1, <2>2, DeclinedKeeps
  <1> QED BY <1>2, <1>3, <1>4

-----------------------------------------------------------------------------
(* The steps.                                                              *)

LEMMA WantsTyped ==
  ASSUME TypeOK
  PROVE  \A side \in Side : Wants(side) \subseteq Options
  BY DEF TypeOK, Wants

LEMMA MessagesTyped ==
  ASSUME NEW side \in Side, NEW o \in Options
  PROVE  <<Ask(side), o>> \in Message /\ <<Refuse(side), o>> \in Message
  BY DEF Ask, Refuse, Message

(* What the server does while the client does nothing.                     *)
LEMMA ServerKeepsUnderWay ==
  ASSUME TypeOK, UnderWay, Keeps(server, server'),
         UNCHANGED <<client, toServer, dispatch>>
  PROVE  UnderWay'
  <1> SUFFICES ASSUME dispatch = "receiveNegotiate",
                      NEW side \in Side, NEW o \in Wants(side)
               PROVE  InHand(side, o)'
    BY DEF UnderWay, Wants
  <1>1. o \in Options /\ InHand(side, o)
    BY WantsTyped DEF UnderWay
  <1> QED BY <1>1, MessagesTyped DEF Keeps, InHand

LEMMA StartUnderWay == TypeOK /\ UnderWay /\ Start => UnderWay'
  <1> SUFFICES ASSUME TypeOK, UnderWay, Start PROVE UnderWay'
    OBVIOUS
  <1> DEFINE registered == [server EXCEPT !.holders = Registered]
  <1>1. /\ registered \in Server /\ registered.options = server.options
        /\ registered.toClient = server.toClient
    BY RegisteredIsTyped DEF TypeOK, Server, Holders
  <1>2. PICK opening \in OpeningOrders :
          server' = OnConnect(registered, opening)
    BY DEF Start
  <1> HIDE DEF registered
  <1>3. \A side \in Side, o \in Options :
          server'.options[side][o].enabled
            = registered.options[side][o].enabled
    <2> SUFFICES ASSUME NEW side \in Side, NEW o \in Options
                 PROVE  server'.options[side][o].enabled
                          = registered.options[side][o].enabled
      OBVIOUS
    <2> DEFINE opts == [sd \in Side |-> [x \in Options |->
                         [registered.options[sd][x] EXCEPT
                            !.negotiating = @ \/ x \in Opens(sd)]]]
    <2>1. server'.options = opts
      BY <1>1, <1>2 DEF OnConnect, Server
    <2>2. opts[side][o] = [registered.options[side][o] EXCEPT
                            !.negotiating = @ \/ o \in Opens(side)]
      OBVIOUS
    <2> HIDE DEF opts
    <2>3. registered.options[side][o] \in Perspective
      BY <1>1, ServerFields
    <2> QED BY <2>1, <2>2, <2>3 DEF Perspective
  <1>4. server'.toClient = registered.toClient \o opening
    BY <1>1, <1>2 DEF OnConnect, Server
  <1>5. \A m \in Message :
          Holds(registered.toClient, m) => Holds(server'.toClient, m)
    BY <1>1, <1>4, ServerFields, OpeningIsSequence, HoldsConcat
  <1>6. Keeps(server, server')
    BY <1>1, <1>3, <1>5 DEF Keeps
  <1> QED BY <1>6, ServerKeepsUnderWay DEF Start

LEMMA TimerUnderWay == TypeOK /\ UnderWay /\ TimerFires => UnderWay'
  <1> SUFFICES ASSUME TypeOK, UnderWay, TimerFires PROVE UnderWay'
    OBVIOUS
  <1>1. /\ server'.options = server.options
        /\ server'.toClient = server.toClient
    BY DEF TimerFires, FinishReady, TypeOK, Server
  <1> QED BY <1>1, KeepsSame, ServerKeepsUnderWay DEF TimerFires

LEMMA ReceiveUnderWay == TypeOK /\ UnderWay /\ ServerReceives => UnderWay'
  <1> SUFFICES ASSUME TypeOK, UnderWay, ServerReceives,
                      dispatch = "receiveNegotiate",
                      NEW side \in Side, NEW o \in Wants(side)
               PROVE  InHand(side, o)'
    BY DEF UnderWay, Wants, ServerReceives
  <1> DEFINE command == Head(toServer)[1]
             x       == Head(toServer)[2]
  <1>1. /\ toServer \in Seq(Message) /\ toServer # << >>
        /\ toServer' = Tail(toServer) /\ server \in Server
        /\ Head(toServer) \in Message
    BY HeadTailProperties DEF TypeOK, ServerReceives
  <1>2. /\ command \in {"WILL", "WONT", "DO", "DONT"} /\ x \in Options
        /\ Head(toServer) = <<command, x>>
    BY <1>1 DEF Message
  <1>3. server' = ReceiveNegotiate(server, command, x)
    BY DEF ServerReceives, OnReceiveNegotiation
  <1> HIDE DEF command, x
  <1>4. /\ Keeps(server, server')
        /\ command = Ask(side) => \/ server'.options[side][x].enabled
                                  \/ Holds(server'.toClient, <<Refuse(side), x>>)
    BY <1>1, <1>2, <1>3, ReceiveKeeps
  <1>5. o \in Options /\ InHand(side, o)
    BY WantsTyped DEF UnderWay
  <1>6. CASE command = Ask(side) /\ x = o
    BY <1>4, <1>6 DEF InHand
  <1>7. CASE ~(command = Ask(side) /\ x = o)
    <2>1. Head(toServer) # <<Ask(side), o>>
      BY <1>2, <1>7
    <2>2. Holds(toServer, <<Ask(side), o>>) => Holds(toServer', <<Ask(side), o>>)
      BY <1>1, <2>1, HoldsTail
    <2> QED BY <1>4, <1>5, <2>2, MessagesTyped DEF Keeps, InHand
  <1> QED BY <1>6, <1>7

(* What is said is under way; nothing else is taken back.                  *)
LEMMA SaysHolds ==
  ASSUME TypeOK, NEW command \in {"WILL", "WONT", "DO", "DONT"},
         NEW o \in Options, Says(command, o)
  PROVE  /\ Holds(toServer', <<command, o>>)
         /\ \A m : Holds(toServer, m) => Holds(toServer', m)
  <1> DEFINE said == <<command, o>>
  <1>1. said \in Message /\ toServer \in Seq(Message)
        /\ toServer' = Append(toServer, said)
    BY DEF Message, TypeOK, Says
  <1> HIDE DEF said
  <1>2. Holds(toServer', said) /\ \A m : Holds(toServer, m) => Holds(toServer', m)
    BY ONLY <1>1, HoldsAppend
  <1> QED BY <1>2 DEF said

(* The client's side of a step: what it comes to want it asks for.         *)
LEMMA ClientAsks ==
  ASSUME TypeOK, NEW x \in Options,
         \/ ClientReadsDo(x) \/ ClientReadsDont(x)
         \/ ClientReadsWill(x) \/ ClientReadsWont(x) \/ ClientChanges(x)
  PROVE  /\ \A m : Holds(toServer, m) => Holds(toServer', m)
         /\ \A side \in Side : \A o \in Wants(side)' :
              \/ o \in Wants(side)
              \/ Holds(toServer', <<Ask(side), o>>)
  <1>1. /\ \A m : Holds(toServer, m) => Holds(toServer', m)
    <2>1. \/ toServer' = toServer
          \/ \E command \in {"WILL", "WONT", "DO", "DONT"} : Says(command, x)
      BY DEF ClientReadsDo, ClientReadsDont, ClientReadsWill, ClientReadsWont,
         ClientChanges, InMode
    <2> QED BY <2>1, SaysHolds
  <1>2. /\ \/ client'.does \subseteq client.does
           \/ client'.does = client.does \cup {x} /\ Says("WILL", x)
        /\ \/ client'.asks \subseteq client.asks
           \/ client'.asks = client.asks \cup {x} /\ Says("DO", x)
    <2>1. \/ client' = client
          \/ client' = [client EXCEPT !.does = @ \cup {x}] /\ Says("WILL", x)
          \/ client' = [client EXCEPT !.does = @ \ {x}]
          \/ client' = [client EXCEPT !.asks = @ \cup {x}] /\ Says("DO", x)
          \/ client' = [client EXCEPT !.asks = @ \ {x}]
      BY Zenon DEF ClientReadsDo, ClientReadsDont, ClientReadsWill,
         ClientReadsWont, ClientChanges, InMode
    <2> QED BY <2>1 DEF TypeOK
  <1>3. /\ Says("WILL", x) => Holds(toServer', <<"WILL", x>>)
        /\ Says("DO", x) => Holds(toServer', <<"DO", x>>)
    BY SaysHolds
  <1>4. \A o \in client'.does : o \in client.does \/ Holds(toServer', <<"WILL", o>>)
    BY <1>2, <1>3
  <1>5. \A o \in client'.asks : o \in client.asks \/ Holds(toServer', <<"DO", o>>)
    BY <1>2, <1>3
  <1> QED BY <1>1, <1>4, <1>5 DEF Wants, Ask, Side

LEMMA ChangesUnderWay ==
  ASSUME TypeOK, UnderWay, NEW x \in Options, ClientChanges(x)
  PROVE  UnderWay'
  <1> SUFFICES ASSUME dispatch = "receiveNegotiate",
                      NEW side \in Side, NEW o \in Wants(side)'
               PROVE  InHand(side, o)'
    BY DEF UnderWay, ClientChanges
  <1>1. server' = server
    BY DEF ClientChanges
  <1> QED BY <1>1, ClientAsks DEF UnderWay, InHand

LEMMA ReadsUnderWay == TypeOK /\ UnderWay /\ ClientReads => UnderWay'
  <1> SUFFICES ASSUME TypeOK, UnderWay, ClientReads,
                      dispatch = "receiveNegotiate",
                      NEW side \in Side, NEW o \in Wants(side)'
               PROVE  InHand(side, o)'
    BY DEF UnderWay, ClientReads, ClientReadsDo, ClientReadsDont,
       ClientReadsWill, ClientReadsWont, Reads
  <1>1. PICK x \in Options :
          \/ ClientReadsDo(x) \/ ClientReadsDont(x)
          \/ ClientReadsWill(x) \/ ClientReadsWont(x)
    BY DEF ClientReads
  <1>2. PICK command :
          /\ Reads(command, x)
          /\ command = "DONT" => x \notin client'.does
          /\ command = "WONT" => x \notin client'.asks
    BY <1>1 DEF ClientReadsDo, ClientReadsDont, ClientReadsWill,
       ClientReadsWont, InMode, TypeOK
  <1>3. /\ server.toClient \in Seq(Message) /\ server.toClient # << >>
        /\ Head(server.toClient) = <<command, x>>
        /\ server'.toClient = Tail(server.toClient)
        /\ server'.options = server.options
    BY <1>2, ServerFields DEF Reads, TypeOK, Server
  <1>4. <<command, x>> # <<Refuse(side), o>>
    <2>1. command = Refuse(side) => x \notin Wants(side)'
      BY <1>2 DEF Refuse, Wants, Side
    <2> QED BY <2>1
  <1>5. Holds(server.toClient, <<Refuse(side), o>>)
          => Holds(server'.toClient, <<Refuse(side), o>>)
    BY <1>3, <1>4, HoldsTail
  <1>6. o \in Wants(side) \/ Holds(toServer', <<Ask(side), o>>)
    BY <1>1, ClientAsks
  <1>7. \A m : Holds(toServer, m) => Holds(toServer', m)
    BY <1>1, ClientAsks
  <1>8. CASE o \in Wants(side)
    <2>1. InHand(side, o)
      BY <1>8 DEF UnderWay
    <2> QED BY <1>3, <1>5, <1>7, <2>1 DEF InHand
  <1> QED BY <1>6, <1>8 DEF InHand

(* When nothing is under way, an option that the client does, or relies on *)
(* the server to do, is enabled, for any options, whoever opened the       *)
(* negotiation, however messages crossed and often the client changed.     *)
THEOREM NoAgreementMissed == Spec => []AgreementKept
  <1>1. Init => UnderWay
    BY DEF Init, UnderWay, Wants
  <1>2. TypeOK /\ UnderWay /\ [Next]_vars => UnderWay'
    <2>1. TypeOK /\ UnderWay /\ UNCHANGED vars => UnderWay'
      BY DEF vars, UnderWay, Wants, InHand
    <2> QED BY <2>1, StartUnderWay, TimerUnderWay, ReceiveUnderWay,
            ReadsUnderWay, ChangesUnderWay DEF Next
  <1>3. TypeOK /\ UnderWay => AgreementKept
    <2> SUFFICES ASSUME TypeOK, UnderWay, dispatch = "receiveNegotiate", Quiet,
                        NEW side \in Side, NEW o \in Wants(side)
                 PROVE  server.options[side][o].enabled
      BY DEF AgreementKept, Wants, Side
    <2>1. \A m : ~Holds(<< >>, m)
      BY EmptySeq DEF Holds
    <2>2. toServer = << >> /\ server.toClient = << >>
      BY DEF Quiet
    <2> QED BY <2>1, <2>2 DEF UnderWay, InHand
  <1> QED BY <1>1, <1>2, <1>3, TypeCorrect, PTL DEF Spec

-----------------------------------------------------------------------------
(* A client that has answered everything needs no timer.  An option that   *)
(* waits in a holder and was opened in the direction it waits for has its  *)
(* request on the way to the client, which is not in that mode and will    *)
(* have to reply, or has a reply on its way back.                          *)

Deny(side) == IF side = "remote" THEN "WONT" ELSE "DONT"

Unanswered(side, o) ==
  /\ o \in Supports(side)
  /\ server.options[side][o].negotiating
  /\ ~server.options[side][o].enabled /\ ~server.options[side][o].answered
  /\ \/ Holds(toServer, <<Ask(side), o>>)
     \/ Holds(toServer, <<Deny(side), o>>)
     \/ Holds(server.toClient, <<Accept(side), o>>) /\ o \notin Wants(side)

Waiting ==
  \A side \in Side : \A o \in server.holders[side] \cap Opens(side) :
    Unanswered(side, o)

(* Nothing has been said of any option before start().                     *)
Untouched ==
  /\ NoHandshakes(server) /\ server.toClient = << >>
  /\ \A side \in Side :
       /\ Wants(side) = {}
       /\ \A o \in Options : /\ ~server.options[side][o].enabled
                             /\ ~server.options[side][o].answered

(* The last handshake that is settled makes the connection ready.          *)
LastMakesReady ==
  /\ timer # "unset" /\ NoHandshakes(server)
  /\ \E h \in Side : Registered[h] # {}
  => server.started

AnswersInv ==
  dispatch = "receiveNegotiate" =>
    /\ timer = "unset" => Untouched
    /\ server.holders["special"] = {}
    /\ Waiting
    /\ LastMakesReady

(* What handling a negotiation of o on one side does to the others, and to *)
(* the connection: it becomes ready if its last handshake is settled.      *)
Settling(s, t, side, o) ==
  /\ \A sd \in Side, x \in Options :
       sd # side \/ x # o => t.options[sd][x] = s.options[sd][x]
  /\ s.started => t.started
  /\ NoHandshakes(t) => NoHandshakes(s) \/ t.started

LEMMA SettlingTransitive ==
  ASSUME NEW s, NEW t, NEW u, NEW side, NEW o,
         Settling(s, t, side, o), Settling(t, u, side, o)
  PROVE  Settling(s, u, side, o)
  BY DEF Settling

LEMMA FlagSettling ==
  ASSUME NEW s \in Server, NEW side \in Side, NEW o \in Options
  PROVE  /\ Settling(s, [s EXCEPT !.options[side][o].enabled = TRUE], side, o)
         /\ Settling(s, [s EXCEPT !.options[side][o].negotiating = FALSE], side, o)
         /\ Settling(s, [s EXCEPT !.options[side][o].answered = TRUE], side, o)
         /\ [s EXCEPT !.options[side][o].enabled = TRUE].options[side][o].answered
              = s.options[side][o].answered
         /\ [s EXCEPT !.options[side][o].negotiating = FALSE].options[side][o]
              = [s.options[side][o] EXCEPT !.negotiating = FALSE]
  <1>1. ASSUME NEW p \in Perspective
        PROVE  /\ Settling(s, [s EXCEPT !.options[side][o] = p], side, o)
               /\ [s EXCEPT !.options[side][o] = p].options[side][o] = p
    <2> DEFINE opts == [s.options EXCEPT ![side][o] = p]
               t == [s EXCEPT !.options[side][o] = p]
    <2>1. t.options = opts /\ t.started = s.started /\ t.holders = s.holders
      BY DEF Server
    <2>2. \A sd \in Side, x \in Options :
            opts[sd][x] = IF sd = side /\ x = o THEN p ELSE s.options[sd][x]
      BY ServerFields
    <2> HIDE DEF opts, t
    <2>3. Settling(s, t, side, o)
      BY <2>1, <2>2 DEF Settling, NoHandshakes
    <2>4. t.options[side][o] = p
      BY <2>1, <2>2
    <2> QED BY <2>3, <2>4 DEF t
  <1> DEFINE q == s.options[side][o]
  <1>2. q \in Perspective
    BY ServerFields
  <1>3. /\ [q EXCEPT !.enabled = TRUE] \in Perspective
        /\ [q EXCEPT !.negotiating = FALSE] \in Perspective
        /\ [q EXCEPT !.answered = TRUE] \in Perspective
        /\ [q EXCEPT !.enabled = TRUE].answered = q.answered
    BY <1>2 DEF Perspective
  <1> QED BY <1>1, <1>3

LEMMA SendSettling ==
  ASSUME NEW s \in Server, NEW command, NEW side, NEW o
  PROVE  Settling(s, SendNegotiate(s, command, o), side, o)
  <1>1. /\ SendNegotiate(s, command, o).options = s.options
        /\ SendNegotiate(s, command, o).started = s.started
        /\ SendNegotiate(s, command, o).holders = s.holders
    BY DEF SendNegotiate, Server
  <1> QED BY <1>1 DEF Settling, NoHandshakes

(* The first answer is taken out of the holder of its side.                *)
LEMMA AnsweredSettling ==
  ASSUME NEW s \in Server, NEW side \in Side, NEW o \in Options
  PROVE  /\ Settling(s, Answered(s, side, o), side, o)
         /\ ~s.options[side][o].answered
              => o \notin Answered(s, side, o).holders[side]
  <1> DEFINE t == [s EXCEPT !.options[side][o].answered = TRUE]
             u == [t EXCEPT !.holders[side] = @ \ {o}]
  <1>1. Settling(s, t, side, o) /\ t \in Server
    BY FlagSettling, FlagChange, AdvancesType
  <1> HIDE DEF t
  <1>2. t.holders \in [Holders -> SUBSET Options] /\ side \in Holders
    BY <1>1, ServerFields DEF Holders
  <1>3. /\ u.options = t.options /\ u.started = t.started
        /\ u.holders = [t.holders EXCEPT ![side] = @ \ {o}]
        /\ u \in Server
    <2>1. [t.holders EXCEPT ![side] = @ \ {o}] \in [Holders -> SUBSET Options]
      BY <1>2
    <2> QED BY <1>1, <2>1 DEF Server, Holders
  <1>4. ProcessHandshake(t, side, o)
          = IF u.holders[side] = {} THEN CheckReady(u) ELSE u
    BY DEF ProcessHandshake
  <1> HIDE DEF u
  <1>5. o \notin u.holders[side]
    BY <1>2, <1>3
  <1>6. DOMAIN u.holders = Holders
    BY <1>3, ServerFields
  <1>7. /\ FinishReady(u).options = u.options /\ FinishReady(u).started
        /\ FinishReady(u).holders = u.holders
    BY <1>3 DEF FinishReady, Server
  <1>8. /\ CheckReady(u).options = u.options /\ CheckReady(u).holders = u.holders
        /\ u.started => CheckReady(u).started
        /\ NoHandshakes(u) => CheckReady(u).started
    BY <1>6, <1>7 DEF CheckReady, NoHandshakes
  <1> DEFINE v == ProcessHandshake(t, side, o)
  <1>9. /\ v.options = t.options /\ v.holders = u.holders
        /\ t.started => v.started
        /\ NoHandshakes(u) => v.started
    <2>1. NoHandshakes(u) => u.holders[side] = {}
      BY <1>2 DEF NoHandshakes
    <2> QED BY <1>3, <1>4, <1>8, <2>1
  <1>10. Answered(s, side, o) = IF s.options[side][o].answered THEN s ELSE v
    BY DEF Answered, t
  <1> HIDE DEF v
  <1>11. Settling(t, v, side, o)
    BY <1>9 DEF Settling, NoHandshakes
  <1>12. Settling(s, s, side, o)
    BY DEF Settling
  <1> QED BY <1>1, <1>5, <1>9, <1>10, <1>11, <1>12, SettlingTransitive

(* A request settles the handshake that waited for it ...                  *)
LEMMA AgreedSettling ==
  ASSUME NEW s \in Server, NEW side \in Side, NEW o \in Options
  PROVE  /\ Settling(s, Agreed(s, side, o), side, o)
         /\ /\ o \in Supports(side) /\ s.options[side][o].negotiating
            /\ ~s.options[side][o].enabled /\ ~s.options[side][o].answered
            => o \notin Agreed(s, side, o).holders[side]
  <1> DEFINE settled == [s EXCEPT !.options[side][o].negotiating = FALSE]
             enabled == [settled EXCEPT !.options[side][o].enabled = TRUE]
             agreed  == [s EXCEPT !.options[side][o].enabled = TRUE]
             said    == SendNegotiate(agreed, Accept(side), o)
             result  == Agreed(s, side, o)
  <1>1. /\ Settling(s, settled, side, o) /\ settled \in Server
        /\ Settling(s, agreed, side, o) /\ agreed \in Server
        /\ s.options[side][o] \in Perspective
        /\ settled.options[side][o].enabled = s.options[side][o].enabled
        /\ settled.options[side][o].answered = s.options[side][o].answered
    <2>1. s.options[side][o] \in Perspective
      BY ServerFields
    <2> DEFINE p == [s.options[side][o] EXCEPT !.negotiating = FALSE]
    <2>2. /\ p.enabled = s.options[side][o].enabled
          /\ p.answered = s.options[side][o].answered
      BY <2>1 DEF Perspective
    <2>3. settled.options[side][o] = p
      BY FlagSettling
    <2>4. /\ Settling(s, settled, side, o) /\ settled \in Server
          /\ Settling(s, agreed, side, o) /\ agreed \in Server
      BY FlagSettling, FlagChange, AdvancesType
    <2> HIDE DEF settled, agreed, p
    <2> QED BY <2>1, <2>2, <2>3, <2>4
  <1>2. CASE o \notin Supports(side)
    <2>1. result = SendNegotiate(s, Refuse(side), o)
      BY <1>2 DEF Agreed
    <2> QED BY <1>2, <2>1, SendSettling
  <1>3. CASE o \in Supports(side) /\ s.options[side][o].negotiating
    <2>1. result = IF settled.options[side][o].enabled
                   THEN settled ELSE Answered(enabled, side, o)
      BY <1>3 DEF Agreed
    <2> HIDE DEF settled, result
    <2>2. /\ Settling(settled, enabled, side, o) /\ enabled \in Server
          /\ enabled.options[side][o].answered
               = settled.options[side][o].answered
      BY <1>1, FlagSettling, FlagChange, AdvancesType
    <2> HIDE DEF enabled
    <2>3. /\ Settling(enabled, Answered(enabled, side, o), side, o)
          /\ ~s.options[side][o].answered
               => o \notin Answered(enabled, side, o).holders[side]
      BY <1>1, <2>2, AnsweredSettling
    <2>4. Settling(s, Answered(enabled, side, o), side, o)
      BY <1>1, <2>2, <2>3, SettlingTransitive
    <2>5. /\ Settling(s, result, side, o)
          /\ ~s.options[side][o].enabled /\ ~s.options[side][o].answered
             => o \notin result.holders[side]
      BY <1>1, <2>1, <2>3, <2>4
    <2> QED BY <2>5 DEF result
  <1>4. CASE o \in Supports(side) /\ ~s.options[side][o].negotiating
    <2>1. result = Answered(said, side, o)
      BY <1>4 DEF Agreed
    <2> HIDE DEF agreed, result
    <2>2. Settling(agreed, said, side, o) /\ said \in Server
      <3>1. Accept(side) \in {"WILL", "WONT", "DO", "DONT"}
        BY DEF Accept
      <3> QED BY <1>1, <3>1, SendSettling, SendAdvances, AdvancesType
    <2> HIDE DEF said
    <2>3. Settling(said, Answered(said, side, o), side, o)
      BY <2>2, AnsweredSettling
    <2>4. Settling(s, Answered(said, side, o), side, o)
      BY <1>1, <2>2, <2>3, SettlingTransitive
    <2> QED BY <1>4, <2>1, <2>4 DEF result
  <1> QED BY <1>2, <1>3, <1>4

(* ... and so does a refusal.                                              *)
LEMMA DeclinedSettling ==
  ASSUME NEW s \in Server, NEW side \in Side, NEW o \in Options
  PROVE  /\ Settling(s, Declined(s, side, o), side, o)
         /\ s.options[side][o].negotiating /\ ~s.options[side][o].answered
            => o \notin Declined(s, side, o).holders[side]
  <1> DEFINE t == [s EXCEPT !.options[side][o].negotiating = FALSE]
  <1>1. s.options[side][o] \in Perspective
    BY ServerFields
  <1>2. [s.options[side][o] EXCEPT !.negotiating = FALSE].answered
          = s.options[side][o].answered
    BY <1>1 DEF Perspective
  <1>3. t.options[side][o] = [s.options[side][o] EXCEPT !.negotiating = FALSE]
    BY FlagSettling
  <1>4. Settling(s, t, side, o) /\ t \in Server
    BY FlagSettling, FlagChange, AdvancesType
  <1>5. Declined(s, side, o) = IF s.options[side][o].negotiating
                               THEN Answered(t, side, o) ELSE s
    BY DEF Declined
  <1> HIDE DEF t
  <1>6. /\ Settling(t, Answered(t, side, o), side, o)
        /\ ~s.options[side][o].answered
             => o \notin Answered(t, side, o).holders[side]
    BY <1>2, <1>3, <1>4, AnsweredSettling
  <1>7. Settling(s, s, side, o)
    BY DEF Settling
  <1> QED BY <1>4, <1>5, <1>6, <1>7, SettlingTransitive

(* receiveNegotiate, of a message that is of one side or of the other.     *)
LEMMA ReceiveSettling ==
  ASSUME NEW s \in Server, NEW side \in Side, NEW o \in Options,
         NEW command \in {Ask(side), Deny(side)}
  PROVE  /\ Settling(s, ReceiveNegotiate(s, command, o), side, o)
         /\ /\ o \in Supports(side) /\ s.options[side][o].negotiating
            /\ ~s.options[side][o].enabled /\ ~s.options[side][o].answered
            => o \notin ReceiveNegotiate(s, command, o).holders[side]
  <1>1. \/ command = Ask(side)
           /\ ReceiveNegotiate(s, command, o) = Agreed(s, side, o)
        \/ command = Deny(side)
           /\ ReceiveNegotiate(s, command, o) = Declined(s, side, o)
    BY DEF ReceiveNegotiate, Ask, Deny, Side
  <1> QED BY <1>1, AgreedSettling, DeclinedSettling

-----------------------------------------------------------------------------
LEMMA RepliesTyped ==
  ASSUME NEW side \in Side, NEW o \in Options
  PROVE  /\ <<Ask(side), o>> \in Message /\ <<Deny(side), o>> \in Message
         /\ <<Accept(side), o>> \in Message
  BY DEF Ask, Deny, Accept, Message

LEMMA HoldersTyped ==
  ASSUME TypeOK
  PROVE  \A side \in Side : server.holders[side] \subseteq Options
  BY ServerFields DEF TypeOK, Holders

(* start() opens what it waits for.                                        *)
LEMMA OpeningHolds ==
  ASSUME NEW opening \in OpeningOrders, NEW side \in Side,
         NEW o \in Opens(side)
  PROVE  Holds(opening, <<Accept(side), o>>)
  <1> DEFINE openings == {"WILL"} \X StartWill \cup {"DO"} \X StartDo
             said == <<Accept(side), o>>
  <1>1. IsFiniteSet(openings)
    <2>1. IsFiniteSet(StartWill) /\ IsFiniteSet(StartDo)
      BY OptionAssumption, FS_Subset
    <2>2. IsFiniteSet({"WILL"}) /\ IsFiniteSet({"DO"})
      BY FS_Singleton
    <2> QED BY <2>1, <2>2, FS_Product, FS_Union
  <1>2. said \in openings
    BY DEF Opens, Accept, Side
  <1> DEFINE D == 1 .. Cardinality(openings)
  <1>3. opening \in [D -> openings] /\ \A i, j \in D : i # j => opening[i] # opening[j]
    BY DEF OpeningOrders, SetToSeqs
  <1>4. IsFiniteSet(D) /\ Cardinality(D) = Cardinality(openings)
    BY <1>1, FS_CardinalityType, FS_Interval
  <1> HIDE DEF openings, said, D
  <1>5. opening \in Injection(D, openings)
    BY <1>3 DEF Injection, IsInjective
  <1>6. opening \in Surjection(D, openings)
    BY <1>1, <1>4, <1>5, FS_Injection
  <1>7. \E i \in D : opening[i] = said
    BY <1>2, <1>6 DEF Surjection
  <1>8. Holds(opening, said)
    BY <1>3, <1>7 DEF Holds
  <1> QED BY <1>8 DEF said

LEMMA HoldsConcatRight ==
  ASSUME NEW S, NEW p \in Seq(S), NEW q \in Seq(S), NEW m, Holds(q, m)
  PROVE  Holds(p \o q, m)
  <1> DEFINE c == p \o q
  <1>1. Len(p) \in Nat /\ Len(q) \in Nat /\ DOMAIN q = 1 .. Len(q)
    BY LenProperties
  <1>2. /\ c \in Seq(S) /\ Len(c) = Len(p) + Len(q)
        /\ \A i \in 1 .. Len(p) + Len(q) :
             c[i] = IF i <= Len(p) THEN p[i] ELSE q[i - Len(p)]
    BY ConcatProperties
  <1> HIDE DEF c
  <1>3. DOMAIN c = 1 .. Len(p) + Len(q)
    BY <1>2, LenProperties
  <1>4. PICK i \in 1 .. Len(q) : q[i] = m
    BY <1>1 DEF Holds
  <1>5. /\ Len(p) + i \in 1 .. Len(p) + Len(q) /\ ~(Len(p) + i <= Len(p))
        /\ (Len(p) + i) - Len(p) = i
    BY <1>1
  <1>6. c[Len(p) + i] = m
    BY <1>2, <1>4, <1>5
  <1>7. Holds(c, m)
    BY <1>3, <1>5, <1>6 DEF Holds
  <1> QED BY <1>7 DEF c

LEMMA InitAnswers == Init => AnswersInv
  <1> SUFFICES ASSUME Init PROVE AnswersInv
    OBVIOUS
  <1>1. /\ NoHandshakes(server) /\ timer = "unset"
        /\ server.holders["special"] = {}
    BY DEF Init, NoHandshakes, Holders
  <1>2. Untouched
    BY <1>1 DEF Init, Untouched, Wants
  <1>3. Waiting
    BY <1>1 DEF NoHandshakes, Waiting, Holders
  <1> QED BY <1>1, <1>2, <1>3 DEF AnswersInv, LastMakesReady

LEMMA StartAnswers ==
  ASSUME TypeOK, AnswersInv, Start
  PROVE  AnswersInv'
  <1> SUFFICES ASSUME dispatch = "receiveNegotiate" PROVE AnswersInv'
    BY DEF AnswersInv, Start
  <1> DEFINE registered == [server EXCEPT !.holders = Registered]
  <1>1. timer = "unset" /\ timer' = "pending" /\ UNCHANGED <<toServer, client>>
    BY DEF Start
  <1>2. Untouched
    BY <1>1 DEF AnswersInv
  <1>3. /\ registered \in Server /\ registered.options = server.options
        /\ registered.toClient = server.toClient
        /\ registered.holders = Registered
    BY RegisteredIsTyped DEF TypeOK, Server, Holders
  <1>4. PICK opening \in OpeningOrders :
          server' = OnConnect(registered, opening)
    BY DEF Start
  <1> HIDE DEF registered
  <1>5. /\ server'.holders = Registered
        /\ server'.toClient = server.toClient \o opening
    BY <1>3, <1>4 DEF OnConnect, Server
  <1>6. \A side \in Side : \A o \in Opens(side) :
          /\ server'.options[side][o].negotiating
          /\ ~server'.options[side][o].enabled
          /\ ~server'.options[side][o].answered
    <2> SUFFICES ASSUME NEW side \in Side, NEW o \in Opens(side)
                 PROVE  /\ server'.options[side][o].negotiating
                        /\ ~server'.options[side][o].enabled
                        /\ ~server'.options[side][o].answered
      OBVIOUS
    <2>1. o \in Options
      BY OptionAssumption DEF Opens
    <2> DEFINE opts == [sd \in Side |-> [x \in Options |->
                         [registered.options[sd][x] EXCEPT
                            !.negotiating = @ \/ x \in Opens(sd)]]]
               unsaid == registered.options[side][o]
    <2>2. server'.options = opts
      BY <1>3, <1>4 DEF OnConnect, Server
    <2>3. opts[side][o]
            = [unsaid EXCEPT !.negotiating = @ \/ o \in Opens(side)]
      BY <2>1
    <2> HIDE DEF opts
    <2>4. unsaid \in Perspective
      BY <1>3, <2>1, ServerFields
    <2>5. ~unsaid.enabled /\ ~unsaid.answered
      BY <1>2, <1>3, <2>1 DEF Untouched
    <2> HIDE DEF unsaid
    <2> QED BY <2>2, <2>3, <2>4, <2>5 DEF Perspective
  <1>7. server.toClient \in Seq(Message) /\ opening \in Seq(Message)
    BY ServerFields, OpeningIsSequence DEF TypeOK
  <1>8. ASSUME NEW side \in Side, NEW o \in Registered[side] \cap Opens(side)
        PROVE  Unanswered(side, o)'
    <2>1. o \in Opens(side) /\ o \in Supports(side)
      BY DEF Registered, Supports, Side
    <2>2. Holds(opening, <<Accept(side), o>>)
      BY <2>1, OpeningHolds
    <2>3. Holds(server'.toClient, <<Accept(side), o>>)
      BY <1>5, <1>7, <2>2, HoldsConcatRight
    <2>4. o \notin Wants(side)'
      BY <1>1, <1>2 DEF Untouched, Wants
    <2> QED BY <1>6, <2>1, <2>3, <2>4 DEF Unanswered
  <1>9. Waiting'
    BY <1>5, <1>8 DEF Waiting
  <1>10. server'.holders["special"] = {}
    BY <1>5 DEF Registered, Side
  <1>11. LastMakesReady'
    BY <1>5 DEF LastMakesReady, NoHandshakes, Holders
  <1> QED BY <1>1, <1>9, <1>10, <1>11 DEF AnswersInv

LEMMA TimerAnswers ==
  ASSUME TypeOK, AnswersInv, TimerFires
  PROVE  AnswersInv'
  <1> SUFFICES ASSUME dispatch = "receiveNegotiate" PROVE AnswersInv'
    BY DEF AnswersInv, TimerFires
  <1>1. /\ timer = "pending" /\ timer' = "fired" /\ UNCHANGED <<toServer, client>>
        /\ server'.options = server.options /\ server'.holders = server.holders
        /\ server'.toClient = server.toClient /\ server'.started
    BY DEF TimerFires, FinishReady, TypeOK, Server
  <1>2. Waiting'
    BY <1>1 DEF AnswersInv, Waiting, Unanswered, Wants
  <1> QED BY <1>1, <1>2 DEF AnswersInv, LastMakesReady

(* What the server handles settles its own handshake or leaves the others. *)
LEMMA ReceiveAnswers ==
  ASSUME TypeOK, AnswersInv, ServerReceives
  PROVE  AnswersInv'
  <1> SUFFICES ASSUME dispatch = "receiveNegotiate" PROVE AnswersInv'
    BY DEF AnswersInv, ServerReceives
  <1> DEFINE command == Head(toServer)[1]
             x       == Head(toServer)[2]
  <1>1. /\ toServer \in Seq(Message) /\ toServer # << >>
        /\ toServer' = Tail(toServer) /\ server \in Server
        /\ Head(toServer) \in Message /\ timer # "unset"
        /\ UNCHANGED <<timer, client>>
    BY HeadTailProperties DEF TypeOK, ServerReceives
  <1>2. /\ command \in {"WILL", "WONT", "DO", "DONT"} /\ x \in Options
        /\ Head(toServer) = <<command, x>>
    BY <1>1 DEF Message
  <1>3. server' = ReceiveNegotiate(server, command, x)
    BY DEF ServerReceives, OnReceiveNegotiation
  <1> HIDE DEF command, x
  <1>4. PICK side \in Side : command \in {Ask(side), Deny(side)}
    BY <1>2 DEF Ask, Deny, Side
  <1>5. /\ Settling(server, server', side, x)
        /\ /\ x \in Supports(side) /\ server.options[side][x].negotiating
           /\ ~server.options[side][x].enabled
           /\ ~server.options[side][x].answered
           => x \notin server'.holders[side]
    BY <1>1, <1>2, <1>3, <1>4, ReceiveSettling
  <1>6. Keeps(server, server') /\ Advances(server, server')
    BY <1>1, <1>2, <1>3, ReceiveKeeps, ReceiveAdvances
  <1>7. ASSUME NEW sd \in Side, NEW o \in server'.holders[sd] \cap Opens(sd)
        PROVE  Unanswered(sd, o)'
    <2>1. o \in server.holders[sd] /\ o \in Options
      BY <1>6, HoldersTyped DEF Advances, Holders
    <2>2. Unanswered(sd, o)
      BY <2>1 DEF AnswersInv, Waiting
    <2>3. sd # side \/ o # x
      <3> SUFFICES ASSUME sd = side, o = x PROVE FALSE
        OBVIOUS
      <3>1. /\ x \in Supports(side) /\ server.options[side][x].negotiating
            /\ ~server.options[side][x].enabled
            /\ ~server.options[side][x].answered
        BY <2>2 DEF Unanswered
      <3> QED BY <1>5, <3>1
    <2>4. server'.options[sd][o] = server.options[sd][o]
      BY <1>5, <2>1, <2>3 DEF Settling
    <2>5. Head(toServer) # <<Ask(sd), o>> /\ Head(toServer) # <<Deny(sd), o>>
      <3>1. sd # side => command # Ask(sd) /\ command # Deny(sd)
        BY <1>4 DEF Ask, Deny, Side
      <3> QED BY <1>2, <2>3, <3>1
    <2>6. /\ Holds(toServer, <<Ask(sd), o>>) => Holds(toServer', <<Ask(sd), o>>)
          /\ Holds(toServer, <<Deny(sd), o>>) => Holds(toServer', <<Deny(sd), o>>)
      BY <1>1, <2>5, HoldsTail
    <2>7. Holds(server.toClient, <<Accept(sd), o>>)
            => Holds(server'.toClient, <<Accept(sd), o>>)
      BY <1>6, <2>1, RepliesTyped DEF Keeps
    <2>8. Wants(sd)' = Wants(sd)
      BY <1>1 DEF Wants
    <2> QED BY <2>2, <2>4, <2>6, <2>7, <2>8 DEF Unanswered
  <1>8. server'.holders["special"] = {}
    BY <1>6 DEF AnswersInv, Advances, Holders
  <1>9. LastMakesReady'
    BY <1>1, <1>5 DEF AnswersInv, LastMakesReady, Settling
  <1>10. Waiting'
    BY <1>7 DEF Waiting
  <1> QED BY <1>1, <1>8, <1>9, <1>10 DEF AnswersInv

(* Asked for what it does not do yet, the client replies.                  *)
LEMMA ClientReplies ==
  ASSUME TypeOK, ClientReads, NEW side \in Side, NEW o \in Options,
         Head(server.toClient) = <<Accept(side), o>>, o \notin Wants(side)
  PROVE  \/ Holds(toServer', <<Ask(side), o>>)
         \/ Holds(toServer', <<Deny(side), o>>)
  <1>1. PICK x \in Options :
          \/ ClientReadsDo(x) \/ ClientReadsDont(x)
          \/ ClientReadsWill(x) \/ ClientReadsWont(x)
    BY DEF ClientReads
  <1>2. CASE side = "remote"
    <2>1. /\ Accept(side) = "DO" /\ Ask(side) = "WILL" /\ Deny(side) = "WONT"
          /\ Wants(side) = client.does
      BY <1>2 DEF Accept, Ask, Deny, Wants
    <2>2. ClientReadsDo(o)
      BY <1>1, <2>1 DEF ClientReadsDo, ClientReadsDont, ClientReadsWill,
         ClientReadsWont, Reads
    <2>3. Says("WILL", o) \/ Says("WONT", o)
      BY <2>1, <2>2 DEF ClientReadsDo
    <2> QED BY <2>1, <2>3, SaysHolds
  <1>3. CASE side = "local"
    <2>1. /\ Accept(side) = "WILL" /\ Ask(side) = "DO" /\ Deny(side) = "DONT"
          /\ Wants(side) = client.asks
      BY <1>3 DEF Accept, Ask, Deny, Wants
    <2>2. ClientReadsWill(o)
      BY <1>1, <2>1 DEF ClientReadsDo, ClientReadsDont, ClientReadsWill,
         ClientReadsWont, Reads
    <2>3. Says("DO", o) \/ Says("DONT", o)
      BY <2>1, <2>2 DEF ClientReadsWill
    <2> QED BY <2>1, <2>3, SaysHolds
  <1> QED BY <1>2, <1>3 DEF Side

LEMMA ClientAnswers ==
  ASSUME TypeOK, AnswersInv,
         ClientReads \/ \E x \in Options : ClientChanges(x)
  PROVE  AnswersInv'
  <1>1. /\ UNCHANGED <<dispatch, timer>> /\ server'.options = server.options
        /\ server'.holders = server.holders /\ server'.started = server.started
        /\ \/ ClientReads /\ server.toClient # << >>
              /\ server'.toClient = Tail(server.toClient)
           \/ server'.toClient = server.toClient
    BY DEF ClientReads, ClientReadsDo, ClientReadsDont, ClientReadsWill,
       ClientReadsWont, ClientChanges, Reads, TypeOK, Server
  <1> SUFFICES ASSUME dispatch = "receiveNegotiate" PROVE AnswersInv'
    BY <1>1 DEF AnswersInv
  <1>2. PICK x \in Options :
          \/ ClientReadsDo(x) \/ ClientReadsDont(x)
          \/ ClientReadsWill(x) \/ ClientReadsWont(x) \/ ClientChanges(x)
    BY DEF ClientReads
  <1>3. /\ \A m : Holds(toServer, m) => Holds(toServer', m)
        /\ \A side \in Side : \A o \in Wants(side)' :
             o \in Wants(side) \/ Holds(toServer', <<Ask(side), o>>)
    BY <1>2, ClientAsks
  <1>4. ASSUME NEW side \in Side, NEW o \in server.holders[side] \cap Opens(side)
        PROVE  Unanswered(side, o)'
    <2>1. o \in Options /\ Unanswered(side, o)
      BY HoldersTyped DEF AnswersInv, Waiting
    <2>2. CASE \/ Holds(toServer, <<Ask(side), o>>)
               \/ Holds(toServer, <<Deny(side), o>>)
      BY <1>1, <1>3, <2>1, <2>2 DEF Unanswered
    <2>3. CASE Holds(server.toClient, <<Accept(side), o>>) /\ o \notin Wants(side)
      <3>1. CASE ClientReads /\ Head(server.toClient) = <<Accept(side), o>>
        BY <1>1, <2>1, <2>3, <3>1, ClientReplies DEF Unanswered
      <3>2. CASE ~(ClientReads /\ Head(server.toClient) = <<Accept(side), o>>)
        <4>1. server.toClient \in Seq(Message)
          BY ServerFields DEF TypeOK
        <4>2. Holds(server'.toClient, <<Accept(side), o>>)
          BY <1>1, <2>3, <3>2, <4>1, HoldsTail
        <4>3. o \notin Wants(side)' \/ Holds(toServer', <<Ask(side), o>>)
          BY <1>3, <2>3
        <4> QED BY <1>1, <2>1, <4>2, <4>3 DEF Unanswered
      <3> QED BY <3>1, <3>2
    <2> QED BY <2>1, <2>2, <2>3 DEF Unanswered
  <1>5. Waiting'
    BY <1>1, <1>4 DEF Waiting
  <1>6. LastMakesReady'
    BY <1>1 DEF AnswersInv, LastMakesReady, NoHandshakes
  <1>7. timer # "unset"
    <2>1. CASE ClientReads
      <3>1. server.toClient # << >>
        BY <2>1 DEF ClientReads, ClientReadsDo, ClientReadsDont,
           ClientReadsWill, ClientReadsWont, Reads
      <3> QED BY <3>1 DEF AnswersInv, Untouched
    <2>2. CASE \E y \in Options : ClientChanges(y)
      BY <2>2 DEF ClientChanges
    <2> QED BY <2>1, <2>2
  <1> QED BY <1>1, <1>5, <1>6, <1>7 DEF AnswersInv

(* receiveNegotiate clears what start() opened and waits for: whenever the *)
(* client has answered all that was asked, however messages crossed and    *)
(* often it changed its mind, what is still open was never asked for, and  *)
(* if nothing is, the connection is ready without its timer.               *)
THEOREM AnsweredMeansReady == Spec => []ReadyWhenProcessed
  <1>1. TypeOK /\ AnswersInv /\ [Next]_vars => AnswersInv'
    <2>1. AnswersInv /\ UNCHANGED vars => AnswersInv'
      BY DEF vars, AnswersInv, Untouched, Waiting, Unanswered, LastMakesReady,
         Wants
    <2> QED BY <2>1, StartAnswers, TimerAnswers, ReceiveAnswers, ClientAnswers
            DEF Next
  <1>2. TypeOK /\ AnswersInv => ReadyWhenProcessed
    <2> SUFFICES ASSUME TypeOK, AnswersInv, dispatch = "receiveNegotiate", Quiet
                 PROVE  ReadyWhenProcessed
      BY DEF ReadyWhenProcessed
    <2>1. \A m : ~Holds(toServer, m) /\ ~Holds(server.toClient, m)
      BY EmptySeq DEF Holds, Quiet
    <2>2. \A side \in Side : server.holders[side] \cap Opens(side) = {}
      BY <2>1 DEF AnswersInv, Waiting, Unanswered
    <2>3. DOMAIN server.holders = Holders
      BY ServerFields DEF TypeOK
    <2>4. (\A h \in DOMAIN server.holders : server.holders[h] = {})
            => NoHandshakes(server)
      BY <2>3 DEF NoHandshakes
    <2>5. NoHandshakes(server) /\ (\E h \in Side : Registered[h] # {})
            => server.started
      BY DEF AnswersInv, LastMakesReady, Quiet
    <2> QED BY <2>2, <2>4, <2>5 DEF ReadyWhenProcessed
  <1> QED BY <1>1, <1>2, InitAnswers, TypeCorrect, PTL DEF Spec

=============================================================================
