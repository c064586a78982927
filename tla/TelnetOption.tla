---------------------------- MODULE TelnetOption ----------------------------
(***************************************************************************)
(* The negotiation of telnet options: the registered options of one        *)
(* connection, the holders of the handshakes that must be answered before  *)
(* the connection is ready, the timer that makes it ready all the same,    *)
(* and a client that negotiates as RFC 854 asks.                           *)
(*                                                                         *)
(* An option has two sides.  "local" is the server doing it, negotiated by *)
(* the server's WILL and WONT and the client's DO and DONT; "remote" is    *)
(* the client doing it, the other way round.                               *)
(*                                                                         *)
(* onReceiveNegotiation calls the option's negotiate, which opens a        *)
(* negotiation; receiveNegotiate, which is written to answer one, has no   *)
(* caller.  Both are modelled: which of them a connection hands what it    *)
(* receives to is settled when it begins.  The hooks that are told of a    *)
(* change (enableLocal and its like) are empty in every class and left out.*)
(***************************************************************************)
EXTENDS Naturals, FiniteSets, SequencesExt

CONSTANTS Options,        \* the options registerOption is called for
          StartWill,      \* those whose startWill() is true
          StartDo,        \* those whose startDo() is true
          SupportLocal,   \* those whose supportLocal() is true
          SupportRemote,  \* those whose supportRemote() is true
          Dispatches,     \* what may handle a received negotiation
          MaxChanges      \* bound: changes of mind of the client

ASSUME OptionAssumption ==
  /\ IsFiniteSet(Options)
  /\ StartWill \subseteq Options /\ StartDo \subseteq Options
  /\ SupportLocal \subseteq Options /\ SupportRemote \subseteq Options
  /\ Dispatches \subseteq {"negotiate", "receiveNegotiate"}
  /\ MaxChanges \in Nat

VARIABLES dispatch,  \* what handles a received negotiation here
          server,    \* the connection with its options and holders
          timer,     \* "unset", "pending" or "fired"
          toServer,  \* negotiations the client has sent
          client,    \* [does, asks]: the options the client does, or has
                     \* asked the server to do, as the client sees it
          changes    \* how often the client has changed its mind

vars == <<dispatch, server, timer, toServer, client, changes>>

Side == {"local", "remote"}

Perspective == [enabled : BOOLEAN, negotiating : BOOLEAN, answered : BOOLEAN]

Message == {"WILL", "WONT", "DO", "DONT"} \X Options

Server == [options  : [Side -> [Options -> Perspective]],
           holders  : [Side \cup {"special"} -> SUBSET Options],
           toClient : Seq(Message),
           started  : BOOLEAN,
           readies  : Nat]

TypeOK ==
  /\ dispatch \in Dispatches
  /\ server \in Server
  /\ timer \in {"unset", "pending", "fired"}
  /\ toServer \in Seq(Message)
  /\ client \in [does : SUBSET Options, asks : SUBSET Options]
  /\ changes \in 0 .. MaxChanges

(* The words for each side: what the server agrees with and refuses with. *)
Accept(side) == IF side = "local" THEN "WILL" ELSE "DO"
Refuse(side) == IF side = "local" THEN "WONT" ELSE "DONT"
Supports(side) == IF side = "local" THEN SupportLocal ELSE SupportRemote

-----------------------------------------------------------------------------
(* Readiness.                                                              *)

(* Mutated form of FinishReady: without the test of started.               *)
FinishReadyAgain(s) == [s EXCEPT !.started = TRUE, !.readies = @ + 1]

(* finishReady calls onReady, once.                                        *)
FinishReady(s) ==
  IF s.started THEN s
               ELSE [s EXCEPT !.started = TRUE, !.readies = @ + 1]

(* Mutated form of CheckReady: forgets hs_remote.                          *)
CheckReadyLocal(s) ==
  IF s.holders["local"] = {} /\ s.holders["special"] = {}
  THEN FinishReady(s) ELSE s

(* TelnetMudConnection::checkReady                                         *)
CheckReady(s) ==
  IF ~s.started /\ (\A h \in DOMAIN s.holders : s.holders[h] = {})
  THEN FinishReady(s) ELSE s

(* Mutated form of ProcessHandshake: does not see that it took the last.   *)
ProcessHandshakeSilently(s, side, o) == [s EXCEPT !.holders[side] = @ \ {o}]

(* TelnetHandshakeHolder::processHandshake                                 *)
ProcessHandshake(s, side, o) ==
  LET t == [s EXCEPT !.holders[side] = @ \ {o}]
  IN  IF t.holders[side] = {} THEN CheckReady(t) ELSE t

(* The first answer of a side settles its handshake.                       *)
Answered(s, side, o) ==
  IF s.options[side][o].answered THEN s
  ELSE ProcessHandshake([s EXCEPT !.options[side][o].answered = TRUE],
                        side, o)

-----------------------------------------------------------------------------
(* The options.                                                            *)

(* Mutated form of SendNegotiate: option before command.                   *)
SendNegotiateSwapped(s, command, o) ==
  [s EXCEPT !.toClient = Append(@, <<o, command>>)]

(* The bytes are queued; here the channel to the client is an ideal one.   *)
SendNegotiate(s, command, o) ==
  [s EXCEPT !.toClient = Append(@, <<command, o>>)]

(* Mutated form of Negotiate: asks again for what was declined.            *)
NegotiateInsisting(s, command, o) ==
  IF command \in {"DO", "WONT"}
  THEN SendNegotiate([s EXCEPT !.options["remote"][o].negotiating = TRUE],
                     "DO", o)
  ELSE SendNegotiate([s EXCEPT !.options["local"][o].negotiating = TRUE],
                     "WILL", o)

(* TelnetOption::negotiate: DO opens the remote side and WILL the local.   *)
Negotiate(s, command, o) ==
  CASE command = "DO"   -> SendNegotiate([s EXCEPT
                             !.options["remote"][o].negotiating = TRUE],
                             command, o)
    [] command = "WILL" -> SendNegotiate([s EXCEPT
                             !.options["local"][o].negotiating = TRUE],
                             command, o)
    [] OTHER            -> s

(* Mutated form of Agreed: enables the option only when it answers.        *)
AgreedForgetting(s, side, o) ==
  IF o \notin Supports(side) THEN SendNegotiate(s, Refuse(side), o)
  ELSE IF s.options[side][o].negotiating
  THEN Answered([s EXCEPT !.options[side][o].negotiating = FALSE], side, o)
  ELSE Answered(SendNegotiate([s EXCEPT !.options[side][o].enabled = TRUE],
                              Accept(side), o), side, o)

(* receiveNegotiate of WILL (side remote) or DO (side local).              *)
Agreed(s, side, o) ==
  IF o \notin Supports(side) THEN SendNegotiate(s, Refuse(side), o)
  ELSE IF s.options[side][o].negotiating
  THEN LET t == [s EXCEPT !.options[side][o].negotiating = FALSE]
       IN  IF t.options[side][o].enabled THEN t
           ELSE Answered([t EXCEPT !.options[side][o].enabled = TRUE],
                         side, o)
  ELSE Answered(SendNegotiate([s EXCEPT !.options[side][o].enabled = TRUE],
                              Accept(side), o), side, o)

(* receiveNegotiate of WONT (remote) or DONT (local); enabled stays as it  *)
(* is, and nothing is answered.                                            *)
Declined(s, side, o) ==
  IF s.options[side][o].negotiating
  THEN Answered([s EXCEPT !.options[side][o].negotiating = FALSE], side, o)
  ELSE s

(* TelnetOption::receiveNegotiate                                          *)
ReceiveNegotiate(s, command, o) ==
  CASE command = "WILL" -> Agreed(s, "remote", o)
    [] command = "DO"   -> Agreed(s, "local", o)
    [] command = "WONT" -> Declined(s, "remote", o)
    [] command = "DONT" -> Declined(s, "local", o)

(* TelnetMudConnection::onReceiveNegotiation, for a registered option.     *)
OnReceiveNegotiation(s, command, o) ==
  IF dispatch = "negotiate" THEN Negotiate(s, command, o)
                            ELSE ReceiveNegotiate(s, command, o)

(* registerHandshake: the local holder waits for an option that opens with *)
(* DO, the remote holder for one that opens with WILL.                     *)
Registered ==
  [h \in Side \cup {"special"} |->
     CASE h = "local"   -> SupportLocal \cap StartDo
       [] h = "remote"  -> SupportRemote \cap StartWill
       [] h = "special" -> {}]

(* What onConnect opens: with WILL on its own side, with DO on the other.  *)
Opens(side) == IF side = "local" THEN StartWill ELSE StartDo

(* The orders in which onConnect may be called for the options, that of    *)
(* their hash table: an option opens with WILL, then DO.                   *)
OpeningOrders ==
  {opening \in SetToSeqs({"WILL"} \X StartWill \cup {"DO"} \X StartDo) :
     \A i, j \in DOMAIN opening :
       opening[i][1] = "WILL" /\ opening[j] = <<"DO", opening[i][2]>>
         => j = i + 1}

(* negotiate of all that the options open with.                            *)
OnConnect(s, opening) ==
  [s EXCEPT !.options = [side \in Side |-> [o \in Options |->
              [s.options[side][o] EXCEPT !.negotiating = @ \/ o \in Opens(side)]]],
            !.toClient = @ \o opening]

-----------------------------------------------------------------------------
Init ==
  /\ dispatch \in Dispatches
  /\ server = [options  |-> [side \in Side |-> [o \in Options |->
                               [enabled |-> FALSE, negotiating |-> FALSE,
                                answered |-> FALSE]]],
               holders  |-> [h \in Side \cup {"special"} |-> {}],
               toClient |-> << >>, started |-> FALSE, readies |-> 0]
  /\ timer = "unset"
  /\ toServer = << >>
  /\ client = [does |-> {}, asks |-> {}]
  /\ changes = 0

(* start() registers the options, connects them and starts the timer.      *)
Start ==
  /\ timer = "unset"
  /\ \E opening \in OpeningOrders :
       server' = OnConnect([server EXCEPT !.holders = Registered], opening)
  /\ timer' = "pending"
  /\ UNCHANGED <<dispatch, toServer, client, changes>>

(* 500 ms have passed.                                                     *)
TimerFires ==
  /\ timer = "pending"
  /\ timer' = "fired"
  /\ server' = FinishReady(server)
  /\ UNCHANGED <<dispatch, toServer, client, changes>>

ServerReceives ==
  /\ timer # "unset" /\ toServer # << >>
  /\ LET command == Head(toServer)[1]
         o       == Head(toServer)[2]
     IN  server' = OnReceiveNegotiation(server, command, o)
  /\ toServer' = Tail(toServer)
  /\ UNCHANGED <<dispatch, timer, client, changes>>

-----------------------------------------------------------------------------
(* The client.  It acknowledges a request only by a change of mode: what   *)
(* asks for the mode it is in gets no answer.                              *)

Says(command, o) == toServer' = Append(toServer, <<command, o>>)

Reads(command, o) ==
  /\ server.toClient # << >>
  /\ Head(server.toClient) = <<command, o>>
  /\ server' = [server EXCEPT !.toClient = Tail(@)]
  /\ UNCHANGED <<dispatch, timer, changes>>

InMode == UNCHANGED <<toServer, client>>

(* Asked to do an option, it does or it refuses.                           *)
ClientReadsDo(o) ==
  /\ Reads("DO", o)
  /\ \/ o \in client.does /\ InMode
     \/ /\ o \notin client.does
        /\ \/ Says("WILL", o) /\ client' = [client EXCEPT !.does = @ \cup {o}]
           \/ Says("WONT", o) /\ UNCHANGED client

ClientReadsDont(o) ==
  /\ Reads("DONT", o)
  /\ IF o \in client.does
     THEN Says("WONT", o) /\ client' = [client EXCEPT !.does = @ \ {o}]
     ELSE InMode

(* Offered an option, it asks for it or it refuses.                        *)
ClientReadsWill(o) ==
  /\ Reads("WILL", o)
  /\ \/ o \in client.asks /\ InMode
     \/ /\ o \notin client.asks
        /\ \/ Says("DO", o) /\ client' = [client EXCEPT !.asks = @ \cup {o}]
           \/ Says("DONT", o) /\ UNCHANGED client

ClientReadsWont(o) ==
  /\ Reads("WONT", o)
  /\ IF o \in client.asks
     THEN Says("DONT", o) /\ client' = [client EXCEPT !.asks = @ \ {o}]
     ELSE InMode

(* It may begin or end an option of its own accord.                        *)
ClientChanges(o) ==
  /\ timer # "unset" /\ changes < MaxChanges
  /\ changes' = changes + 1
  /\ \/ /\ o \notin client.does /\ Says("WILL", o)
        /\ client' = [client EXCEPT !.does = @ \cup {o}]
     \/ /\ o \in client.does /\ Says("WONT", o)
        /\ client' = [client EXCEPT !.does = @ \ {o}]
     \/ /\ o \notin client.asks /\ Says("DO", o)
        /\ client' = [client EXCEPT !.asks = @ \cup {o}]
     \/ /\ o \in client.asks /\ Says("DONT", o)
        /\ client' = [client EXCEPT !.asks = @ \ {o}]
  /\ UNCHANGED <<dispatch, server, timer>>

ClientReads ==
  \E o \in Options :
    \/ ClientReadsDo(o) \/ ClientReadsDont(o)
    \/ ClientReadsWill(o) \/ ClientReadsWont(o)

Next ==
  \/ Start \/ TimerFires \/ ServerReceives
  \/ ClientReads
  \/ \E o \in Options : ClientChanges(o)

Spec == Init /\ [][Next]_vars

(* The server's handlers run and the timer expires; the client reads.      *)
FairSpec ==
  /\ Spec
  /\ WF_vars(Start) /\ WF_vars(ServerReceives) /\ WF_vars(TimerFires)
  /\ WF_vars(ClientReads)

-----------------------------------------------------------------------------
Quiet == timer # "unset" /\ server.toClient = << >> /\ toServer = << >>

(* The connection is handed to the program as Readiness promises: once,    *)
(* whether the timer or the last handshake comes first, and in the end     *)
(* whatever the client answers.                                            *)
Promised ==
  INSTANCE Readiness
    WITH Connections <- {1},
         phase <- [c \in {1} |-> CASE timer = "unset" -> "new"
                                  [] timer # "unset" /\ server.started -> "ready"
                                  [] OTHER -> "waiting"],
         told <- [c \in {1} |-> server.readies]

ImplementsReadiness == Promised!Spec

(* Before its timer has fired a connection becomes ready only with every   *)
(* handshake of all three holders answered: checkReady.                    *)
ReadyAfterHandshakes ==
  server.started /\ timer # "fired" =>
    \A h \in DOMAIN server.holders : server.holders[h] = {}

(* "this handles a case where the client doesn't do telnet negotiation or  *)
(* doesn't answer all of our handshakes": with a client that has answered  *)
(* all of them, start() needs no timer to make the connection ready.       *)
ReadyWhenAnswered ==
  Quiet /\ (\E h \in Side : Registered[h] # {}) => server.started

(* What receiveNegotiate would give.  When nothing is under way, only those *)
(* handshakes are still open whose option never opened a negotiation in    *)
(* the direction they wait for: registerHandshake puts an option that      *)
(* opens with WILL with the answers to DO, and the other way round.  Once  *)
(* none is open any more the connection is ready.                          *)
ReadyWhenProcessed ==
  dispatch = "receiveNegotiate" /\ Quiet =>
    /\ \A side \in Side : server.holders[side] \cap Opens(side) = {}
    /\ (\E h \in Side : Registered[h] # {})
         /\ (\A h \in DOMAIN server.holders : server.holders[h] = {})
       => server.started

(* When nothing is under way, an option that the client does, or relies on *)
(* the server to do, is enabled on the server's side: receiveNegotiate     *)
(* misses no agreement, whoever opened it and whatever crossed.            *)
AgreementKept ==
  dispatch = "receiveNegotiate" /\ Quiet =>
    /\ \A o \in client.does : server.options["remote"][o].enabled
    /\ \A o \in client.asks : server.options["local"][o].enabled

(* Negotiation ends, whichever of the two handles it: server and client    *)
(* never answer each other for ever.                                       *)
NegotiationSettles == <>[]Quiet

=============================================================================
