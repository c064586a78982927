------------------------------ MODULE QtServer -------------------------------
(***************************************************************************)
(* mudcore's Qt server: QMudServerCore with its table of listeners, the    *)
(* QSslServer of a telnet listener, the sockets it accepts and the         *)
(* connections made of them.  Everything runs in one Qt event loop and     *)
(* every signal is delivered by a direct call.                             *)
(*                                                                         *)
(* A listener is known by its place in `made', a connection by its place   *)
(* in `conns'.  A port stands for an address and a port.                   *)
(***************************************************************************)
EXTENDS Naturals, Sequences, FiniteSets

CONSTANTS Names,         \* names a listener may be created under
          Ports,
          MaxListeners,  \* bound: listeners created in one behaviour
          MaxSockets     \* bound: sockets accepted in one behaviour

ASSUME ServerBounds == MaxListeners \in Nat /\ MaxSockets \in Nat

VARIABLES alive,        \* ~QMudServerCore has not run
          made,         \* the QMudListeners, all children of the core
          listeners,    \* name -> listener in that table, 0 for none
          sockets,      \* the QSslSockets accepted
          pending_ssl,  \* sockets in the set of that name of their server
          conns,        \* the QMudTelnetConnections: the socket of each
          connections,  \* listener's name -> connection listed under
                        \* <name>_test_conn, 0 for none
          deleted,      \* how often ~QMudServerCore deleted each object
          halted        \* history: listeners stopped while they listened

tableVars  == <<made, listeners>>
socketVars == <<sockets, pending_ssl, conns, connections>>
vars == <<alive, tableVars, socketVars, deleted, halted>>

(* The server of a telnet listener; a WebSocket listener has none.         *)
Listener == [name : Names, port : Ports, ssl : BOOLEAN,
             server : {"none", "closed", "listening", "paused"}]

Socket == [at : 1 .. MaxListeners,
           is : {"plain", "encrypting", "encrypted", "dead"}]

TypeOK ==
  /\ alive \in BOOLEAN
  /\ made \in Seq(Listener)
  /\ listeners \in [Names -> 0 .. Len(made)]
  /\ sockets \in Seq(Socket)
  /\ pending_ssl \subseteq DOMAIN sockets
  /\ conns \in Seq(DOMAIN sockets)
  /\ connections \in [Names -> 0 .. Len(conns)]
  /\ deleted \in [listeners : Seq(Nat), conns : Seq(Nat)]
  /\ halted \subseteq DOMAIN made

Init ==
  /\ alive = TRUE
  /\ made = << >> /\ listeners = [n \in Names |-> 0]
  /\ sockets = << >> /\ pending_ssl = {} /\ conns = << >>
  /\ connections = [n \in Names |-> 0]
  /\ deleted = [listeners |-> << >>, conns |-> << >>]
  /\ halted = {}

-----------------------------------------------------------------------------
(* What the program calls.                                                 *)

Listed == {i \in DOMAIN made : \E n \in Names : listeners[n] = i}

(* QHash::insert replaces what the name stood for; the listener replaced   *)
(* stays a child of the core and goes on as it was.                        *)
CreateListener(n, port, ssl, server) ==
  /\ alive /\ Len(made) < MaxListeners
  /\ made' = Append(made, [name |-> n, port |-> port, ssl |-> ssl,
                           server |-> server])
  /\ listeners' = [listeners EXCEPT ![n] = Len(made) + 1]
  /\ UNCHANGED <<alive, socketVars, deleted, halted>>

(* Mutated form of CanStart: a listener that was stopped is started again. *)
CanStartAgain(i) == made[i].server \in {"closed", "paused"}

(* start() leaves a server that is listening as it is, and pauseAccepting  *)
(* leaves it listening.                                                    *)
CanStart(i) == made[i].server = "closed"

(* listen() fails on a port that is taken and may fail on any: which       *)
(* listeners start depends on the order of the table as well.              *)
StartListening ==
  /\ alive
  /\ \E started \in SUBSET {i \in Listed : CanStart(i)} :
       /\ \A i \in started, j \in DOMAIN made :
            /\ i # j /\ made[i].port = made[j].port
            => /\ j \notin started
               /\ made[j].server \notin {"listening", "paused"}
       /\ made' = [i \in DOMAIN made |->
                     [made[i] EXCEPT !.server = IF i \in started
                                                THEN "listening" ELSE @]]
  /\ UNCHANGED <<alive, listeners, socketVars, deleted, halted>>

(* stop() of each listener in the table.                                   *)
StopListening ==
  /\ alive
  /\ made' = [i \in DOMAIN made |->
                [made[i] EXCEPT !.server = IF i \in Listed /\ @ = "listening"
                                           THEN "paused" ELSE @]]
  /\ halted' = halted \cup {i \in Listed : made[i].server = "listening"}
  /\ UNCHANGED <<alive, listeners, socketVars, deleted>>

(* ~QMudServerCore stops and deletes the listeners in the table, each with *)
(* the connections that are its children, then the connections in the      *)
(* other table; ~QObject deletes the listeners that are left, with theirs. *)
Listings(table, i) == Cardinality({n \in Names : table[n] = i})

Destroy ==
  /\ alive
  /\ alive' = FALSE
  /\ deleted' = [listeners |-> [i \in DOMAIN made |->
                                  IF i \in Listed THEN Listings(listeners, i)
                                                  ELSE 1],
                 conns     |-> [c \in DOMAIN conns |->
                                  1 + Listings(connections, c)]]
  /\ UNCHANGED <<tableVars, socketVars, halted>>

-----------------------------------------------------------------------------
(* What the event loop calls.                                              *)

(* Mutated form of StartTelnetNegotiation: announces that telnet is ready, *)
(* for which the listener and the core list the connection.                *)
StartTelnetNegotiationReady(handed) ==
  \E newest \in handed :
    connections' = [connections EXCEPT ![made[sockets'[newest].at].name] =
                      Len(conns) + Cardinality(handed)]

(* A line is written to the client.  Nothing emits telnetReady, so that    *)
(* QMudListener::telnetReady and acceptConnection are never called.        *)
StartTelnetNegotiation(handed) == UNCHANGED connections

(* connReady of these sockets, in the order of the set: each is given a    *)
(* connection, a child of the listener.                                    *)
AcceptTelnetConnections(handed) ==
  /\ \E order \in [1 .. Cardinality(handed) -> handed] :
       /\ \A s \in handed : \E k \in DOMAIN order : order[k] = s
       /\ conns' = conns \o order
  /\ IF handed = {} THEN UNCHANGED connections
                    ELSE StartTelnetNegotiation(handed)

(* Mutated form of IncomingConnection: a socket that cannot be set up is   *)
(* put into the set and then deleted.                                      *)
IncomingConnectionUnchecked(i) ==
  /\ alive /\ Len(sockets) < MaxSockets
  /\ made[i].server = "listening"
  /\ pending_ssl' = pending_ssl \cup {Len(sockets) + 1}
  /\ sockets' \in {sockets, Append(sockets, [at |-> i, is |-> "encrypting"])}
  /\ UNCHANGED <<alive, tableVars, conns, connections, deleted, halted>>

(* A socket that cannot be set up is deleted and nothing comes of it; so   *)
(* it is left out.                                                         *)
IncomingConnection(i) ==
  /\ alive /\ Len(sockets) < MaxSockets
  /\ made[i].server = "listening"
  /\ LET s == Len(sockets) + 1
     IN  IF made[i].ssl
         THEN /\ sockets' = Append(sockets, [at |-> i, is |-> "encrypting"])
              /\ pending_ssl' = pending_ssl \cup {s}
              /\ UNCHANGED <<conns, connections>>
         ELSE /\ sockets' = Append(sockets, [at |-> i, is |-> "plain"])
              /\ conns' = Append(conns, s)
              /\ StartTelnetNegotiation({s})
              /\ UNCHANGED pending_ssl
  /\ UNCHANGED <<alive, tableVars, deleted, halted>>

(* Encrypted sockets of one server that are in its set.                    *)
Waiting(socks, i) ==
  {s \in pending_ssl : socks[s].at = i /\ socks[s].is = "encrypted"}

(* Mutated form of SslReady: what was handed on stays in the set.          *)
SslReadyKeeping(socks, i) ==
  /\ AcceptTelnetConnections(Waiting(socks, i))
  /\ UNCHANGED pending_ssl

(* The slot of QSslSocket::encrypted does not know which socket it was.    *)
SslReady(socks, i) ==
  /\ AcceptTelnetConnections(Waiting(socks, i))
  /\ pending_ssl' = pending_ssl \ Waiting(socks, i)

(* The TLS handshake of a socket succeeds.                                 *)
Encrypted(s) ==
  /\ alive
  /\ sockets[s].is = "encrypting"
  /\ sockets' = [sockets EXCEPT ![s].is = "encrypted"]
  /\ SslReady(sockets', sockets[s].at)
  /\ UNCHANGED <<alive, tableVars, deleted, halted>>

(* The client goes or its handshake fails: no slot is connected to either. *)
Disconnected(s) ==
  /\ alive
  /\ sockets[s].is # "dead"
  /\ sockets' = [sockets EXCEPT ![s].is = "dead"]
  /\ UNCHANGED <<alive, tableVars, pending_ssl, conns, connections, deleted,
                 halted>>

Program ==
  \/ \E n \in Names, port \in Ports, ssl \in BOOLEAN,
       server \in {"none", "closed"} : CreateListener(n, port, ssl, server)
  \/ StartListening \/ StopListening \/ Destroy

EventLoop ==
  \/ \E i \in DOMAIN made : IncomingConnection(i)
  \/ \E s \in DOMAIN sockets : Encrypted(s) \/ Disconnected(s)

Next == Program \/ EventLoop

Spec == Init /\ [][Next]_vars

-----------------------------------------------------------------------------
(* However handshakes succeed, fail and overtake one another, every socket *)
(* is either in the set of its server or has been handed on, once; and     *)
(* one whose handshake failed is never handed on.                          *)
HandedOnce ==
  \A s \in DOMAIN sockets :
    /\ Cardinality({c \in DOMAIN conns : conns[c] = s})
         = IF s \in pending_ssl THEN 0 ELSE 1
    /\ sockets[s].is = "encrypting" => s \in pending_ssl
    /\ sockets[s].is \in {"plain", "encrypted"} => s \notin pending_ssl

(* A listener that listened, and was in the table, when stopListening was  *)
(* called takes no connection ever again, not even after startListening:   *)
(* pauseAccepting leaves the server listening, and start() does nothing    *)
(* with a server that listens.                                             *)
HaltedForGood ==
  [][\A s \in DOMAIN sockets' \ DOMAIN sockets :
       sockets'[s].at \notin halted]_vars

(* ~QMudServerCore deletes every listener and every connection once,       *)
(* whatever listeners were replaced under their names: a connection is its *)
(* listener's child and must not be deleted from the other table as well.  *)
DeletedOnce ==
  ~alive =>
    /\ DOMAIN deleted.listeners = DOMAIN made
    /\ DOMAIN deleted.conns = DOMAIN conns
    /\ \A i \in DOMAIN made : deleted.listeners[i] = 1
    /\ \A c \in DOMAIN conns : deleted.conns[c] = 1

=============================================================================
