------------------------- MODULE MudNetworkManager --------------------------
(***************************************************************************)
(* MudNetworkManager, its listeners and the connections they accept, from  *)
(* async_accept to the moment a connection is listed as ready.  What a     *)
(* telnet connection does in between is TelnetConnection's matter: here it *)
(* is started, its timer runs, and it is ready.                            *)
(*                                                                         *)
(* The program and all completion handlers share one thread.  A chain of a *)
(* listener is an async_accept whose handler starts the next one, unless   *)
(* the listener has been stopped.                                          *)
(***************************************************************************)
EXTENDS Naturals, Sequences, FiniteSets

CONSTANTS Names,        \* names a listener may be registered under
          Addresses,    \* names an address may be registered under
          IdCount,      \* how many connection ids there are (2^32 in the code)
          MaxAccepts,   \* bound: connections accepted in one behaviour
          MaxStarts,    \* bound: starts of listeners in one behaviour
          MaxHangups    \* bound: reads that fail in one behaviour

ASSUME BoundsAssumption ==
  /\ IdCount \in Nat \ {0}
  /\ MaxAccepts \in Nat /\ MaxStarts \in Nat /\ MaxHangups \in Nat

VARIABLES addresses,    \* registered addresses
          registered,   \* names in the map of listeners
          websocket,    \* listeners of type WebSocket; the others are Telnet
          secure,       \* listeners whose ssl_con is not null
          running,      \* listeners whose flag of that name is set
          chains,       \* name -> async_accepts outstanding
          starts,       \* history: name -> times start() was effective
          nextId,       \* the id of the next connection
          objects,      \* the MudConnections created so far, oldest first
          pending,      \* id -> object stored in that map, 0 for none
          connections,  \* id -> object stored in that map, 0 for none
          gone,         \* telnet connections whose read has failed
          up            \* the thread runs handlers: the program has not died
                        \* and no handler keeps it for ever

listenerVars == <<addresses, registered, websocket, secure>>
acceptVars   == <<running, chains, starts>>
objectVars   == <<nextId, objects, pending>>
vars == <<listenerVars, acceptVars, objectVars, connections, gone, up>>

Id == 0 .. IdCount - 1

(* handshake: async_handshake is outstanding; upgrade: the websocket's     *)
(* async_accept is; started: the 500 ms timer of a telnet connection runs; *)
(* ready: onReady has been called; shelved: nothing is outstanding that    *)
(* would ever move the connection on.                                      *)
Stage == {"handshake", "upgrade", "started", "ready", "shelved"}

Object == [id : Id, listener : Names, stage : Stage]

TypeOK ==
  /\ addresses \subseteq Addresses
  /\ registered \subseteq Names
  /\ websocket \subseteq registered /\ secure \subseteq registered
  /\ running \subseteq registered
  /\ chains \in [Names -> Nat] /\ starts \in [Names -> Nat]
  /\ nextId \in Id
  /\ objects \in Seq(Object)
  /\ pending \in [Id -> 0 .. Len(objects)]
  /\ connections \in [Id -> 0 .. Len(objects)]
  /\ gone \subseteq DOMAIN objects
  /\ up \in BOOLEAN

Init ==
  /\ addresses = {} /\ registered = {} /\ websocket = {} /\ secure = {}
  /\ running = {}
  /\ chains = [n \in Names |-> 0] /\ starts = [n \in Names |-> 0]
  /\ nextId = 0 /\ objects = << >>
  /\ pending = [id \in Id |-> 0] /\ connections = [id \in Id |-> 0]
  /\ gone = {} /\ up = TRUE

-----------------------------------------------------------------------------
(* What the program calls.                                                 *)

RegisterAddress(a) ==
  /\ up
  /\ addresses' = addresses \cup {a}
  /\ UNCHANGED <<registered, websocket, secure, acceptVars, objectVars,
                 connections, gone, up>>

(* Throws, with nothing changed, if the name is taken, the address unknown *)
(* or the acceptor cannot bind, and for every name of an SSL context: none *)
(* can be registered.  The constructor does not initialise ssl_con, so the *)
(* memory decides whether the listener takes itself to be secure.          *)
RegisterListener(n, a) ==
  /\ up
  /\ n \notin registered /\ a \in addresses
  /\ registered' = registered \cup {n}
  /\ websocket' \in {websocket, websocket \cup {n}}
  /\ secure' \in {secure, secure \cup {n}}
  /\ UNCHANGED <<addresses, acceptVars, objectVars, connections, gone, up>>

StartsSoFar ==
  Cardinality(UNION {{n} \X (1 .. starts[n]) : n \in Names})

(* start() of every listener; the accept of an earlier run may still be    *)
(* outstanding.                                                            *)
StartListening ==
  /\ up
  /\ StartsSoFar + Cardinality(registered \ running) <= MaxStarts
  /\ running' = registered
  /\ chains' = [n \in Names |-> IF n \in registered \ running
                                THEN chains[n] + 1 ELSE chains[n]]
  /\ starts' = [n \in Names |-> IF n \in registered \ running
                                THEN starts[n] + 1 ELSE starts[n]]
  /\ UNCHANGED <<listenerVars, objectVars, connections, gone, up>>

(* stop() of every listener only clears the flag.                          *)
StopListening ==
  /\ up
  /\ running' = {}
  /\ UNCHANGED <<listenerVars, chains, starts, objectVars, connections, gone,
                 up>>

-----------------------------------------------------------------------------
(* The completion handlers.                                                *)

(* Mutated form of Relisten: the flag is not looked at.                    *)
RelistenAlways(n) == UNCHANGED chains

(* The accept handler ends: it listens on if the listener is running.      *)
Relisten(n) ==
  chains' = IF n \in running THEN chains ELSE [chains EXCEPT ![n] = @ - 1]

(* Where start(), or what comes before it on this kind of listener, leaves *)
(* a connection.                                                           *)
AfterPlainConnect(n) == IF n \in websocket THEN "upgrade" ELSE "started"

(* Mutated form of Create: the id is taken but the counter left alone.     *)
CreateSameId(n, stage) ==
  /\ objects' = Append(objects, [id |-> nextId, listener |-> n, stage |-> stage])
  /\ pending' = [pending EXCEPT ![nextId] = Len(objects) + 1]
  /\ UNCHANGED nextId

(* Mutated form of Create: the counter does not wrap around.               *)
CreateUnwrapped(n, stage) ==
  /\ objects' = Append(objects, [id |-> nextId, listener |-> n, stage |-> stage])
  /\ pending' = [pending EXCEPT ![nextId] = Len(objects) + 1]
  /\ nextId' = nextId + 1

(* A connection with the next id is created and put into pending.          *)
Create(n, stage) ==
  /\ objects' = Append(objects, [id |-> nextId, listener |-> n, stage |-> stage])
  /\ pending' = [pending EXCEPT ![nextId] = Len(objects) + 1]
  /\ nextId' = (nextId + 1) % IdCount

(* The accept handler with a socket.  On a listener that takes itself for  *)
(* secure a TlsSocket is made over whatever ssl_con points to: the program *)
(* dies of it, or the handshake begins.                                    *)
Accept(n) ==
  /\ up
  /\ chains[n] > 0 /\ Len(objects) < MaxAccepts
  /\ Create(n, IF n \in secure THEN "handshake" ELSE AfterPlainConnect(n))
  /\ Relisten(n)
  /\ up' \in IF n \in secure THEN {TRUE, FALSE} ELSE {TRUE}
  /\ UNCHANGED <<listenerVars, running, starts, connections, gone>>

(* Mutated form of AcceptFails: an error ends the chain.                   *)
AcceptFailsForGood(n) ==
  /\ up
  /\ chains[n] > 0
  /\ chains' = [chains EXCEPT ![n] = @ - 1]
  /\ UNCHANGED <<listenerVars, running, starts, objectVars, connections, gone,
                 up>>

(* The accept handler with an error.                                       *)
AcceptFails(n) ==
  /\ up
  /\ chains[n] > 0
  /\ Relisten(n)
  /\ UNCHANGED <<listenerVars, running, starts, objectVars, connections, gone,
                 up>>

Move(i, stage) == objects' = [objects EXCEPT ![i].stage = stage]

(* The handshake ends; after an error nothing more is done.                *)
HandshakeEnds(i) ==
  /\ up
  /\ objects[i].stage = "handshake"
  /\ \/ Move(i, AfterPlainConnect(objects[i].listener))
     \/ Move(i, "shelved")
  /\ UNCHANGED <<listenerVars, acceptVars, nextId, pending, connections, gone,
                 up>>

(* The websocket's accept ends.  Without an error start() is called, which *)
(* prints a line and does nothing else.                                    *)
UpgradeEnds(i) ==
  /\ up
  /\ objects[i].stage = "upgrade"
  /\ Move(i, "shelved")
  /\ UNCHANGED <<listenerVars, acceptVars, nextId, pending, connections, gone,
                 up>>

(* Mutated forms of TimerFires: one forgets connections that a stopped     *)
(* listener has accepted, one lists the newest object under the id.        *)
TimerFiresWhileRunning(i) ==
  /\ up
  /\ objects[i].stage = "started" /\ objects[i].listener \in running
  /\ Move(i, "ready")
  /\ connections' = [connections EXCEPT ![objects[i].id] = i]
  /\ UNCHANGED <<listenerVars, acceptVars, nextId, pending, gone, up>>

TimerFiresForNewest(i) ==
  /\ up
  /\ objects[i].stage = "started"
  /\ Move(i, "ready")
  /\ connections' = [connections EXCEPT ![objects[i].id] = Len(objects)]
  /\ UNCHANGED <<listenerVars, acceptVars, nextId, pending, gone, up>>

(* finishReady and onReady: the connection is listed.  Its entry in        *)
(* pending stays.                                                          *)
TimerFires(i) ==
  /\ up
  /\ objects[i].stage = "started"
  /\ Move(i, "ready")
  /\ connections' = [connections EXCEPT ![objects[i].id] = i]
  /\ UNCHANGED <<listenerVars, acceptVars, nextId, pending, gone, up>>

(* A read of the connection is outstanding.                                *)
IsReading(i) == objects[i].stage \in {"started", "ready"} /\ i \notin gone

(* Mutated form of ReadFails: takes the connection off the list.           *)
ReadFailsDelisting(i) ==
  /\ up
  /\ IsReading(i) /\ Cardinality(gone) < MaxHangups
  /\ gone' = gone \cup {i}
  /\ connections' = [connections EXCEPT ![objects[i].id] = 0]
  /\ UNCHANGED <<listenerVars, acceptVars, objectVars, up>>

(* The read of a connection that start() was called for fails: a line is   *)
(* printed.  Nothing is told, taken off a list or deleted.                 *)
ReadFails(i) ==
  /\ up
  /\ IsReading(i) /\ Cardinality(gone) < MaxHangups
  /\ gone' = gone \cup {i}
  /\ UNCHANGED <<listenerVars, acceptVars, objectVars, connections, up>>

(* A client sends a subnegotiation: TelnetReceive shows that its handler   *)
(* keeps the thread or ends the program.  No other handler runs any more.  *)
SubnegotiationArrives(i) ==
  /\ up
  /\ IsReading(i)
  /\ up' = FALSE
  /\ UNCHANGED <<listenerVars, acceptVars, objectVars, connections, gone>>

Program ==
  \/ \E a \in Addresses : RegisterAddress(a)
  \/ \E n \in Names, a \in Addresses : RegisterListener(n, a)
  \/ StartListening
  \/ StopListening

Handlers ==
  \/ \E n \in Names : Accept(n) \/ AcceptFails(n)
  \/ \E i \in DOMAIN objects :
       \/ HandshakeEnds(i) \/ UpgradeEnds(i) \/ TimerFires(i)
       \/ ReadFails(i) \/ SubnegotiationArrives(i)

Next == Program \/ Handlers

Spec == Init /\ [][Next]_vars

(* Timers expire and their handlers are run.  No peer need connect, finish *)
(* a handshake or upgrade.                                                 *)
Timer == \E i \in DOMAIN objects : TimerFires(i)
FairSpec == Spec /\ WF_vars(Timer)

-----------------------------------------------------------------------------
(* A listener that is running has an accept outstanding, whatever accepts  *)
(* have failed and however starts, stops and accepts have interleaved; and *)
(* it never has more of them than the starts that began them.              *)
RunningListens ==
  \A n \in Names :
    /\ n \in running => chains[n] > 0
    /\ chains[n] <= starts[n]

(* A listener that has been stopped takes no more connections than it had  *)
(* accepts outstanding: each one it takes uses one up.                     *)
StoppedListenerRunsOut ==
  [][\A n \in Names \ running :
       Len(objects') > Len(objects) /\ objects'[Len(objects')].listener = n
         => chains'[n] < chains[n]]_vars

(* Until the ids wrap around, every connection ever accepted is the one    *)
(* that pending holds under its id: none replaces another.                 *)
PendingHoldsAll ==
  Len(objects) <= IdCount =>
    \A i \in DOMAIN objects : pending[objects[i].id] = i

(* Until then, connections lists exactly those that have become ready,     *)
(* those whose client has gone among them: the program is left with them.  *)
ReadyAreListed ==
  Len(objects) <= IdCount =>
    \A i \in DOMAIN objects :
      objects[i].stage = "ready" <=> connections[objects[i].id] = i

(* Even after the ids have wrapped around, what is listed under an id is a *)
(* telnet connection with that id that is ready.                           *)
ListedAreReady ==
  \A id \in Id :
    LET i == connections[id]
    IN  i # 0 => /\ objects[i].id = id
                 /\ objects[i].stage = "ready"
                 /\ objects[i].listener \notin websocket

(* Every connection is handed over as Readiness promises: once its timer   *)
(* runs it becomes ready, once, also when its listener has been stopped or *)
(* its client has gone in the meantime.                                    *)
InStage(i, stage) == i \in DOMAIN objects /\ objects[i].stage = stage

Phase(i) ==
  CASE ~up -> "lost"
    [] up /\ InStage(i, "started") -> "waiting"
    [] up /\ InStage(i, "ready") -> "ready"
    [] OTHER -> "new"

Promised ==
  INSTANCE Readiness
    WITH Connections <- 1 .. MaxAccepts,
         phase <- [i \in 1 .. MaxAccepts |-> Phase(i)],
         told <- [i \in 1 .. MaxAccepts |->
                    IF InStage(i, "ready") THEN 1 ELSE 0]

ImplementsReadiness == Promised!Spec

=============================================================================
