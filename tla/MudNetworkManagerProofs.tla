----------------------- MODULE MudNetworkManagerProofs -----------------------
(***************************************************************************)
(* Safety of the manager for any set of names and addresses, any number of *)
(* ids and any number of connections.                                      *)
(***************************************************************************)
EXTENDS MudNetworkManager, SequenceTheorems, TLAPS

-----------------------------------------------------------------------------
(* The inductive invariant.  Connections are numbered from 0 in the order  *)
(* in which they are accepted, until the ids wrap around; pending and      *)
(* connections hold each under its number.                                 *)

IdsInOrder ==
  /\ Len(objects) < IdCount => nextId = Len(objects)
  /\ Len(objects) <= IdCount =>
       \A i \in DOMAIN objects : objects[i].id = i - 1

(* A connection that runs a timer or is ready is a telnet connection.      *)
OnlyTelnetStarts ==
  \A i \in DOMAIN objects :
    objects[i].stage \in {"started", "ready"} =>
      objects[i].listener \notin websocket

(* Every connection was accepted by a registered listener, whose type does *)
(* not change any more.                                                    *)
AcceptedByRegistered ==
  /\ \A i \in DOMAIN objects : objects[i].listener \in registered
  /\ \A n \in Names : chains[n] > 0 => n \in registered

IInv ==
  /\ TypeOK
  /\ RunningListens
  /\ IdsInOrder
  /\ OnlyTelnetStarts
  /\ AcceptedByRegistered
  /\ PendingHoldsAll
  /\ ReadyAreListed
  /\ ListedAreReady

-----------------------------------------------------------------------------
LEMMA InitInvariant == Init => IInv
  <1> SUFFICES ASSUME Init PROVE IInv
    OBVIOUS
  <1>1. 0 \in Id /\ << >> \in Seq(Object) /\ Len(<< >>) = 0
    BY BoundsAssumption, EmptySeq DEF Id
  <1>2. TypeOK
    BY <1>1 DEF Init, TypeOK
  <1>3. DOMAIN objects = {}
    <2>1. objects \in Seq(Object) /\ Len(objects) = 0
      BY <1>1 DEF Init
    <2>2. DOMAIN objects = 1 .. Len(objects)
      BY <2>1, LenProperties
    <2> QED BY <2>1, <2>2
  <1>4. RunningListens
    <2> SUFFICES ASSUME NEW n \in Names
                 PROVE  (n \in running => chains[n] > 0) /\ chains[n] <= starts[n]
      BY DEF RunningListens
    <2>1. chains[n] = 0 /\ starts[n] = 0
      BY DEF Init
    <2>2. running = {}
      BY DEF Init
    <2> QED BY <2>1, <2>2
  <1>5. /\ IdsInOrder /\ OnlyTelnetStarts /\ AcceptedByRegistered
        /\ PendingHoldsAll /\ ReadyAreListed
    BY <1>1, <1>3 DEF Init, IdsInOrder, OnlyTelnetStarts,
       AcceptedByRegistered, PendingHoldsAll, ReadyAreListed
  <1>6. ListedAreReady
    BY DEF Init, ListedAreReady
  <1> QED BY <1>2, <1>4, <1>5, <1>6 DEF IInv

(* The objects after one has been appended.                                *)
LEMMA AppendObject ==
  ASSUME TypeOK, NEW x \in Object, objects' = Append(objects, x)
  PROVE  /\ objects' \in Seq(Object)
         /\ Len(objects) \in Nat
         /\ Len(objects') = Len(objects) + 1
         /\ DOMAIN objects = 1 .. Len(objects)
         /\ DOMAIN objects' = 1 .. Len(objects) + 1
         /\ \A i \in 1 .. Len(objects) : objects'[i] = objects[i]
         /\ objects'[Len(objects) + 1] = x
  <1>1. objects \in Seq(Object)
    BY DEF TypeOK
  <1> QED BY <1>1, AppendProperties, LenProperties

(* The objects after the stage of one has changed.                         *)
LEMMA MoveObject ==
  ASSUME TypeOK, NEW k \in DOMAIN objects, NEW stage \in Stage, Move(k, stage)
  PROVE  /\ objects' \in Seq(Object)
         /\ Len(objects') = Len(objects)
         /\ DOMAIN objects' = DOMAIN objects
         /\ \A i \in DOMAIN objects :
              /\ objects'[i].id = objects[i].id
              /\ objects'[i].listener = objects[i].listener
              /\ objects'[i].stage = IF i = k THEN stage ELSE objects[i].stage
  <1>1. /\ objects \in Seq(Object) /\ Len(objects) \in Nat
        /\ DOMAIN objects = 1 .. Len(objects)
    BY LenProperties DEF TypeOK
  <1>2. \A i \in DOMAIN objects : objects[i] \in Object
    BY <1>1, ElementOfSeq
  <1> DEFINE moved == [objects[k] EXCEPT !.stage = stage]
  <1>3. /\ moved \in Object /\ moved.id = objects[k].id
        /\ moved.listener = objects[k].listener /\ moved.stage = stage
    BY <1>2 DEF Object
  <1>4. objects' = [objects EXCEPT ![k] = moved]
    BY DEF Move
  <1> HIDE DEF moved
  <1>5. /\ objects' \in Seq(Object) /\ Len(objects') = Len(objects)
        /\ \A i \in 1 .. Len(objects) :
             objects'[i] = IF i = k THEN moved ELSE objects[i]
    BY <1>1, <1>3, <1>4, ExceptSeq
  <1>6. DOMAIN objects' = DOMAIN objects
    BY <1>4
  <1> QED BY <1>1, <1>3, <1>5, <1>6

-----------------------------------------------------------------------------
(* One lemma for each group of steps.                                      *)

LEMMA RegisterInvariant ==
  ASSUME IInv,
         \/ \E a \in Addresses : RegisterAddress(a)
         \/ \E n \in Names, a \in Addresses : RegisterListener(n, a)
  PROVE  IInv'
  <1>1. CASE \E a \in Addresses : RegisterAddress(a)
    BY <1>1 DEF RegisterAddress, IInv, TypeOK, RunningListens, IdsInOrder,
       OnlyTelnetStarts, AcceptedByRegistered, PendingHoldsAll,
       ReadyAreListed, ListedAreReady, acceptVars, objectVars
  <1>2. ASSUME NEW n \in Names, NEW a \in Addresses, RegisterListener(n, a)
        PROVE  IInv'
    <2>1. /\ n \notin registered /\ registered' = registered \cup {n}
          /\ websocket' \in {websocket, websocket \cup {n}}
          /\ secure' \in {secure, secure \cup {n}}
          /\ addresses' = addresses /\ running' = running
          /\ chains' = chains /\ starts' = starts /\ nextId' = nextId
          /\ objects' = objects /\ pending' = pending
          /\ connections' = connections /\ gone' = gone /\ up' = up
      BY <1>2 DEF RegisterListener, acceptVars, objectVars
    <2>2. TypeOK'
      BY <2>1 DEF IInv, TypeOK
    <2>3. RunningListens' /\ IdsInOrder' /\ PendingHoldsAll' /\ ReadyAreListed'
      BY <2>1 DEF IInv, RunningListens, IdsInOrder, PendingHoldsAll,
         ReadyAreListed
    <2>4. OnlyTelnetStarts' /\ AcceptedByRegistered'
      BY <2>1 DEF IInv, OnlyTelnetStarts, AcceptedByRegistered
    <2>5. ListedAreReady'
      <3> SUFFICES ASSUME NEW id \in Id, connections[id] # 0
                   PROVE  LET i == connections[id]
                          IN  /\ objects[i].id = id
                              /\ objects[i].stage = "ready"
                              /\ objects[i].listener \notin websocket'
        BY <2>1 DEF ListedAreReady
      <3>1. connections[id] \in DOMAIN objects
        BY LenProperties DEF IInv, TypeOK
      <3>2. objects[connections[id]].listener # n
        BY <2>1, <3>1 DEF IInv, AcceptedByRegistered
      <3> QED BY <2>1, <3>2 DEF IInv, ListedAreReady
    <2> QED BY <2>2, <2>3, <2>4, <2>5 DEF IInv
  <1> QED BY <1>1, <1>2

(* Starting, stopping and failing accepts only change running and chains.  *)
LEMMA ChainInvariant ==
  ASSUME IInv,
         StartListening \/ StopListening \/ \E n \in Names : AcceptFails(n)
  PROVE  IInv'
  <1>1. /\ addresses' = addresses /\ registered' = registered
        /\ websocket' = websocket /\ secure' = secure
        /\ nextId' = nextId /\ objects' = objects /\ pending' = pending
        /\ connections' = connections /\ gone' = gone /\ up' = up
    BY DEF StartListening, StopListening, AcceptFails, listenerVars, objectVars
  <1>2. /\ running \subseteq registered /\ registered \subseteq Names
        /\ chains \in [Names -> Nat] /\ starts \in [Names -> Nat]
        /\ \A n \in Names : /\ n \in running => chains[n] > 0
                            /\ chains[n] <= starts[n]
                            /\ chains[n] > 0 => n \in registered
    BY DEF IInv, TypeOK, RunningListens, AcceptedByRegistered
  <1>3. /\ running' \subseteq registered
        /\ chains' \in [Names -> Nat] /\ starts' \in [Names -> Nat]
        /\ \A n \in Names : /\ n \in running' => chains'[n] > 0
                            /\ chains'[n] <= starts'[n]
                            /\ chains'[n] > 0 => n \in registered
    <2>1. CASE StartListening
      <3>1. /\ running' = registered
            /\ chains' = [n \in Names |-> IF n \in registered \ running
                                          THEN chains[n] + 1 ELSE chains[n]]
            /\ starts' = [n \in Names |-> IF n \in registered \ running
                                          THEN starts[n] + 1 ELSE starts[n]]
        BY <2>1 DEF StartListening
      <3> QED BY <1>2, <3>1
    <2>2. CASE StopListening
      BY <1>2, <2>2 DEF StopListening
    <2>3. ASSUME NEW m \in Names, AcceptFails(m)
          PROVE  <1>3!:
      BY <1>2, <2>3 DEF AcceptFails, Relisten
    <2> QED BY <2>1, <2>2, <2>3
  <1>4. TypeOK'
    BY <1>1, <1>3 DEF IInv, TypeOK
  <1>5. RunningListens' /\ AcceptedByRegistered'
    BY <1>1, <1>3 DEF IInv, RunningListens, AcceptedByRegistered
  <1>6. /\ IdsInOrder' /\ OnlyTelnetStarts' /\ PendingHoldsAll'
        /\ ReadyAreListed' /\ ListedAreReady'
    BY <1>1 DEF IInv, IdsInOrder, OnlyTelnetStarts, PendingHoldsAll,
       ReadyAreListed, ListedAreReady
  <1> QED BY <1>4, <1>5, <1>6 DEF IInv

(* An accept: the new connection has the id of its number, which no other  *)
(* has until the ids wrap around.                                          *)
LEMMA AcceptInvariant ==
  ASSUME IInv, NEW n \in Names, Accept(n)
  PROVE  IInv'
  <1> DEFINE stage == IF n \in secure THEN "handshake" ELSE AfterPlainConnect(n)
             new == [id |-> nextId, listener |-> n, stage |-> stage]
             count == Len(objects)
  <1>1. /\ addresses' = addresses /\ registered' = registered
        /\ websocket' = websocket /\ secure' = secure
        /\ running' = running /\ starts' = starts
        /\ connections' = connections /\ gone' = gone /\ up' \in BOOLEAN
        /\ objects' = Append(objects, new)
        /\ pending' = [pending EXCEPT ![nextId] = count + 1]
        /\ nextId' = (nextId + 1) % IdCount
        /\ chains[n] > 0
        /\ chains' = IF n \in running THEN chains
                                       ELSE [chains EXCEPT ![n] = @ - 1]
    BY DEF Accept, Create, Relisten, listenerVars
  <1>2. /\ stage \in Stage /\ stage # "ready"
        /\ stage = "started" => n \notin websocket
    BY DEF AfterPlainConnect, Stage
  <1>3. nextId \in Id /\ nextId \in Nat /\ IdCount \in Nat \ {0}
    BY BoundsAssumption DEF IInv, TypeOK, Id
  <1> HIDE DEF stage
  <1>4. new \in Object
    BY <1>2, <1>3 DEF Object
  <1>5. /\ new.id = nextId /\ new.listener = n /\ new.stage = stage
    OBVIOUS
  <1> HIDE DEF new
  <1>6. /\ objects' \in Seq(Object)
        /\ count \in Nat /\ Len(objects') = count + 1
        /\ DOMAIN objects = 1 .. count
        /\ DOMAIN objects' = 1 .. count + 1
        /\ \A i \in 1 .. count : objects'[i] = objects[i]
        /\ objects'[count + 1] = new
    BY <1>1, <1>4, AppendObject DEF IInv
  <1>7. /\ nextId' \in Id
        /\ nextId + 1 < IdCount => nextId' = nextId + 1
    BY <1>1, <1>3 DEF Id
  <1>8. /\ chains' \in [Names -> Nat]
        /\ \A m \in Names : /\ m \in running => chains'[m] > 0
                            /\ chains'[m] <= chains[m]
    BY <1>1 DEF IInv, TypeOK, RunningListens
  <1> HIDE DEF count
  <1>9. /\ pending \in [Id -> 0 .. count] /\ connections \in [Id -> 0 .. count]
    BY DEF IInv, TypeOK, count
  <1>10. TypeOK'
    <2>1. pending' \in [Id -> 0 .. count + 1]
      BY <1>1, <1>3, <1>6, <1>9
    <2>2. connections' \in [Id -> 0 .. count + 1]
      BY <1>1, <1>6, <1>9
    <2> QED BY <1>1, <1>6, <1>7, <1>8, <2>1, <2>2 DEF IInv, TypeOK
  <1>11. RunningListens'
    <2>1. \A m \in Names : chains[m] <= starts[m] /\ chains[m] \in Nat
                          /\ starts[m] \in Nat
      BY DEF IInv, TypeOK, RunningListens
    <2> QED BY <1>1, <1>8, <2>1 DEF RunningListens
  <1>12. IdsInOrder'
    <2>1. /\ count < IdCount => nextId = count
          /\ count <= IdCount =>
               \A i \in 1 .. count : objects[i].id = i - 1
      BY <1>6 DEF IInv, IdsInOrder, count
    <2>2. count + 1 < IdCount => nextId' = count + 1
      BY <1>3, <1>6, <1>7, <2>1
    <2>3. ASSUME count + 1 <= IdCount, NEW i \in 1 .. count + 1
          PROVE  objects'[i].id = i - 1
      BY <1>3, <1>5, <1>6, <2>1, <2>3
    <2> QED BY <1>6, <2>2, <2>3 DEF IdsInOrder
  <1>13. OnlyTelnetStarts'
    BY <1>1, <1>2, <1>5, <1>6 DEF IInv, OnlyTelnetStarts
  <1>14. AcceptedByRegistered'
    <2>1. n \in registered
      BY <1>1 DEF IInv, AcceptedByRegistered
    <2>2. \A m \in Names : chains'[m] > 0 => chains[m] > 0
      BY <1>8 DEF IInv, TypeOK
    <2> QED BY <1>1, <1>5, <1>6, <2>1, <2>2 DEF IInv, AcceptedByRegistered
  (* An id below the number of connections so far is not given out again   *)
  (* before the ids wrap around.                                           *)
  <1>15. ASSUME count + 1 <= IdCount
         PROVE  /\ nextId = count
                /\ \A i \in 1 .. count : /\ objects[i].id = i - 1
                                        /\ objects[i].id # nextId
                                        /\ objects[i].id \in Id
    <2>1. count < IdCount /\ count <= IdCount
      BY <1>3, <1>6, <1>15
    <2>2. nextId = count /\ \A i \in 1 .. count : objects[i].id = i - 1
      BY <1>6, <2>1 DEF IInv, IdsInOrder, count
    <2> QED BY <1>3, <1>6, <2>1, <2>2 DEF Id
  <1>16. PendingHoldsAll'
    <2> SUFFICES ASSUME count + 1 <= IdCount, NEW i \in 1 .. count + 1
                 PROVE  pending'[objects'[i].id] = i
      BY <1>6 DEF PendingHoldsAll
    <2>1. CASE i \in 1 .. count
      <3>1. pending[objects[i].id] = i
        BY <1>3, <1>6, <2>1 DEF IInv, PendingHoldsAll, count
      <3> QED BY <1>1, <1>6, <1>9, <1>15, <2>1, <3>1
    <2>2. CASE i = count + 1
      BY <1>1, <1>3, <1>5, <1>6, <1>9, <2>2
    <2> QED BY <1>6, <2>1, <2>2
  <1>17. ReadyAreListed'
    <2> SUFFICES ASSUME count + 1 <= IdCount, NEW i \in 1 .. count + 1
                 PROVE  objects'[i].stage = "ready"
                          <=> connections[objects'[i].id] = i
      BY <1>1, <1>6 DEF ReadyAreListed
    <2>1. CASE i \in 1 .. count
      BY <1>3, <1>6, <2>1 DEF IInv, ReadyAreListed, count
    <2>2. CASE i = count + 1
      <3>1. connections[nextId] # i
        BY <1>3, <1>6, <1>9, <2>2
      <3> QED BY <1>2, <1>5, <1>6, <2>2, <3>1
    <2> QED BY <1>6, <2>1, <2>2
  <1>18. ListedAreReady'
    <2> SUFFICES ASSUME NEW id \in Id, connections[id] # 0
                 PROVE  LET i == connections[id]
                        IN  /\ objects'[i].id = id
                            /\ objects'[i].stage = "ready"
                            /\ objects'[i].listener \notin websocket
      BY <1>1 DEF ListedAreReady
    <2>1. connections[id] \in 1 .. count
      BY <1>6, <1>9
    <2> QED BY <1>6, <2>1 DEF IInv, ListedAreReady
  <1> QED BY <1>10, <1>11, <1>12, <1>13, <1>14, <1>16, <1>17, <1>18 DEF IInv

(* A handshake or an upgrade ends.                                         *)
LEMMA ConnectInvariant ==
  ASSUME IInv, NEW k \in DOMAIN objects, HandshakeEnds(k) \/ UpgradeEnds(k)
  PROVE  IInv'
  <1>1. /\ addresses' = addresses /\ registered' = registered
        /\ websocket' = websocket /\ secure' = secure
        /\ running' = running /\ chains' = chains /\ starts' = starts
        /\ nextId' = nextId /\ pending' = pending
        /\ connections' = connections /\ gone' = gone /\ up' = up
    BY DEF HandshakeEnds, UpgradeEnds, listenerVars, acceptVars
  <1>2. PICK stage \in Stage \ {"ready"} :
          /\ Move(k, stage)
          /\ stage = "started" => objects[k].listener \notin websocket
    BY DEF HandshakeEnds, UpgradeEnds, AfterPlainConnect, Stage
  <1>3. objects[k].stage # "ready"
    BY DEF HandshakeEnds, UpgradeEnds
  <1>4. /\ objects' \in Seq(Object)
        /\ Len(objects') = Len(objects)
        /\ DOMAIN objects' = DOMAIN objects
        /\ \A i \in DOMAIN objects :
             /\ objects'[i].id = objects[i].id
             /\ objects'[i].listener = objects[i].listener
             /\ objects'[i].stage = IF i = k THEN stage ELSE objects[i].stage
    BY <1>2, MoveObject DEF IInv
  <1>5. TypeOK'
    BY <1>1, <1>4 DEF IInv, TypeOK
  <1>6. RunningListens' /\ IdsInOrder' /\ AcceptedByRegistered' /\ PendingHoldsAll'
    BY <1>1, <1>4 DEF IInv, RunningListens, IdsInOrder, AcceptedByRegistered,
       PendingHoldsAll
  <1>7. OnlyTelnetStarts'
    BY <1>1, <1>2, <1>4 DEF IInv, OnlyTelnetStarts
  <1>8. ReadyAreListed'
    BY <1>1, <1>2, <1>3, <1>4 DEF IInv, ReadyAreListed
  <1>9. ListedAreReady'
    <2> SUFFICES ASSUME NEW id \in Id, connections[id] # 0
                 PROVE  LET i == connections[id]
                        IN  /\ objects'[i].id = id
                            /\ objects'[i].stage = "ready"
                            /\ objects'[i].listener \notin websocket
      BY <1>1 DEF ListedAreReady
    <2>1. connections[id] \in DOMAIN objects
      BY LenProperties DEF IInv, TypeOK
    <2>2. connections[id] # k
      BY <1>3 DEF IInv, ListedAreReady
    <2> QED BY <1>4, <2>1, <2>2 DEF IInv, ListedAreReady
  <1> QED BY <1>5, <1>6, <1>7, <1>8, <1>9 DEF IInv

(* A connection becomes ready and takes the entry of its id.               *)
LEMMA TimerInvariant ==
  ASSUME IInv, NEW k \in DOMAIN objects, TimerFires(k)
  PROVE  IInv'
  <1>1. /\ addresses' = addresses /\ registered' = registered
        /\ websocket' = websocket /\ secure' = secure
        /\ running' = running /\ chains' = chains /\ starts' = starts
        /\ nextId' = nextId /\ pending' = pending /\ gone' = gone
        /\ up' = up
        /\ connections' = [connections EXCEPT ![objects[k].id] = k]
        /\ objects[k].stage = "started"
        /\ Move(k, "ready")
    BY DEF TimerFires, listenerVars, acceptVars
  <1>2. /\ objects' \in Seq(Object)
        /\ Len(objects') = Len(objects)
        /\ DOMAIN objects' = DOMAIN objects
        /\ \A i \in DOMAIN objects :
             /\ objects'[i].id = objects[i].id
             /\ objects'[i].listener = objects[i].listener
             /\ objects'[i].stage = IF i = k THEN "ready" ELSE objects[i].stage
    BY <1>1, MoveObject DEF IInv, Stage
  <1>3. /\ Len(objects) \in Nat /\ DOMAIN objects = 1 .. Len(objects)
        /\ \A i \in DOMAIN objects : objects[i].id \in Id
        /\ connections \in [Id -> 0 .. Len(objects)]
    <2>1. objects \in Seq(Object)
      BY DEF IInv, TypeOK
    <2>2. Len(objects) \in Nat /\ DOMAIN objects = 1 .. Len(objects)
      BY <2>1, LenProperties
    <2>3. \A i \in DOMAIN objects : objects[i] \in Object
      BY <2>1, <2>2, ElementOfSeq
    <2> QED BY <2>2, <2>3 DEF IInv, TypeOK, Object
  <1>4. /\ connections' \in [Id -> 0 .. Len(objects)]
        /\ \A id \in Id : connections'[id]
                           = IF id = objects[k].id THEN k ELSE connections[id]
    BY <1>1, <1>3
  <1>5. TypeOK'
    BY <1>1, <1>2, <1>4 DEF IInv, TypeOK
  <1>6. RunningListens' /\ IdsInOrder' /\ AcceptedByRegistered' /\ PendingHoldsAll'
    BY <1>1, <1>2 DEF IInv, RunningListens, IdsInOrder, AcceptedByRegistered,
       PendingHoldsAll
  <1>7. OnlyTelnetStarts'
    BY <1>1, <1>2 DEF IInv, OnlyTelnetStarts
  <1>8. ReadyAreListed'
    <2> SUFFICES ASSUME Len(objects) <= IdCount, NEW i \in DOMAIN objects
                 PROVE  objects'[i].stage = "ready"
                          <=> connections'[objects[i].id] = i
      BY <1>2 DEF ReadyAreListed
    <2>1. CASE i = k
      BY <1>2, <1>3, <1>4, <2>1
    <2>2. CASE i # k
      <3>1. objects[i].id # objects[k].id
        BY <1>3, <2>2 DEF IInv, PendingHoldsAll
      <3> QED BY <1>2, <1>3, <1>4, <2>2, <3>1 DEF IInv, ReadyAreListed
    <2> QED BY <2>1, <2>2
  <1>9. ListedAreReady'
    <2> SUFFICES ASSUME NEW id \in Id, connections'[id] # 0
                 PROVE  LET i == connections'[id]
                        IN  /\ objects'[i].id = id
                            /\ objects'[i].stage = "ready"
                            /\ objects'[i].listener \notin websocket
      BY <1>1 DEF ListedAreReady
    <2>1. CASE id = objects[k].id
      BY <1>1, <1>2, <1>4, <2>1 DEF IInv, OnlyTelnetStarts
    <2>2. CASE id # objects[k].id
      <3>1. connections'[id] = connections[id] /\ connections[id] \in DOMAIN objects
        BY <1>3, <1>4, <2>2
      <3> QED BY <1>2, <3>1 DEF IInv, ListedAreReady
    <2> QED BY <2>1, <2>2
  <1> QED BY <1>5, <1>6, <1>7, <1>8, <1>9 DEF IInv

(* A client hangs up, or its subnegotiation takes the thread.              *)
LEMMA ClientInvariant ==
  ASSUME IInv, NEW k \in DOMAIN objects,
         ReadFails(k) \/ SubnegotiationArrives(k)
  PROVE  IInv'
  <1>1. /\ addresses' = addresses /\ registered' = registered
        /\ websocket' = websocket /\ secure' = secure
        /\ running' = running /\ chains' = chains /\ starts' = starts
        /\ nextId' = nextId /\ objects' = objects /\ pending' = pending
        /\ connections' = connections
    BY DEF ReadFails, SubnegotiationArrives, listenerVars, acceptVars,
       objectVars
  <1>2. up' \in BOOLEAN /\ gone' \subseteq DOMAIN objects
    BY DEF ReadFails, SubnegotiationArrives, IInv, TypeOK
  <1>3. TypeOK'
    BY <1>1, <1>2 DEF IInv, TypeOK
  <1>4. /\ RunningListens' /\ IdsInOrder' /\ OnlyTelnetStarts'
        /\ AcceptedByRegistered' /\ PendingHoldsAll' /\ ReadyAreListed'
        /\ ListedAreReady'
    BY <1>1 DEF IInv, RunningListens, IdsInOrder, OnlyTelnetStarts,
       AcceptedByRegistered, PendingHoldsAll, ReadyAreListed, ListedAreReady
  <1> QED BY <1>3, <1>4 DEF IInv

-----------------------------------------------------------------------------
LEMMA StepInvariant == IInv /\ [Next]_vars => IInv'
  <1> SUFFICES ASSUME IInv, [Next]_vars PROVE IInv'
    OBVIOUS
  <1>1. CASE UNCHANGED vars
    BY <1>1 DEF vars, listenerVars, acceptVars, objectVars, IInv, TypeOK,
       RunningListens, IdsInOrder, OnlyTelnetStarts, AcceptedByRegistered,
       PendingHoldsAll, ReadyAreListed, ListedAreReady
  <1>2. CASE Program
    BY <1>2, RegisterInvariant, ChainInvariant DEF Program
  <1>3. CASE Handlers
    <2>1. ASSUME NEW n \in Names, Accept(n) PROVE IInv'
      BY <2>1, AcceptInvariant
    <2>2. ASSUME NEW n \in Names, AcceptFails(n) PROVE IInv'
      BY <2>2, ChainInvariant
    <2>3. ASSUME NEW i \in DOMAIN objects, HandshakeEnds(i) \/ UpgradeEnds(i)
          PROVE  IInv'
      BY <2>3, ConnectInvariant
    <2>4. ASSUME NEW i \in DOMAIN objects, TimerFires(i) PROVE IInv'
      BY <2>4, TimerInvariant
    <2>5. ASSUME NEW i \in DOMAIN objects,
                 ReadFails(i) \/ SubnegotiationArrives(i)
          PROVE  IInv'
      BY <2>5, ClientInvariant
    <2> QED BY <1>3, <2>1, <2>2, <2>3, <2>4, <2>5 DEF Handlers
  <1> QED BY <1>1, <1>2, <1>3 DEF Next

THEOREM Invariance == Spec => []IInv
  BY InitInvariant, StepInvariant, PTL DEF Spec

(* Every variable of the manager keeps its type.                           *)
THEOREM TypeCorrect == Spec => []TypeOK
  <1>1. IInv => TypeOK
    BY DEF IInv
  <1> QED BY <1>1, Invariance, PTL

(* A running listener always has an accept outstanding.                    *)
THEOREM ListenersListen == Spec => []RunningListens
  <1>1. IInv => RunningListens
    BY DEF IInv
  <1> QED BY <1>1, Invariance, PTL

(* pending loses no connection before the ids wrap around.                 *)
THEOREM PendingIsComplete == Spec => []PendingHoldsAll
  <1>1. IInv => PendingHoldsAll
    BY DEF IInv
  <1> QED BY <1>1, Invariance, PTL

(* Until then connections lists those that are ready and no others.        *)
THEOREM ListIsExact == Spec => []ReadyAreListed
  <1>1. IInv => ReadyAreListed
    BY DEF IInv
  <1> QED BY <1>1, Invariance, PTL

(* And for ever it lists only ready telnet connections under their ids.    *)
THEOREM ListIsSound == Spec => []ListedAreReady
  <1>1. IInv => ListedAreReady
    BY DEF IInv
  <1> QED BY <1>1, Invariance, PTL

(* A stopped listener pays for every connection with an accept.            *)
THEOREM StopTakesEffect == Spec => StoppedListenerRunsOut
  <1> DEFINE Paid ==
        \A n \in Names \ running :
          Len(objects') > Len(objects) /\ objects'[Len(objects')].listener = n
            => chains'[n] < chains[n]
  <1>1. IInv /\ [Next]_vars => [Paid]_vars
    <2> SUFFICES ASSUME IInv, Next, NEW n \in Names \ running,
                        Len(objects') > Len(objects),
                        objects'[Len(objects')].listener = n
                 PROVE  chains'[n] < chains[n]
      OBVIOUS
    <2>1. Len(objects) \in Nat /\ TypeOK
      BY LenProperties DEF IInv, TypeOK
    <2>2. objects' # objects
      BY <2>1
    <2>3. ASSUME NEW i \in DOMAIN objects,
                 HandshakeEnds(i) \/ UpgradeEnds(i) \/ TimerFires(i)
          PROVE  FALSE
      <3>1. PICK stage \in Stage : Move(i, stage)
        BY <2>3 DEF HandshakeEnds, UpgradeEnds, TimerFires, AfterPlainConnect,
           Stage
      <3> QED BY <2>1, <3>1, MoveObject
    <2>4. PICK m \in Names : Accept(m)
      BY <2>2, <2>3 DEF Next, Program, Handlers, RegisterAddress,
         RegisterListener, StartListening, StopListening, AcceptFails,
         ReadFails, SubnegotiationArrives, objectVars
    <2>5. /\ \E x \in Object : objects' = Append(objects, x) /\ x.listener = m
          /\ m \notin running => chains' = [chains EXCEPT ![m] = @ - 1]
      <3>1. nextId \in Id
        BY DEF IInv, TypeOK
      <3>2. (IF m \in secure THEN "handshake" ELSE AfterPlainConnect(m)) \in Stage
        BY DEF AfterPlainConnect, Stage
      <3> QED BY <2>4, <3>1, <3>2 DEF Accept, Create, Relisten, Object
    <2>6. m = n
      BY <2>1, <2>5, AppendObject
    <2> QED BY <2>1, <2>5, <2>6 DEF TypeOK
  <1> QED BY <1>1, Invariance, PTL DEF Spec, StoppedListenerRunsOut

-----------------------------------------------------------------------------
(* The manager as Readiness sees it.                                       *)

(* No more connections are created than Readiness speaks of.               *)
WithinBound == Len(objects) <= MaxAccepts

LEMMA BoundKept == IInv /\ WithinBound /\ [Next]_vars => WithinBound'
  <1> SUFFICES ASSUME IInv, WithinBound, [Next]_vars PROVE WithinBound'
    OBVIOUS
  <1>1. objects \in Seq(Object) /\ Len(objects) \in Nat /\ TypeOK
    BY LenProperties DEF IInv, TypeOK
  <1>2. CASE objects' = objects
    BY <1>2 DEF WithinBound
  <1>3. ASSUME NEW n \in Names, Accept(n) PROVE WithinBound'
    <2>1. PICK x : objects' = Append(objects, x) /\ x \in Object
      <3>1. nextId \in Id
        BY DEF IInv, TypeOK
      <3>2. (IF n \in secure THEN "handshake" ELSE AfterPlainConnect(n)) \in Stage
        BY DEF AfterPlainConnect, Stage
      <3> QED BY <1>3, <3>1, <3>2 DEF Accept, Create, Object
    <2>2. Len(objects') = Len(objects) + 1
      BY <1>1, <2>1, AppendObject
    <2> QED BY <1>1, <1>3, <2>2, BoundsAssumption DEF Accept, WithinBound
  <1>4. ASSUME NEW i \in DOMAIN objects,
               HandshakeEnds(i) \/ UpgradeEnds(i) \/ TimerFires(i)
        PROVE  WithinBound'
    <2>1. PICK stage \in Stage : Move(i, stage)
      BY <1>4 DEF HandshakeEnds, UpgradeEnds, TimerFires, AfterPlainConnect,
         Stage
    <2> QED BY <1>1, <2>1, MoveObject DEF WithinBound
  <1> QED BY <1>2, <1>3, <1>4 DEF Next, Program, Handlers, RegisterAddress,
          RegisterListener, StartListening, StopListening, AcceptFails,
          ReadFails, SubnegotiationArrives, objectVars, vars

Told(i) == IF InStage(i, "ready") THEN 1 ELSE 0

(* Where a connection is depends on up and its own stage.                  *)
LEMMA Unmoved ==
  ASSUME NEW i, up' = up,
         InStage(i, "started")' <=> InStage(i, "started"),
         InStage(i, "ready")' <=> InStage(i, "ready")
  PROVE  Phase(i)' = Phase(i) /\ Told(i)' = Told(i)
  BY DEF Phase, Told

LEMMA Stutter ==
  ASSUME \A i \in 1 .. MaxAccepts : Phase(i)' = Phase(i) /\ Told(i)' = Told(i)
  PROVE  UNCHANGED Promised!vars
  BY DEF Promised!vars, Told

LEMMA ThreadLost ==
  ASSUME ~up', \A i \in 1 .. MaxAccepts : Told(i)' = Told(i)
  PROVE  Promised!Lose
  <1>1. \A i \in 1 .. MaxAccepts : Phase(i)' = "lost"
    BY DEF Phase
  <1> QED BY <1>1 DEF Promised!Lose, Told

LEMMA OneSetUp ==
  ASSUME NEW k \in 1 .. MaxAccepts, Phase(k) = "new", Phase(k)' = "waiting",
         \A i \in 1 .. MaxAccepts :
           Told(i)' = Told(i) /\ (i # k => Phase(i)' = Phase(i))
  PROVE  Promised!SetUp(k)
  BY DEF Promised!SetUp, Told

LEMMA OneHandedOver ==
  ASSUME NEW k \in 1 .. MaxAccepts, Phase(k) = "waiting", Phase(k)' = "ready",
         Told(k) = 0, Told(k)' = 1,
         \A i \in 1 .. MaxAccepts \ {k} :
           Phase(i)' = Phase(i) /\ Told(i)' = Told(i)
  PROVE  Promised!HandOver(k)
  <1>1. \A i \in 1 .. MaxAccepts :
          /\ Phase(i)' = IF i = k THEN "ready" ELSE Phase(i)
          /\ Told(i)' = IF i = k THEN Told(k) + 1 ELSE Told(i)
    OBVIOUS
  <1>2. [i \in 1 .. MaxAccepts |-> Phase(i)]'
          = [[i \in 1 .. MaxAccepts |-> Phase(i)] EXCEPT ![k] = "ready"]
    BY <1>1
  <1>3. [i \in 1 .. MaxAccepts |-> Told(i)]'
          = [[i \in 1 .. MaxAccepts |-> Told(i)] EXCEPT ![k] = Told(k) + 1]
    BY <1>1
  <1>4. [i \in 1 .. MaxAccepts |-> Told(i)][k] = Told(k)
    OBVIOUS
  <1> QED BY <1>2, <1>3, <1>4 DEF Promised!HandOver, Told

LEMMA StepOfReadiness ==
  ASSUME IInv, WithinBound, [Next]_vars
  PROVE  [Promised!Next]_Promised!vars
  <1> DEFINE Keeps(i) == /\ InStage(i, "started")' <=> InStage(i, "started")
                         /\ InStage(i, "ready")' <=> InStage(i, "ready")
  <1>1. /\ TypeOK /\ objects \in Seq(Object) /\ Len(objects) \in Nat
        /\ DOMAIN objects = 1 .. Len(objects) /\ MaxAccepts \in Nat
        /\ Len(objects) <= MaxAccepts
    BY LenProperties, BoundsAssumption DEF IInv, TypeOK, WithinBound
  <1>2. CASE objects' = objects /\ up' = up
    <2>1. \A i : Keeps(i)
      BY <1>2 DEF InStage
    <2> QED BY <1>2, <2>1, Unmoved, Stutter
  <1>3. CASE objects' = objects /\ ~up'
    <2>1. \A i : Told(i)' = Told(i)
      BY <1>3 DEF InStage, Told
    <2> QED BY <1>3, <2>1, ThreadLost DEF Promised!Next
  <1>4. ASSUME NEW n \in Names, Accept(n)
        PROVE  [Promised!Next]_Promised!vars
    <2> DEFINE stage == IF n \in secure THEN "handshake"
                                         ELSE AfterPlainConnect(n)
    <2>0. PICK k \in Nat : k = Len(objects) + 1
      BY <1>1
    <2>1. PICK x : objects' = Append(objects, x) /\ x \in Object /\ x.stage = stage
      <3>1. nextId \in Id
        BY DEF IInv, TypeOK
      <3>2. stage \in Stage
        BY DEF AfterPlainConnect, Stage
      <3> QED BY <1>4, <3>1, <3>2 DEF Accept, Create, Object
    <2>2. /\ DOMAIN objects' = 1 .. k
          /\ \A i \in 1 .. Len(objects) : objects'[i] = objects[i]
          /\ objects'[k] = x
      BY <1>1, <2>0, <2>1, AppendObject
    <2>3. k \in 1 .. MaxAccepts /\ k \notin DOMAIN objects
      BY <1>1, <1>4, <2>0 DEF Accept
    <2>4. \A i \in 1 .. MaxAccepts : i # k => Keeps(i)
      BY <1>1, <2>0, <2>2 DEF InStage
    <2>5. stage # "ready" /\ up
      BY <1>4 DEF AfterPlainConnect, Accept
    <2>6. ~InStage(k, "ready")' /\ ~InStage(k, "ready") /\ ~InStage(k, "started")
      BY <2>1, <2>2, <2>3, <2>5 DEF InStage
    <2>7. \A i \in 1 .. MaxAccepts : Told(i)' = Told(i)
      BY <2>4, <2>6 DEF Told
    <2>8. CASE ~up'
      BY <2>7, <2>8, ThreadLost DEF Promised!Next
    <2>9. CASE up' /\ stage = "started"
      <3>1. InStage(k, "started")'
        BY <2>0, <2>1, <2>2, <2>9 DEF InStage
      <3>2. Phase(k) = "new" /\ Phase(k)' = "waiting"
        BY <2>5, <2>6, <2>9, <3>1 DEF Phase
      <3>3. \A i \in 1 .. MaxAccepts : i # k => Phase(i)' = Phase(i)
        BY <2>4, <2>5, <2>9 DEF Phase
      <3> QED BY <2>3, <2>7, <3>2, <3>3, OneSetUp DEF Promised!Next
    <2>10. CASE up' /\ stage # "started"
      <3>1. ~InStage(k, "started")'
        BY <2>1, <2>2, <2>10 DEF InStage
      <3>2. \A i \in 1 .. MaxAccepts : Phase(i)' = Phase(i)
        BY <2>4, <2>5, <2>6, <2>10, <3>1 DEF Phase
      <3> QED BY <2>7, <3>2, Stutter
    <2> QED BY <1>1, <1>4, <2>8, <2>9, <2>10 DEF Accept
  <1>5. ASSUME NEW k \in DOMAIN objects,
               HandshakeEnds(k) \/ UpgradeEnds(k) \/ TimerFires(k)
        PROVE  [Promised!Next]_Promised!vars
    <2>1. PICK stage \in Stage :
            /\ Move(k, stage)
            /\ \/ /\ objects[k].stage \in {"handshake", "upgrade"}
                  /\ stage # "ready"
               \/ objects[k].stage = "started" /\ stage = "ready"
      BY <1>5 DEF HandshakeEnds, UpgradeEnds, TimerFires, AfterPlainConnect,
         Stage
    <2>2. /\ DOMAIN objects' = DOMAIN objects
          /\ \A i \in DOMAIN objects :
               objects'[i].stage = IF i = k THEN stage ELSE objects[i].stage
      BY <1>1, <2>1, MoveObject
    <2>3. up /\ up' = up /\ k \in 1 .. MaxAccepts
      BY <1>1, <1>5 DEF HandshakeEnds, UpgradeEnds, TimerFires
    <2>4. \A i \in 1 .. MaxAccepts : i # k => Keeps(i)
      BY <2>2 DEF InStage
    <2>5. \A i \in 1 .. MaxAccepts :
            i # k => Phase(i)' = Phase(i) /\ Told(i)' = Told(i)
      BY <2>3, <2>4, Unmoved
    <2>7. /\ InStage(k, "started") <=> objects[k].stage = "started"
          /\ InStage(k, "ready") <=> objects[k].stage = "ready"
          /\ InStage(k, "started")' <=> stage = "started"
          /\ InStage(k, "ready")' <=> stage = "ready"
      BY <2>2 DEF InStage
    <2>8. CASE objects[k].stage = "started"
      <3>1. Phase(k) = "waiting" /\ Phase(k)' = "ready"
        BY <2>1, <2>3, <2>7, <2>8 DEF Phase
      <3>2. Told(k) = 0 /\ Told(k)' = 1
        BY <2>1, <2>7, <2>8 DEF Told
      <3> QED BY <2>3, <2>5, <3>1, <3>2, OneHandedOver DEF Promised!Next
    <2>9. CASE objects[k].stage # "started" /\ stage = "started"
      <3>1. Phase(k) = "new" /\ Phase(k)' = "waiting" /\ Told(k)' = Told(k)
        BY <2>1, <2>3, <2>7, <2>9 DEF Phase, Told
      <3> QED BY <2>3, <2>5, <3>1, OneSetUp DEF Promised!Next
    <2>10. CASE objects[k].stage # "started" /\ stage # "started"
      <3>1. Phase(k)' = Phase(k) /\ Told(k)' = Told(k)
        BY <2>1, <2>3, <2>7, <2>10 DEF Phase, Told
      <3> QED BY <2>5, <3>1, Stutter
    <2> QED BY <2>8, <2>9, <2>10
  <1>6. CASE UNCHANGED vars
    BY <1>2, <1>6 DEF vars, objectVars
  <1>7. CASE Program
    BY <1>2, <1>7 DEF Program, RegisterAddress, RegisterListener,
       StartListening, StopListening, objectVars
  <1>8. CASE Handlers
    <2>1. ASSUME NEW n \in Names, AcceptFails(n)
          PROVE  objects' = objects /\ up' = up
      BY <2>1 DEF AcceptFails, objectVars
    <2>2. ASSUME NEW i \in DOMAIN objects,
                 ReadFails(i) \/ SubnegotiationArrives(i)
          PROVE  objects' = objects /\ (up' = up \/ ~up')
      BY <2>2 DEF ReadFails, SubnegotiationArrives, objectVars
    <2> QED BY <1>2, <1>3, <1>4, <1>5, <1>8, <2>1, <2>2 DEF Handlers
  <1> QED BY <1>6, <1>7, <1>8 DEF Next

(* Whatever clients and listeners do, a connection is handed over once     *)
(* only, after it was set up, and not at all once the thread is lost: the  *)
(* manager takes the steps Readiness allows and no others.                 *)
THEOREM HandedOverAsPromised ==
  Spec => Promised!Init /\ [][Promised!Next]_Promised!vars
  <1>1. Init => WithinBound
    BY BoundsAssumption, EmptySeq DEF Init, WithinBound
  <1>2. Init => Promised!Init
    BY DEF Init, Promised!Init, Phase, InStage
  <1>3. Spec => []WithinBound
    BY <1>1, BoundKept, Invariance, PTL DEF Spec
  <1>4. IInv /\ WithinBound /\ [Next]_vars => [Promised!Next]_Promised!vars
    BY StepOfReadiness
  <1> QED BY <1>2, <1>3, <1>4, Invariance, PTL DEF Spec

=============================================================================
