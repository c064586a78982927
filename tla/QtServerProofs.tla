--------------------------- MODULE QtServerProofs ----------------------------
(***************************************************************************)
(* Safety of the Qt server for any names and ports, and any number of      *)
(* listeners and sockets.                                                  *)
(***************************************************************************)
EXTENDS QtServer, SequenceTheorems, FiniteSetTheorems, TLAPS

-----------------------------------------------------------------------------
(* The inductive invariant.                                                *)

(* A listener is only in the table under the name it was given.            *)
ListedUnderOwnName ==
  \A n \in Names : listeners[n] # 0 => made[listeners[n]].name = n

(* telnetReady is never emitted.                                           *)
NothingAccepted == \A n \in Names : connections[n] = 0

(* What was halted is paused.                                              *)
HaltedPaused == \A i \in halted : made[i].server = "paused"

WithinBounds == Len(made) <= MaxListeners

(* A socket in the set has no connection, and any other one has one; what  *)
(* is still encrypting is in the set and what is done is not.              *)
Handed(socks, pending, cs) ==
  \A s \in DOMAIN socks :
    /\ s \in pending => \A c \in DOMAIN cs : cs[c] # s
    /\ s \notin pending =>
         \E c \in DOMAIN cs : \A d \in DOMAIN cs : cs[d] = s <=> d = c
    /\ socks[s].is = "encrypting" => s \in pending
    /\ socks[s].is \in {"plain", "encrypted"} => s \notin pending

IInv ==
  /\ TypeOK
  /\ WithinBounds
  /\ ListedUnderOwnName
  /\ NothingAccepted
  /\ HaltedPaused
  /\ Handed(sockets, pending_ssl, conns)
  /\ DeletedOnce

-----------------------------------------------------------------------------
LEMMA InitInvariant == Init => IInv
  <1> SUFFICES ASSUME Init PROVE IInv
    OBVIOUS
  <1>1. << >> \in Seq(Listener) /\ << >> \in Seq(Socket) /\ << >> \in Seq(Nat)
        /\ Len(<< >>) = 0
    BY EmptySeq
  <1>2. DOMAIN << >> = {}
    OBVIOUS
  <1>3. conns \in Seq(DOMAIN sockets)
    BY EmptySeq DEF Init
  <1>4. TypeOK
    BY <1>1, <1>2, <1>3 DEF Init, TypeOK
  <1>5. WithinBounds
    BY <1>1, ServerBounds DEF Init, WithinBounds
  <1>6. Handed(sockets, pending_ssl, conns)
    BY <1>2 DEF Init, Handed
  <1> QED BY <1>4, <1>5, <1>6 DEF Init, IInv, ListedUnderOwnName,
          NothingAccepted, HaltedPaused, DeletedOnce

(* What the types say of the sequences.                                    *)
LEMMA Shapes ==
  ASSUME TypeOK
  PROVE  /\ Len(made) \in Nat /\ DOMAIN made = 1 .. Len(made)
         /\ \A i \in DOMAIN made : made[i] \in Listener
         /\ Len(sockets) \in Nat /\ DOMAIN sockets = 1 .. Len(sockets)
         /\ \A s \in DOMAIN sockets : sockets[s] \in Socket
         /\ Len(conns) \in Nat /\ DOMAIN conns = 1 .. Len(conns)
         /\ \A c \in DOMAIN conns : conns[c] \in DOMAIN sockets
  <1>1. made \in Seq(Listener) /\ sockets \in Seq(Socket)
        /\ conns \in Seq(DOMAIN sockets)
    BY DEF TypeOK
  <1> QED BY <1>1, LenProperties, ElementOfSeq

(* Changing the servers of listeners leaves everything else as it was.     *)
WithServers(m, f) == [i \in DOMAIN m |-> [m[i] EXCEPT !.server = f[i]]]

LEMMA ServersChange ==
  ASSUME NEW m \in Seq(Listener), NEW f,
         \A i \in DOMAIN m : f[i] \in {"none", "closed", "listening", "paused"}
  PROVE  /\ WithServers(m, f) \in Seq(Listener)
         /\ Len(WithServers(m, f)) = Len(m)
         /\ DOMAIN WithServers(m, f) = DOMAIN m
         /\ \A i \in DOMAIN m : /\ WithServers(m, f)[i].name = m[i].name
                                /\ WithServers(m, f)[i].server = f[i]
  <1> DEFINE r == WithServers(m, f)
  <1>1. /\ Len(m) \in Nat /\ DOMAIN m = 1 .. Len(m)
        /\ \A i \in DOMAIN m : m[i] \in Listener
    BY LenProperties, ElementOfSeq
  <1>2. ASSUME NEW i \in DOMAIN m
        PROVE  /\ r[i] \in Listener /\ r[i].name = m[i].name
               /\ r[i].server = f[i]
    BY <1>1, <1>2 DEF Listener, WithServers
  <1>3. r = [i \in 1 .. Len(m) |-> r[i]]
    BY <1>1 DEF WithServers
  <1> HIDE DEF r
  <1>4. r \in Seq(Listener) /\ Len(r) = Len(m)
    BY <1>1, <1>2, <1>3, IsASeq
  <1>5. DOMAIN r = DOMAIN m
    BY DEF r, WithServers
  <1> QED BY <1>2, <1>4, <1>5 DEF r

-----------------------------------------------------------------------------
(* One lemma for each group of steps.                                      *)

LEMMA CreateInvariant ==
  ASSUME IInv, NEW n \in Names, NEW port \in Ports, NEW ssl \in BOOLEAN,
         NEW server \in {"none", "closed"}, CreateListener(n, port, ssl, server)
  PROVE  IInv'
  <1> DEFINE new == [name |-> n, port |-> port, ssl |-> ssl, server |-> server]
             count == Len(made)
  <1>1. /\ alive /\ alive' = alive /\ sockets' = sockets
        /\ pending_ssl' = pending_ssl /\ conns' = conns
        /\ connections' = connections /\ deleted' = deleted
        /\ halted' = halted /\ count < MaxListeners
        /\ made' = Append(made, new)
        /\ listeners' = [listeners EXCEPT ![n] = count + 1]
    BY DEF CreateListener, socketVars
  <1>2. new \in Listener /\ new.name = n
    BY DEF Listener
  <1> HIDE DEF new
  <1>3. /\ made \in Seq(Listener) /\ count \in Nat
        /\ DOMAIN made = 1 .. count
    BY Shapes DEF IInv, TypeOK
  <1>4. /\ made' \in Seq(Listener) /\ Len(made') = count + 1
        /\ \A i \in 1 .. count : made'[i] = made[i]
        /\ made'[count + 1] = new
    BY <1>1, <1>2, <1>3, AppendProperties
  <1>5. DOMAIN made' = 1 .. count + 1
    BY <1>4, LenProperties
  <1> HIDE DEF count
  <1>6. listeners \in [Names -> 0 .. count]
    BY DEF IInv, TypeOK, count
  <1>7. /\ listeners' \in [Names -> 0 .. count + 1]
        /\ \A k \in Names : listeners'[k] = IF k = n THEN count + 1
                                                     ELSE listeners[k]
    BY <1>1, <1>3, <1>6
  <1>8. TypeOK'
    <2>1. halted' \subseteq DOMAIN made'
      BY <1>1, <1>3, <1>5 DEF IInv, TypeOK
    <2> QED BY <1>1, <1>4, <1>7, <2>1 DEF IInv, TypeOK
  <1>9. WithinBounds'
    BY <1>1, <1>3, <1>4, ServerBounds DEF WithinBounds
  <1>10. ListedUnderOwnName'
    <2> SUFFICES ASSUME NEW k \in Names, listeners'[k] # 0
                 PROVE  made'[listeners'[k]].name = k
      BY DEF ListedUnderOwnName
    <2>1. CASE k = n
      BY <1>2, <1>4, <1>7, <2>1
    <2>2. CASE k # n
      <3>1. listeners'[k] = listeners[k] /\ listeners[k] \in 1 .. count
        BY <1>3, <1>6, <1>7, <2>2
      <3> QED BY <1>4, <3>1 DEF IInv, ListedUnderOwnName
    <2> QED BY <2>1, <2>2
  <1>11. HaltedPaused'
    BY <1>1, <1>3, <1>4 DEF IInv, TypeOK, HaltedPaused
  <1>12. /\ NothingAccepted' /\ DeletedOnce'
         /\ Handed(sockets', pending_ssl', conns')
    BY <1>1 DEF IInv, NothingAccepted, DeletedOnce
  <1> QED BY <1>8, <1>9, <1>10, <1>11, <1>12 DEF IInv, Handed

(* Servers start or are paused: only their state changes.                  *)
LEMMA ServersInvariant ==
  ASSUME IInv, StartListening \/ StopListening
  PROVE  IInv'
  <1>1. /\ alive /\ alive' = alive /\ sockets' = sockets
        /\ pending_ssl' = pending_ssl /\ conns' = conns
        /\ connections' = connections /\ deleted' = deleted
        /\ listeners' = listeners
    BY DEF StartListening, StopListening, socketVars
  <1>2. made \in Seq(Listener) /\ \A i \in DOMAIN made : made[i] \in Listener
    BY Shapes DEF IInv, TypeOK
  <1>3. PICK f : /\ made' = WithServers(made, f)
                 /\ \A i \in DOMAIN made :
                      f[i] \in {"none", "closed", "listening", "paused"}
                 /\ halted' \subseteq DOMAIN made
                 /\ \A i \in halted' : f[i] = "paused"
    <2>1. CASE StartListening
      <3>1. PICK started \in SUBSET {i \in Listed : CanStart(i)} :
              made' = [i \in DOMAIN made |->
                         [made[i] EXCEPT !.server = IF i \in started
                                                    THEN "listening" ELSE @]]
        BY <2>1 DEF StartListening
      <3>2. halted' = halted /\ halted \subseteq DOMAIN made
        BY <2>1 DEF StartListening, IInv, TypeOK
      <3> DEFINE f == [i \in DOMAIN made |-> IF i \in started
                                             THEN "listening"
                                             ELSE made[i].server]
      <3>3. \A i \in halted : i \notin started /\ made[i].server = "paused"
        BY DEF CanStart, IInv, HaltedPaused
      <3>4. /\ made' = WithServers(made, f)
            /\ \A i \in DOMAIN made :
                 f[i] \in {"none", "closed", "listening", "paused"}
        BY <1>2, <3>1 DEF Listener, WithServers
      <3> QED BY <3>2, <3>3, <3>4
    <2>2. CASE StopListening
      <3> DEFINE f == [i \in DOMAIN made |->
                         IF i \in Listed /\ made[i].server = "listening"
                         THEN "paused" ELSE made[i].server]
      <3>1. made' = WithServers(made, f)
        BY <2>2 DEF StopListening, WithServers
      <3>2. \A i \in DOMAIN made :
              f[i] \in {"none", "closed", "listening", "paused"}
        BY <1>2 DEF Listener
      <3>3. /\ halted' = halted \cup {i \in Listed : made[i].server = "listening"}
            /\ halted \subseteq DOMAIN made /\ Listed \subseteq DOMAIN made
            /\ \A i \in halted : made[i].server = "paused"
        BY <2>2 DEF StopListening, Listed, IInv, TypeOK, HaltedPaused
      <3> QED BY <3>1, <3>2, <3>3
    <2> QED BY <2>1, <2>2
  <1>4. /\ made' \in Seq(Listener) /\ Len(made') = Len(made)
        /\ DOMAIN made' = DOMAIN made
        /\ \A i \in DOMAIN made : /\ made'[i].name = made[i].name
                                  /\ made'[i].server = f[i]
    BY <1>2, <1>3, ServersChange
  <1>5. TypeOK'
    BY <1>1, <1>3, <1>4 DEF IInv, TypeOK
  <1>6. ListedUnderOwnName'
    <2>1. \A n \in Names : listeners[n] # 0 => listeners[n] \in DOMAIN made
      BY Shapes DEF IInv, TypeOK
    <2> QED BY <1>1, <1>4, <2>1 DEF IInv, ListedUnderOwnName
  <1>7. HaltedPaused'
    BY <1>3, <1>4 DEF HaltedPaused
  <1>8. /\ WithinBounds' /\ NothingAccepted' /\ DeletedOnce'
        /\ Handed(sockets', pending_ssl', conns')
    BY <1>1, <1>4 DEF IInv, WithinBounds, NothingAccepted, DeletedOnce
  <1> QED BY <1>5, <1>6, <1>7, <1>8 DEF IInv, Handed

(* ~QMudServerCore: nothing is in connections, and the table has a         *)
(* listener under no name but its own.                                     *)
LEMMA DestroyInvariant ==
  ASSUME IInv, Destroy
  PROVE  IInv'
  <1>1. /\ alive' = FALSE /\ made' = made /\ listeners' = listeners
        /\ sockets' = sockets /\ pending_ssl' = pending_ssl /\ conns' = conns
        /\ connections' = connections /\ halted' = halted
    BY DEF Destroy, tableVars, socketVars
  <1>2. /\ deleted'.listeners = [i \in DOMAIN made |->
                                   IF i \in Listed THEN Listings(listeners, i)
                                                   ELSE 1]
        /\ deleted'.conns = [c \in DOMAIN conns |->
                               1 + Listings(connections, c)]
        /\ deleted' = [listeners |-> deleted'.listeners,
                        conns |-> deleted'.conns]
    BY DEF Destroy
  <1>3. /\ Len(made) \in Nat /\ DOMAIN made = 1 .. Len(made)
        /\ Len(conns) \in Nat /\ DOMAIN conns = 1 .. Len(conns)
    BY Shapes DEF IInv
  <1>4. ASSUME NEW i \in Listed
        PROVE  Listings(listeners, i) = 1
    <2>1. PICK n \in Names : listeners[n] = i
      BY DEF Listed
    <2>2. i # 0
      BY <1>3 DEF Listed
    <2>3. {k \in Names : listeners[k] = i} = {n}
      BY <2>1, <2>2 DEF IInv, ListedUnderOwnName
    <2> QED BY <2>3, FS_Singleton DEF Listings
  <1>5. ASSUME NEW c \in DOMAIN conns
        PROVE  Listings(connections, c) = 0
    <2>1. c # 0
      BY <1>3
    <2>2. {k \in Names : connections[k] = c} = {}
      BY <2>1 DEF IInv, NothingAccepted
    <2> QED BY <2>2, FS_EmptySet DEF Listings
  <1>6. /\ \A i \in DOMAIN made : deleted'.listeners[i] = 1
        /\ \A c \in DOMAIN conns : deleted'.conns[c] = 1
        /\ DOMAIN deleted'.listeners = DOMAIN made
        /\ DOMAIN deleted'.conns = DOMAIN conns
    BY <1>2, <1>4, <1>5
  <1>7. DeletedOnce'
    BY <1>1, <1>6 DEF DeletedOnce
  <1>8. deleted'.listeners \in Seq(Nat) /\ deleted'.conns \in Seq(Nat)
    <2>1. deleted'.listeners = [i \in 1 .. Len(made) |-> 1]
      BY <1>2, <1>3, <1>4
    <2>2. deleted'.conns = [c \in 1 .. Len(conns) |-> 1]
      BY <1>2, <1>3, <1>5
    <2> QED BY <1>3, <2>1, <2>2, IsASeq
  <1>9. deleted' \in [listeners : Seq(Nat), conns : Seq(Nat)]
    BY <1>2, <1>8
  <1>10. TypeOK'
    BY <1>1, <1>9 DEF IInv, TypeOK
  <1> QED BY <1>1, <1>7, <1>10 DEF IInv, WithinBounds, ListedUnderOwnName,
          NothingAccepted, HaltedPaused, Handed

-----------------------------------------------------------------------------
(* What each event does to the sockets and their connections, as facts     *)
(* about values.                                                           *)

Socks(socks, pending, cs) ==
  /\ socks \in Seq(Socket)
  /\ pending \subseteq DOMAIN socks
  /\ cs \in Seq(DOMAIN socks)
  /\ Handed(socks, pending, cs)

LEMMA SocketArrives ==
  ASSUME NEW socks, NEW pending, NEW cs, Socks(socks, pending, cs),
         NEW x \in Socket, NEW s, s = Len(socks) + 1
  PROVE  /\ x.is = "encrypting" =>
               Socks(Append(socks, x), pending \cup {s}, cs)
         /\ x.is = "plain" => Socks(Append(socks, x), pending, Append(cs, s))
  <1> DEFINE more == Append(socks, x)
             later == Append(cs, s)
  <1>1. /\ socks \in Seq(Socket) /\ pending \subseteq DOMAIN socks
        /\ cs \in Seq(DOMAIN socks) /\ Handed(socks, pending, cs)
    BY DEF Socks
  <1>2. /\ Len(socks) \in Nat /\ DOMAIN socks = 1 .. Len(socks)
        /\ Len(cs) \in Nat /\ DOMAIN cs = 1 .. Len(cs)
        /\ \A c \in DOMAIN cs : cs[c] \in DOMAIN socks
    BY <1>1, LenProperties, ElementOfSeq
  <1>3. /\ more \in Seq(Socket) /\ DOMAIN more = 1 .. s
        /\ \A t \in DOMAIN socks : more[t] = socks[t]
        /\ more[s] = x
    BY <1>1, <1>2, AppendProperties, LenProperties
  <1> HIDE DEF more
  <1>4. DOMAIN more = DOMAIN socks \cup {s} /\ s \notin DOMAIN socks
    BY <1>2, <1>3
  <1>5. cs \in Seq(DOMAIN more)
    BY <1>1, <1>4, SeqMonotonic
  <1>6. /\ later \in Seq(DOMAIN more) /\ DOMAIN later = 1 .. Len(cs) + 1
        /\ \A c \in DOMAIN cs : later[c] = cs[c]
        /\ later[Len(cs) + 1] = s
    BY <1>2, <1>4, <1>5, AppendProperties, LenProperties
  <1> HIDE DEF later
  <1>7. DOMAIN later = DOMAIN cs \cup {Len(cs) + 1} /\ Len(cs) + 1 \notin DOMAIN cs
    BY <1>2, <1>6
  <1>8. ASSUME x.is = "encrypting" PROVE Socks(more, pending \cup {s}, cs)
    <2>1. Handed(more, pending \cup {s}, cs)
      <3> SUFFICES ASSUME NEW t \in DOMAIN more
                   PROVE /\ t \in pending \cup {s} =>
                              \A c \in DOMAIN cs : cs[c] # t
                         /\ t \notin pending \cup {s} =>
                              \E c \in DOMAIN cs : \A d \in DOMAIN cs :
                                cs[d] = t <=> d = c
                         /\ more[t].is = "encrypting" => t \in pending \cup {s}
                         /\ more[t].is \in {"plain", "encrypted"}
                              => t \notin pending \cup {s}
        BY DEF Handed
      <3>1. CASE t = s
        BY <1>2, <1>3, <1>4, <1>8, <3>1
      <3>2. CASE t # s
        <4>1. t \in DOMAIN socks /\ more[t] = socks[t]
          BY <1>3, <1>4, <3>2
        <4> QED BY <1>1, <3>2, <4>1 DEF Handed
      <3> QED BY <3>1, <3>2
    <2> QED BY <1>1, <1>3, <1>4, <1>5, <2>1 DEF Socks
  <1>9. ASSUME x.is = "plain" PROVE Socks(more, pending, later)
    <2>1. Handed(more, pending, later)
      <3> SUFFICES ASSUME NEW t \in DOMAIN more
                   PROVE /\ t \in pending => \A c \in DOMAIN later : later[c] # t
                         /\ t \notin pending =>
                              \E c \in DOMAIN later : \A d \in DOMAIN later :
                                later[d] = t <=> d = c
                         /\ more[t].is = "encrypting" => t \in pending
                         /\ more[t].is \in {"plain", "encrypted"}
                              => t \notin pending
        BY DEF Handed
      <3>1. CASE t = s
        <4>1. \A d \in DOMAIN later : later[d] = t <=> d = Len(cs) + 1
          BY <1>2, <1>4, <1>6, <1>7, <3>1
        <4> QED BY <1>1, <1>3, <1>4, <1>7, <1>9, <3>1, <4>1
      <3>2. CASE t # s
        <4>1. /\ t \in DOMAIN socks /\ more[t] = socks[t]
              /\ \A d \in DOMAIN later :
                   later[d] = t <=> d \in DOMAIN cs /\ cs[d] = t
          BY <1>3, <1>4, <1>6, <1>7, <3>2
        <4> QED BY <1>1, <1>7, <4>1 DEF Handed
      <3> QED BY <3>1, <3>2
    <2> QED BY <1>1, <1>3, <1>4, <1>6, <2>1 DEF Socks
  <1> QED BY <1>8, <1>9 DEF more, later

(* A socket that was encrypting is encrypted and handed on.                *)
LEMMA SocketHandedOn ==
  ASSUME NEW socks, NEW pending, NEW cs, Socks(socks, pending, cs),
         NEW s \in DOMAIN socks, socks[s].is = "encrypting",
         NEW next \in Seq(Socket), DOMAIN next = DOMAIN socks,
         \A t \in DOMAIN socks :
           next[t].is = IF t = s THEN "encrypted" ELSE socks[t].is
  PROVE  Socks(next, pending \ {s}, Append(cs, s))
  <1> DEFINE later == Append(cs, s)
  <1>1. /\ pending \subseteq DOMAIN socks
        /\ cs \in Seq(DOMAIN socks) /\ Handed(socks, pending, cs)
    BY DEF Socks
  <1>2. /\ Len(cs) \in Nat /\ DOMAIN cs = 1 .. Len(cs)
        /\ \A c \in DOMAIN cs : cs[c] # s
        /\ s \in pending
    BY <1>1, LenProperties DEF Handed
  <1>3. /\ later \in Seq(DOMAIN socks) /\ DOMAIN later = 1 .. Len(cs) + 1
        /\ \A c \in DOMAIN cs : later[c] = cs[c]
        /\ later[Len(cs) + 1] = s
    BY <1>1, <1>2, AppendProperties, LenProperties
  <1> HIDE DEF later
  <1>4. DOMAIN later = DOMAIN cs \cup {Len(cs) + 1} /\ Len(cs) + 1 \notin DOMAIN cs
    BY <1>2, <1>3
  <1>5. Handed(next, pending \ {s}, later)
    <2> SUFFICES ASSUME NEW t \in DOMAIN socks
                 PROVE /\ t \in pending \ {s} =>
                             \A c \in DOMAIN later : later[c] # t
                       /\ t \notin pending \ {s} =>
                            \E c \in DOMAIN later : \A d \in DOMAIN later :
                              later[d] = t <=> d = c
                       /\ next[t].is = "encrypting" => t \in pending \ {s}
                       /\ next[t].is \in {"plain", "encrypted"}
                            => t \notin pending \ {s}
      BY DEF Handed
    <2>1. CASE t = s
      <3>1. \A d \in DOMAIN later : later[d] = t <=> d = Len(cs) + 1
        BY <1>2, <1>3, <1>4, <2>1
      <3> QED BY <1>4, <2>1, <3>1
    <2>2. CASE t # s
      <3>1. \A d \in DOMAIN later : later[d] = t <=> d \in DOMAIN cs /\ cs[d] = t
        BY <1>3, <1>4, <2>2
      <3>2. /\ t \in pending => \A c \in DOMAIN cs : cs[c] # t
            /\ socks[t].is = "encrypting" => t \in pending
            /\ socks[t].is \in {"plain", "encrypted"} => t \notin pending
        BY <1>1 DEF Handed
      <3>3. ASSUME t \notin pending
            PROVE  \E c \in DOMAIN later : \A d \in DOMAIN later :
                     later[d] = t <=> d = c
        <4>1. PICK c \in DOMAIN cs : \A d \in DOMAIN cs : cs[d] = t <=> d = c
          BY <1>1, <3>3 DEF Handed
        <4> QED BY <1>4, <3>1, <4>1
      <3>4. next[t].is = socks[t].is
        BY <2>2
      <3> QED BY <2>2, <3>1, <3>2, <3>3, <3>4
    <2> QED BY <2>1, <2>2
  <1>6. next \in Seq(Socket) /\ later \in Seq(DOMAIN next)
    BY <1>3
  <1> QED BY <1>1, <1>5, <1>6 DEF Socks, later

(* A socket dies: nothing is handed on.                                    *)
LEMMA SocketDies ==
  ASSUME NEW socks, NEW pending, NEW cs, Socks(socks, pending, cs),
         NEW s \in DOMAIN socks,
         NEW next \in Seq(Socket), DOMAIN next = DOMAIN socks,
         \A t \in DOMAIN socks :
           next[t].is = IF t = s THEN "dead" ELSE socks[t].is
  PROVE  Socks(next, pending, cs)
  BY DEF Socks, Handed

-----------------------------------------------------------------------------
LEMMA IncomingInvariant ==
  ASSUME IInv, NEW i \in DOMAIN made, IncomingConnection(i)
  PROVE  IInv'
  <1> DEFINE s == Len(sockets) + 1
             x == [at |-> i,
                   is |-> IF made[i].ssl THEN "encrypting" ELSE "plain"]
  <1>1. /\ alive /\ alive' = alive /\ made' = made /\ listeners' = listeners
        /\ deleted' = deleted /\ halted' = halted
        /\ connections' = connections /\ sockets' = Append(sockets, x)
        /\ IF made[i].ssl THEN pending_ssl' = pending_ssl \cup {s} /\ conns' = conns
                          ELSE pending_ssl' = pending_ssl /\ conns' = Append(conns, s)
    BY DEF IncomingConnection, StartTelnetNegotiation, tableVars
  <1>2. x \in Socket
    BY Shapes, ServerBounds DEF IInv, WithinBounds, Socket
  <1>3. Socks(sockets, pending_ssl, conns)
    BY DEF IInv, TypeOK, Socks
  <1>4. Socks(sockets', pending_ssl', conns')
    <2>1. s = Len(sockets) + 1
      OBVIOUS
    <2>2. CASE made[i].ssl
      BY <1>1, <1>2, <1>3, <2>1, <2>2, SocketArrives
    <2>3. CASE ~made[i].ssl
      BY <1>1, <1>2, <1>3, <2>1, <2>3, SocketArrives
    <2> QED BY <2>2, <2>3
  <1>5. connections' \in [Names -> 0 .. Len(conns')]
    BY <1>1, <1>4, LenProperties DEF IInv, TypeOK, NothingAccepted, Socks
  <1>6. TypeOK'
    BY <1>1, <1>4, <1>5 DEF IInv, TypeOK, Socks
  <1>7. Handed(sockets', pending_ssl', conns')
    BY <1>4 DEF Socks
  <1> QED BY <1>1, <1>6, <1>7 DEF IInv, WithinBounds, ListedUnderOwnName,
          NothingAccepted, HaltedPaused, DeletedOnce, Handed

(* The stage of one socket changes.                                        *)
LEMMA StageChanges ==
  ASSUME NEW socks \in Seq(Socket), NEW s \in DOMAIN socks,
         NEW stage \in {"plain", "encrypting", "encrypted", "dead"}
  PROVE  LET next == [socks EXCEPT ![s].is = stage]
         IN  /\ next \in Seq(Socket) /\ DOMAIN next = DOMAIN socks
             /\ \A t \in DOMAIN socks :
                  /\ next[t].is = IF t = s THEN stage ELSE socks[t].is
                  /\ next[t].at = socks[t].at
  <1> DEFINE moved == [socks[s] EXCEPT !.is = stage]
             next == [socks EXCEPT ![s] = moved]
  <1>1. /\ Len(socks) \in Nat /\ DOMAIN socks = 1 .. Len(socks)
        /\ \A t \in DOMAIN socks : socks[t] \in Socket
    BY LenProperties, ElementOfSeq
  <1>2. moved \in Socket /\ moved.is = stage /\ moved.at = socks[s].at
    BY <1>1 DEF Socket
  <1> HIDE DEF moved
  <1>3. /\ next \in Seq(Socket)
        /\ \A t \in 1 .. Len(socks) :
             next[t] = IF t = s THEN moved ELSE socks[t]
    BY <1>1, <1>2, ExceptSeq
  <1>4. DOMAIN next = DOMAIN socks
    OBVIOUS
  <1>5. next = [socks EXCEPT ![s].is = stage]
    BY DEF moved
  <1> HIDE DEF next
  <1> QED BY <1>1, <1>2, <1>3, <1>4, <1>5

(* The only socket of its server's set that is encrypted is the one whose  *)
(* handshake has just succeeded, so that the slot hands on this one.       *)
LEMMA EncryptedInvariant ==
  ASSUME IInv, NEW s \in DOMAIN sockets, Encrypted(s)
  PROVE  IInv'
  <1> DEFINE i == sockets[s].at
             next == [sockets EXCEPT ![s].is = "encrypted"]
  <1>1. /\ alive /\ alive' = alive /\ made' = made /\ listeners' = listeners
        /\ deleted' = deleted /\ halted' = halted
        /\ sockets[s].is = "encrypting" /\ sockets' = next
        /\ SslReady(next, i)
    BY DEF Encrypted, tableVars
  <1>2. Socks(sockets, pending_ssl, conns)
    BY DEF IInv, TypeOK, Socks
  <1>3. /\ next \in Seq(Socket) /\ DOMAIN next = DOMAIN sockets
        /\ \A t \in DOMAIN sockets :
             /\ next[t].is = IF t = s THEN "encrypted" ELSE sockets[t].is
             /\ next[t].at = sockets[t].at
    BY <1>2, StageChanges DEF Socks
  <1> HIDE DEF next
  <1>4. Waiting(next, i) = {s}
    <2>1. s \in pending_ssl /\ pending_ssl \subseteq DOMAIN sockets
      BY <1>1, <1>2 DEF Socks, Handed
    <2>2. \A t \in pending_ssl : sockets[t].is # "encrypted"
      BY <1>2 DEF Socks, Handed
    <2> QED BY <1>3, <2>1, <2>2 DEF Waiting
  <1>5. Cardinality({s}) = 1 /\ {s} # {}
    BY FS_Singleton
  <1>6. /\ pending_ssl' = pending_ssl \ {s}
        /\ connections' = connections
        /\ conns' = Append(conns, s)
    <2>1. /\ AcceptTelnetConnections({s}) /\ pending_ssl' = pending_ssl \ {s}
      BY <1>1, <1>4 DEF SslReady
    <2>2. PICK order \in [1 .. 1 -> {s}] : conns' = conns \o order
      BY <1>5, <2>1 DEF AcceptTelnetConnections
    <2>3. order = <<s>>
      BY <2>2
    <2>4. connections' = connections
      BY <1>5, <2>1 DEF AcceptTelnetConnections, StartTelnetNegotiation
    <2>5. Append(conns, s) = conns \o <<s>>
      BY AppendIsConcat DEF IInv, TypeOK
    <2> QED BY <2>1, <2>2, <2>3, <2>4, <2>5
  <1>7. Socks(sockets', pending_ssl', conns')
    BY <1>1, <1>2, <1>3, <1>6, SocketHandedOn
  <1>8. connections' \in [Names -> 0 .. Len(conns')]
    BY <1>6, <1>7, LenProperties DEF IInv, TypeOK, NothingAccepted, Socks
  <1>9. TypeOK'
    BY <1>1, <1>7, <1>8 DEF IInv, TypeOK, Socks
  <1>10. Handed(sockets', pending_ssl', conns')
    BY <1>7 DEF Socks
  <1> QED BY <1>1, <1>6, <1>9, <1>10 DEF IInv, WithinBounds,
          ListedUnderOwnName, NothingAccepted, HaltedPaused, DeletedOnce, Handed

LEMMA DisconnectedInvariant ==
  ASSUME IInv, NEW s \in DOMAIN sockets, Disconnected(s)
  PROVE  IInv'
  <1> DEFINE next == [sockets EXCEPT ![s].is = "dead"]
  <1>1. /\ alive /\ alive' = alive /\ made' = made /\ listeners' = listeners
        /\ deleted' = deleted /\ halted' = halted /\ conns' = conns
        /\ connections' = connections /\ pending_ssl' = pending_ssl
        /\ sockets' = next
    BY DEF Disconnected, tableVars
  <1>2. Socks(sockets, pending_ssl, conns)
    BY DEF IInv, TypeOK, Socks
  <1>3. /\ next \in Seq(Socket) /\ DOMAIN next = DOMAIN sockets
        /\ \A t \in DOMAIN sockets :
             next[t].is = IF t = s THEN "dead" ELSE sockets[t].is
    BY <1>2, StageChanges DEF Socks
  <1> HIDE DEF next
  <1>4. Socks(sockets', pending_ssl', conns')
    BY <1>1, <1>2, <1>3, SocketDies
  <1>5. TypeOK'
    BY <1>1, <1>4 DEF IInv, TypeOK, Socks
  <1>6. Handed(sockets', pending_ssl', conns')
    BY <1>4 DEF Socks
  <1> QED BY <1>1, <1>5, <1>6 DEF IInv, WithinBounds, ListedUnderOwnName,
          NothingAccepted, HaltedPaused, DeletedOnce, Handed

-----------------------------------------------------------------------------
LEMMA StepInvariant == IInv /\ [Next]_vars => IInv'
  <1> SUFFICES ASSUME IInv, [Next]_vars PROVE IInv'
    OBVIOUS
  <1>1. CASE UNCHANGED vars
    BY <1>1 DEF vars, tableVars, socketVars, IInv, TypeOK, WithinBounds,
       ListedUnderOwnName, NothingAccepted, HaltedPaused, Handed, DeletedOnce
  <1>2. CASE Program
    BY <1>2, CreateInvariant, ServersInvariant, DestroyInvariant DEF Program
  <1>3. CASE EventLoop
    BY <1>3, IncomingInvariant, EncryptedInvariant, DisconnectedInvariant
       DEF EventLoop
  <1> QED BY <1>1, <1>2, <1>3 DEF Next

THEOREM Invariance == Spec => []IInv
  BY InitInvariant, StepInvariant, PTL DEF Spec

(* Every variable of the server keeps its type.                            *)
THEOREM TypeCorrect == Spec => []TypeOK
  <1>1. IInv => TypeOK
    BY DEF IInv
  <1> QED BY <1>1, Invariance, PTL

(* Every socket is in its server's set or has been handed on, once.        *)
THEOREM SocketsHandedOnce == Spec => []HandedOnce
  <1>1. IInv => HandedOnce
    <2> SUFFICES ASSUME IInv, NEW s \in DOMAIN sockets
                 PROVE  Cardinality({c \in DOMAIN conns : conns[c] = s})
                          = IF s \in pending_ssl THEN 0 ELSE 1
      BY DEF HandedOnce, IInv, Handed
    <2>1. CASE s \in pending_ssl
      <3>1. {c \in DOMAIN conns : conns[c] = s} = {}
        BY <2>1 DEF IInv, Handed
      <3> QED BY <2>1, <3>1, FS_EmptySet
    <2>2. CASE s \notin pending_ssl
      <3>1. PICK c \in DOMAIN conns :
              \A d \in DOMAIN conns : conns[d] = s <=> d = c
        BY <2>2 DEF IInv, Handed
      <3>2. {d \in DOMAIN conns : conns[d] = s} = {c}
        BY <3>1
      <3> QED BY <2>2, <3>2, FS_Singleton
    <2> QED BY <2>1, <2>2
  <1> QED BY <1>1, Invariance, PTL

(* The destructor deletes every listener and every connection once.        *)
THEOREM ObjectsDeletedOnce == Spec => []DeletedOnce
  <1>1. IInv => DeletedOnce
    BY DEF IInv
  <1> QED BY <1>1, Invariance, PTL

(* A listener that was stopped takes no connection ever again.             *)
THEOREM StopIsForGood == Spec => HaltedForGood
  <1> DEFINE Refused ==
        \A s \in DOMAIN sockets' \ DOMAIN sockets :
          sockets'[s].at \notin halted
  <1>1. IInv /\ [Next]_vars => [Refused]_vars
    <2> SUFFICES ASSUME IInv, Next, NEW s \in DOMAIN sockets' \ DOMAIN sockets
                 PROVE  sockets'[s].at \notin halted
      OBVIOUS
    <2>1. sockets \in Seq(Socket)
      BY DEF IInv, TypeOK
    <2>2. ASSUME NEW t \in DOMAIN sockets, Encrypted(t) \/ Disconnected(t)
          PROVE  FALSE
      BY <2>2 DEF Encrypted, Disconnected
    <2>3. PICK i \in DOMAIN made : IncomingConnection(i)
      BY <2>2 DEF Next, Program, EventLoop, CreateListener, StartListening,
         StopListening, Destroy, socketVars
    <2>4. PICK x : x.at = i /\ sockets' = Append(sockets, x) /\ x \in Socket
      <3>1. i \in 1 .. MaxListeners
        BY Shapes, ServerBounds DEF IInv, WithinBounds
      <3> QED BY <2>3, <3>1 DEF IncomingConnection, Socket
    <2>5. sockets'[s] = x
      BY <2>1, <2>4, AppendProperties, LenProperties
    <2>6. made[i].server = "listening"
      BY <2>3 DEF IncomingConnection
    <2> QED BY <2>4, <2>5, <2>6 DEF IInv, HaltedPaused
  <1> QED BY <1>1, Invariance, PTL DEF Spec, HaltedForGood

=============================================================================
