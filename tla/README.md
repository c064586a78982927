# ForgeMUSH in TLA+

ForgeMUSH is a game server under construction. What its build produces today is
the *portal* (`apps/portal.cpp`, `src/forgeportal/net.cpp`): a program that
accepts telnet clients with Boost.Asio, negotiates telnet options with them and
hands their command lines to callbacks. Two more parts are written but commented
out of the build: markup strings and the Qt server of the game itself
(`src/mudcore`). This directory specifies all three in TLA+, checks the
specifications with TLC on small instances and proves the safety of their
central parts for all instances with TLAPS.

## The system

| Component | State | Operations | Talks to |
|---|---|---|---|
| `TelnetMudConnection`, output | `outbox` (a streambuf), `isWriting`, the outstanding `async_write_some` | `send`, `sendNegotiate`, the write handler | socket; called by negotiation |
| `TelnetMudConnection`, input | `inbox`, `cmdbuff`, the outstanding `async_read_some` | `receive`, `onReceive`, `onReceiveAppData` | socket; calls negotiation and `onCommandCB` |
| `TelnetMudConnection`, life | `options`, `timer`, `started` | `start`, `checkReady`, `finishReady`, `onReady` | options, the manager, the program |
| `TelnetOption`, `TelnetHandshakeHolder` | per side `enabled`, `negotiating`, `answered`; three sets of open handshakes | `onConnect`, `negotiate`, `receiveNegotiate`, `registerHandshake`, `processHandshake` | the connection |
| `WebSocketMudConnection` | the stream | upgrade, `start` (prints) | socket |
| `Listener` | `running`, outstanding `async_accept`s, `ssl_con` | `start`, `stop`, `listen` | manager, new connections |
| `MudNetworkManager` | `addresses`, `listeners`, `nextId`, `pending`, `connections` | `register...`, `startListening`, `stopListening` | program, listeners |
| markup strings (`mudcore/markup`) | text, per-character index of open tags | decode, slice, concatenate | not built |
| Qt server (`mudcore/net`, `apps/core.cpp`) | `listeners`, each server's `pending_ssl`, `connections` | `createListener`, `startListening`, `stopListening`, `incomingConnection`, `ssl_ready`, the destructor | Qt's sockets and event loop; not built |
| older codec (`forgeportal/telnet.cpp`) | | | not built, does not compile |

All of the portal runs on the one thread that calls `io_context::run`. Two
handlers never overlap; what makes the code hard is what happens *between*
them. A write is outstanding while more bytes are queued; the reads cut the
client's bytes anywhere; a timer decides when commands are listened to; accepts
outlive the `stop()` of their listener; ids wrap around; and a handler that
does not return takes everything with it. PROJECT.json lists these hazards at
their lines with the properties that speak about them. The Qt server runs on one
event loop as well; there the order in which TLS handshakes end, what a name
stands for after it was given to another listener, and who deletes what are the
questions.

## Modules

**Outbox** is the output side as a value: what is readable, how much storage is
left and has been consumed, `isWriting`, and the outstanding writes. Its
operators are the calls the code makes (`Send`, `SendNegotiate`, `WriteDone`)
and those of the library underneath (`Prepare`, `Commit`, `Consume`). A write
remembers the bytes it was started on; `Prepare` marks it *moved* when it
shifts or regrows the storage the write points into.

**WritePump** runs the outbox: `Negotiate` (a call of `sendNegotiate`),
`Transmit` (the socket takes some of the bytes), `WriteHandler` and
`WriteFails` (the completion handler, which ignores the error). `queued` and
`wire` record what was queued and what the client was given. A moved write may
put `Garbage` on the wire.

**ReplyChannel** is what the output promises: bytes arrive in order, at most
once, none skipped, and each the right one until more has been queued than the
first storage holds. `WritePump` implements it (`ImplementsChannel`).

**TelnetReceive** is the input side. `ReadCompletes` appends a chunk to the
inbox; then each step is one iteration of a loop of `onReceive`
(`TakeEscape`, `TakeText`, `TakeNegotiation`, `TakeCommand`,
`SeekSubnegotiationEnd`) or of `onReceiveAppData` (`CutCommand`,
`NoMoreCommands`), until `Receive` returns to the reactor and reads again. `pc`
is the function the thread is in. `CharIsSigned` is the compiler's choice for
plain `char`, on which the scan for IAC depends. The module also holds two
reference definitions that share nothing with the decoder: `Heard`, telnet read
one byte at a time, and `Lines`. Both are recursive functions over the bytes, so
that they can be proved about.

**TelnetConnection** composes the two, conjoining the receiver's actions with
what they make the connection do, and adds `start()`, the options' opening
negotiation, the timer, `finishReady` and the command callback.

**MudNetworkManager** is the manager with its listeners: registration, accept
chains, ids, TLS and websocket steps, and readiness. A connection is an entry of
`objects` with a stage; `pending` and `connections` map ids to objects. Clients
may hang up (`ReadFails`): nothing in the code takes note of it, and `gone`
records it. A client may also send a subnegotiation, after which the thread runs
no other handler, of any connection or listener (`SubnegotiationArrives`).

**Readiness** is what the program may rely on for its connections: each that is
set up is handed over, once, whatever its client does or leaves undone, unless
the thread is lost to all of them. `Served` is its liveness. Three modules
implement it (`ImplementsReadiness` in each): `MudNetworkManager` for all its
connections together, and `TelnetConnection` and `TelnetOption` for the one they
are about.

**TelnetOption** is the negotiation of options: the connection with the two
sides of each option and the three holders of open handshakes is one record, and
each function of the code an operator on it (`Negotiate`, `ReceiveNegotiate`,
`ProcessHandshake`, `CheckReady`, `FinishReady`). The other party is a client
that negotiates as RFC 854 asks: it answers only what would change its mode, and
it may change its mind. `dispatch` says what a received negotiation is handed
to, which each behaviour settles at its start: `negotiate`, as `onReceiveNegotiation` does (`net.cpp:314`), or
`receiveNegotiate`, the handler the class has and nothing calls. The channel to
the client is ideal here; what the pump makes of it is the subject of
`WritePump`. With the code's pump, only options that have one message
outstanding at a time get all of theirs through, and the run that ends in a
violation uses such an option.

**MarkupString** is `mudcore/markup`: `decode_markup` one character a step, the
colour codes it checks when a tag is closed, and the calls that append to, copy,
write to or clear a string. `Elements` reads a source without the decoder: where
an element begins, what it is and where it ends are definitions of their own.

**QtServer** is `mudcore/net`. A listener is an entry of `made`, in the order of
creation, with the state of its server; `listeners` is the table the core looks
in, where a new listener replaces one of the same name while `made` keeps both.
`IncomingConnection`, `Encrypted` and `Disconnected` are what the event loop
delivers; `SslReady` is the slot that hands on whatever in the set is encrypted.
`StartListening` and `StopListening` go through the table, and `Destroy` counts
how often the destructor deletes each object. The actions of a ready connection
are absent: nothing emits `telnetReady`.

**SequenceLemmas** is not about this program: induction and recursive functions
over sequences, and what flattening and concatenation do to each other. The proofs
of three modules share it. The MC modules give the constants their values.

### How they are connected

`TelnetConnection` extends `TelnetReceive` and `Outbox`, and instantiates
`TelnetReceive` (with `pc` and `reading` mapped, since the receiver's
specification begins when `start()` has called `receive()`) and `WritePump`.
The run *telnet_connection* checks that the composition implements both,
so that what is checked and proved of the parts holds of the whole. The stage
"started" of `MudNetworkManager` stands for all that `TelnetConnection` does
until its timer fires; `Readiness` is where the two meet, since both implement
it: what the manager takes for granted of a started connection is what the
connection is shown to do.

## Runs

| Run | Question | Bounds, and why they are enough |
|---|---|---|
| write_pump | Do writes overlap, are bytes lost, repeated or reordered, what happens after a partial or failed write, is the output a `ReplyChannel`? | Up to five messages of three bytes with seven bytes of storage: two fit, the third shifts or regrows the storage, with or without a write outstanding. |
| telnet_receive | Is the decoding independent of the cuts, can anything but a subnegotiation keep the thread? | All streams of six bytes over IAC, WILL, SB, text and LF, reads of up to three: two whole messages with every cut, and one byte more than the five a subnegotiation needs to be looked at. Unsigned char; with signed char see *signed_scan*. |
| telnet_connection | Are the right answers given in the right order, which commands does the program get, is the connection handed over as `Readiness` promises, does the composition implement its parts? | One registered option, which opens with WILL, so that offers of it are echoed and others refused. Up to two of nine pieces of input, reads of up to three bytes: an answer is being written while others are queued, and a line ends before, in or after the timer. Seven bytes of storage, so that writes are moved as well. |
| manager | Do accept chains, ids and maps stay right, is each started connection handed over whatever its client and its listener do? | Two listeners, three starts between them, so that one of them is started again while its old accept is outstanding, three connections for two ids, so that the ids wrap around, and one hang-up. |
| telnet_option | Does negotiation end, is the connection handed over once although handshakes and the timer race; would `receiveNegotiate`, which nothing calls, keep agreements and clear handshakes? | Three options, one opened both ways, one that opens only with WILL although it is supported both ways, so that it waits in a holder for an answer to a DO that is never sent, and one that is refused; and two changes of mind of the client, enough for an offer to cross an answer. |
| markup | What does `decode_markup` accept, leave, and fail on; do text, idx and markup stay together? | Every source of up to five characters out of five kinds, every sequence of up to four tags and characters (two nested tags with their closing ones), three tags inside each other and a tag around two, each with right or wrong codes, by itself; and five calls out of seven sources and two plain strings: a string is decoded, copied, appended to and decoded again. |
| qt_server | Is every socket handed on once in whatever order handshakes end, does a stopped listener stay stopped, is every object deleted once? | Three listeners for two names and two ports, so that one replaces another and two compete for a port; two sockets, so that one is handed on while the handshake of another is under way, has failed or has succeeded. Nothing counts starts and stops. |

Five runs end in a violation, each of a sentence in the source:

- *signed_scan*: "Send all data up to an IAC" (`net.cpp:265`). With signed
  `char` (x86-64) `std::find` never finds 255 and text swallows the telnet
  commands that follow it.
- *subnegotiation_returns*: "we must seek ahead until we have an unescaped IAC
  SE. If we don't have one, do nothing." (`net.cpp:222`). The loop never moves
  on, so the handler never returns.
- *early_commands*: "fire callback to alert program that this command arrived."
  (`net.cpp:303`). Commands that are complete before the timer has fired are
  dropped.
- *handshakes_unprocessed*: the timer "handles a case where the client doesn't do
  telnet negotiation or doesn't answer all of our handshakes" (`net.cpp:92`). The
  client answers, `negotiate` does nothing with the answer, and the connection
  waits for the timer all the same. Handing the answer to `receiveNegotiate`
  would not be enough: an option that opens with WILL waits in `hs_remote`, and
  the answer to WILL is taken out of `hs_local`. *telnet_option* checks what that
  leaves open (`ReadyWhenProcessed`): exactly the handshakes of options that did
  not open in the direction they wait for, and only if there is none of these is
  the connection ready without its timer.
- *markup_parents*: "pop up a depth level." (`markup.cpp:225`). After the tag is
  closed it is still current, and the next tag becomes its child. For the same
  reason the codes that a closing tag checks are those of the tag that was opened
  or closed last (`RejectedForCodes`): in `<r><a><b></b></a></r>`, closing `b`
  checks `b`, closing `a` checks `b` again and closing `r` checks `a`. A tag around
  others is checked one closing tag late, and an outermost one around others never.

Deadlock is not checked: a client may stop sending, a bounded behaviour ends,
and the stalled, spinning and aborted states are ones the code really stops in.

## What the checks show of the pump

The completion handler calls `send()` with `isWriting` still set, and `send()`
returns at once. `UnfinishedWriteStalls` shows that every write that leaves
bytes behind ends in a stall: in time if more were queued meanwhile or the socket
takes only a part (`LeavesBytes`), and at once if the write fails
(`FailedWriteStalls`), whether or not anything else is queued. `StallIsFinal`
shows that nothing gets the pump out of it. What is on the wire by then is still right: it is what
`ReplyChannel` allows (`ImplementsChannel`). The invariants this rests on,
`WireInOrder` and `WireExactWithinCapacity`, are proved and not checked again by
the run. In *telnet_connection* the stall is
why a connection whose option opened both ways would send nothing after its
first three bytes; the run uses an option that opens once.

## Fairness

Completion handlers are run once their operation has ended and a handler that
has begun is run on: weak fairness of the handler steps. The operating system
ends every write with bytes or an error, and timers expire: weak fairness of
`SocketStep` of the pump and of the timers. Nothing is assumed of what clients
send or of when they connect: no fairness on reads, accepts, handshakes or
upgrades. The one exception is `TelnetOption`, whose `FairSpec` has
`WF_vars(ClientReads)`: a client eventually reads what it was sent, and answers
where RFC 854 has it answer. `NegotiationSettles` rests on that, since messages to
a client that never reads stay under way for ever; it need not ever change its
mind. The hand-over (`ImplementsReadiness`) does not need it. The fairness of `Timer` in
`MudNetworkManager` is that of all timers together; it is enough for `Served`
because a behaviour accepts boundedly many connections. It says nothing once the
thread is lost: then no timer handler is enabled, and `Readiness` allows it.
`QtServer` is about safety and assumes no fairness.

## Proofs

**WritePumpProofs** proves, for any capacity, any commands and options and any
number of bytes: `TypeOK`, `OneWrite`, `NothingWaitsIdle`, `WireInOrder`,
`WireExactWithinCapacity`, the action properties `StallIsFinal` and
`FailedWriteStalls` (`FailureStalls`), and that `WritePump` implements `ReplyChannel` (`PumpIsChannel`). The runs'
invariants are not inductive: that a write takes the right bytes depends on
what it was started on. `Consistent` therefore adds that the readable bytes are
the last ones queued (`DataIsTail`), that the one write there can be was started
on a prefix of them (`WritesArePrefixes`), that the flag is set exactly while
there is something to protect (`FlagIsRight`), that the wire is as long as what
was consumed plus what that write has taken (`WireLength`), and that storage
adds up until it is first outgrown (`StorageWithin`). It is stated of an outbox
and two sequences, so that each operator of `Outbox` has a lemma about values
and the steps only cite them. Assumptions: `CapacityAssumption` (storage is not
empty), `MaxBytesAssumption` and `GarbageAssumption`.

**TelnetReceiveProofs** proves, for any bytes, any length of a read and any
number of bytes: `TypeOK`, `NothingLost` and, where char is unsigned,
`DataStopsAtIAC` (`TextStopsAtIAC`; `signed_scan` refutes it where char is
signed). `NothingLost` is inductive together with `TypeOK`. Each kind of message
is shown to have an encoding that is the first bytes of the inbox, and one lemma
(`EmitKeeps`) does the rest: what is appended to `framed` is what `inbox` loses.
That onReceive looks at no byte that has not arrived is `EnoughBytes`, from the
lengths in `Needed`. Assumptions: `ReadAssumption`, `CharAssumption`.

`DecodesTelnet` proves `DecodedAsTelnet`, again where char is unsigned, because
where it is signed text swallows commands (`signed_scan`) and the statement is
false. It says something of the moments at which the handler has returned. What holds at every moment
is `DecodedInv`: the messages are what telnet hears in the bytes they stand for
(`framed`), which end between two messages, and while the handler is not running
the inbox is empty or begins with a message of which a byte is missing
(`WaitsForMore`). A loop of the handler adds one message to both sides: `Hearing`
of an encoding that starts between messages yields its events and is between
messages again, and what a text hears is its bytes, of which none is IAC. The
byte machine says nothing of an incomplete message, which is why the inbox can be
left out when it waits. `CommandsMatchLines` proves `CommandsAreLines`, with
no hypothesis. In the middle of onReceiveAppData the lines of the text are
the commands cut so far and the lines of what is left in `cmdbuff`; `CommandsInv`
says that, and that outside of the loop `cmdbuff` has no end of line left.

**TelnetConnectionProofs** proves, for any scripts, options and cuts, that a
connection implements `TelnetReceive` (`ConnectionReceives`), so that
`NothingLost` holds inside it as well (`ConnectionLosesNothing` cites the step
lemma of `TelnetReceiveProofs` through the mapping), that `DeliveredInOrder`
holds (`NoCommandMissed`) and that every step is one `Readiness` allows
(`HandedOverAsPromised`). The invariant `Placed` says where `start()` is and that
the program has its callback exactly when the timer has fired; the types of what
was received come from the receiver's own invariant. `DeliveredInOrder` is about
reversed sequences, and its proof goes by positions (`EndOf`).

`ConnectionWrites` is the refinement of the other half, `WritePump`. Its
invariant `PInv` holds the receiver's and the pump's own invariants and counts:
the bytes queued and the negotiations `start()` has yet to send (`todo`) are no
more than the bytes decoded and six for each option (`Counted`). The pump by
itself is bounded by `MaxBytes`, and this count is why a connection stays within
that. `ConnectionTypes` follows from it and from what the sockets may read
(`Scripted`). `AnswersAreInOrder` proves `AnswersInOrder` where char is unsigned:
it compares the wire, which by `WireInOrder` is the first of the bytes queued,
with what telnet hears in the bytes received, so it needs the same hypothesis as
`DecodedAsTelnet`, of whose invariant it makes use. The invariant
`RInv` adds to `PInv` and `DecodedInv` that what is queued and still to be opened
is the opening in one order of the options and then an answer to each offer heard
so far (`Replied`). That each answer follows the answers to what came before is
then a fact about `Answers` of a concatenation, and so is that the client may
hear only a part of them. Nothing is assumed of the order
in which the hash table gives the options. Assumptions: those of `TelnetReceive`,
`CapacityAssumption`, `OptionsAssumption` (a finite set of options, as the
registry is) and `GarbageAssumption` (a moved write puts bytes on the wire that
are none of the connection's own names).

**MarkupStringProofs** proves every invariant of `MarkupString` for any
characters, sources and sequences of calls, in three layers. `IInv`, for
`TextMatchesIdx` (`TextAlwaysMatches`): text and idx are sequences (`Shaped`) and
belong together; each kind of change has a lemma about values (`MadePlain`,
`Emptied`, `Appended`, `Written`). `MInv`, for `MarkupOfSource`: in the middle of
decoding too, the string holds what was not cleared and every tag made since, and
the decoder refers to these alone; without the latter a tag could become the child
of one that an earlier call made. `DInv` is the decoder's progress, for
`TagsAreStripped`, `FailsOnlyUnbalanced` and `RejectedForCodes`, which speak only
of the end: at each character there are elements `es` and a place `b` such that
the elements of the source are `es` and those that begin at `b` (`Divided`). The
state says how far the element at `b` has been read (`Reading`), the text is the
characters of `es`, mstack is as deep as `es` has more opening tags than closing
ones (`Balanced`), and `current` stands for the tag that was opened or closed last
(`Opened`), so that its codes are the ones the next closing tag checks (`Settled`).
That after a closing tag this is the tag it closed needs to know what mstack holds
(`Stacked`): the tag k deep on it is of an element behind which at least k tags
have been open ever since (`Held`), and a closing tag closes one element only
(`ClosesOne`). No case of `decode_markup` needs to be excluded:
the theorems hold of sources that end in the middle of a tag as well. Assumption:
`MarkupAssumption`.

**MudNetworkManagerProofs** proves, for any names, addresses, number of ids and
connections: `TypeOK`, `RunningListens`, `PendingHoldsAll`, `ReadyAreListed`,
`ListedAreReady` and `StoppedListenerRunsOut`. The invariant adds that
connections are numbered in order until the ids wrap around (`IdsInOrder`),
that only telnet connections run a timer (`OnlyTelnetStarts`), and that accepts
are outstanding only for registered listeners, whose type is fixed
(`AcceptedByRegistered`). `HandedOverAsPromised` is the safety half of
`ImplementsReadiness`: the initial state and every step of the manager are ones
that `Readiness` allows. It needs the invariant and that `Readiness` speaks of
all connections there can be (`WithinBound`); each step is a set-up or a
hand-over of one connection, the loss of the thread, or nothing. `Served`, the
other half, stays with the run. Assumption: `BoundsAssumption`.

**TelnetOptionProofs** proves, for any options and any number of changes of mind:
`TypeOK`, `ReadyAfterHandshakes` and, as for the manager, that every step is one
`Readiness` allows (`HandedOverAsPromised`). What the functions of the option do
to a connection is put into one relation, `Advances`: handshakes are only
settled, and the connection becomes ready at most once and with none left. Each
operator is shown to advance the connection, and the relation is transitive, so
that a handler that calls several of them advances it as well. The invariant adds
`ToldOnce`, that the program has been told exactly of what is started.
`NoAgreementMissed` proves `AgreementKept` from an invariant that needs no order
of messages (`UnderWay`): what the client does or relies on is enabled, or the
request that will enable it is on its way to the server, or the refusal that will
end it is on its way back; no operator of the server disables an option or takes
back a message (`Keeps`).
`AnsweredMeansReady` proves `ReadyWhenProcessed` for any options. Whatever waits
in the direction in which it was opened is still negotiating, and its request is
on the way to a client that has to reply, or the reply is on its way back
(`Unanswered`). The first reply takes it out of its holder, whichever it is, and
the last of all makes the connection ready (`LastMakesReady`). An option that only
opens with WILL, say, waits for an answer to a DO that nobody sends; the property
says nothing of it, and only the timer helps. This and `AgreementKept` are about
`receiveNegotiate`, which nothing calls: they say what the class would do if
`onReceiveNegotiation` handed it what it receives. `ReadyAfterHandshakes` as well
says something only with it, since with `negotiate` no handshake is ever settled.
Assumption: `OptionAssumption`.

**QtServerProofs** proves, for any names and ports and any number of listeners
and sockets: `TypeOK`, `HandedOnce`, `DeletedOnce` and `HaltedForGood`.
`HandedOnce` counts connections; the invariant says the same with quantifiers
(`Handed`: a socket in the set has no connection and any other has exactly one),
and a fact about singletons leads back to the count. `DeletedOnce` follows
because a listener is in the table under its own name only
(`ListedUnderOwnName`), so that the destructor's loop meets it at most once, and
because the other table stays empty (`NothingAccepted`). `HaltedForGood` needs
that what was halted is paused (`HaltedPaused`): `start` leaves such a server
alone and a paused server accepts nothing. Assumption: `ServerBounds`.

One property of the code's compiler is a hypothesis of theorems, not an
assumption of a module, since there are builds that violate it:
`~CharIsSigned`. Induction is over sets
(`NatSetInduction` in `SequenceLemmas`: the set of the numbers for which something
holds is all of `Nat`); facts about a recursive function are proved with it from
the function's one equation.

Every invariant of a passing run is thus a theorem. Only model-checked are the
properties that say something happens (the prover has no rules for fairness and
ENABLED): `Served` and with it the liveness half of `ImplementsReadiness` in its
three modules, `NegotiationSettles`, the part of `UnfinishedWriteStalls` about
writes that do not fail, and `OnlySubnegotiationKeepsThread`. The five violations are TLC's as well.

## Abstractions

- Bytes are names; which byte a name stands for never matters, except that
  IAC is 255, which is what `CharIsSigned` is about.
- The storage of a streambuf grows to exactly what is asked for when it must
  grow; the library may take more, which only makes later moves rarer.
- Time is left out: the 500 ms may pass between any two handlers.
- The socket may take bytes of an outstanding write at any moment before its
  handler runs.
- The outstanding writes of an outbox are a set, so that two that were started on
  the same bytes and in the same state would be one. There are never two
  (`OneWrite`), and a second one is started on other bytes whenever it is started
  by a later message.
- `Accept` leaves out that `sock.local_endpoint()` (`net.cpp:622`) may throw, which
  would end `io_context::run` and the program with it.
- `RegisterListener` may find `ssl_con` null or not: the constructor never
  assigns it. If it is not null, the program dies on first use or the handshake
  begins.
- An option's enable and disable hooks are empty in the code and left out.
  `enabled` is never reset by a refusal; `AgreementKept` therefore speaks of one
  direction only.
- Of the colour codes of markup the letters are modelled; numbers and the rgb,
  hex and named forms are accepted in the same place by another pattern. A code
  is checked through a null pointer (`Markup`'s constructor makes an empty
  `unique_ptr`); the function reads no member, and the model takes the build in
  which that goes unnoticed.
- Histories (`queued`, `received`, `framed`, `messages`, `starts`) are not
  state of the program; no guard reads them except to bound a run.
- A port of the Qt server stands for an address with a port. Sockets that cannot
  be set up are deleted on the spot and left out; so is what a connection reads,
  which is thrown away. `pauseAccepting` may leave connections in the backlog of
  the operating system; they are never taken.

## Not modelled

- The older telnet codec (`forgeportal/telnet.*`): in no build target, and it does
  not compile; there is no behaviour to model.
- `WebSocketMudConnection::send` and `receive`: stubs that nothing calls. Its
  upgrade is in `MudNetworkManager`.
- `QMudListener::telnetReady` and `QMudServerCore::acceptConnection`: connected to
  a signal that nothing emits.
- Destructors of the portal: never called.
- The database, module and message headers: declarations without operations.
- The stub programs, the build files and output to the console.
- `reverse` and `regen_text` of a markup string: private and without a caller.

## Plan

1. `Outbox`, `WritePump`, `ReplyChannel`, proofs: done.
2. `TelnetReceive`, `TelnetConnection`, proofs, with those of the refinement of
   `TelnetReceive` and of `WritePump` and the safety part of `Readiness`: done.
3. `MudNetworkManager`, proofs, with that of the safety part of `Readiness`: done.
4. `TelnetOption`, `Readiness`, proofs of all invariants and of the safety part
   of `Readiness`: done.
5. `MarkupString`, proofs of all invariants: done.
6. `QtServer`, proofs: done.
7. Left: a theorem for each property of the pump and of the receiver inside a
   connection that follows from the two refinements (`WireInOrder` as the client
   of a connection sees it); the exact depth of `mstack` for rejected sources.
