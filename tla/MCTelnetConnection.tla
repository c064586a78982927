------------------------- MODULE MCTelnetConnection -------------------------
(* Clients that send a few pieces: offers, refusals, lines, an escaped IAC, *)
(* a command, a subnegotiation.  Where a piece is cut by the reads is free. *)
EXTENDS TelnetConnection

MCByte == {"IAC", "WILL", "WONT", "DO", "DONT", "SB", "SE", "a", "LF", "NAWS"}

Will    == <<"IAC", "WILL", "NAWS">>
Do      == <<"IAC", "DO", "a">>
Wont    == <<"IAC", "WONT", "NAWS">>
Line    == <<"a", "LF">>
Lines2  == <<"LF", "a", "LF">>
Escape  == <<"IAC", "IAC">>
Nop     == <<"IAC", "a">>
Sub     == <<"IAC", "SB", "NAWS", "IAC", "SE">>
DoNaws  == <<"IAC", "DO", "NAWS">>

ScriptsOf(pieces, n) ==
  {FlattenSeq(s) : s \in UNION {[1 .. k -> pieces] : k \in 0 .. n}}

MCScripts ==
  ScriptsOf({Will, Do, Wont, DoNaws, Line, Lines2, Escape, Nop, Sub}, 2)

MCOptions      == {"NAWS"}
=============================================================================
