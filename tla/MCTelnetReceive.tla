--------------------------- MODULE MCTelnetReceive ---------------------------
(* Text, line ends, offers and subnegotiations.  Any byte may also appear   *)
(* as an option code.                                                       *)
EXTENDS TelnetReceive

MCBytes == {"IAC", "WILL", "SB", "a", "LF"}
MCOffers == {"IAC", "WILL", "a", "LF"}
MCSubnegotiations == {"IAC", "SB", "a", "LF"}
=============================================================================
