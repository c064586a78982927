----------------------------- MODULE MCQtServer ------------------------------
(* Two names and two ports, so that a listener can be replaced while it     *)
(* listens and a port can be taken; two sockets, so that one handshake ends *)
(* while another is under way.                                              *)
EXTENDS QtServer
MCNames == {"telnet", "other"}
MCPorts == {7999, 8000}
=============================================================================
