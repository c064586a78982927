------------------------ MODULE MCMudNetworkManager -------------------------
(* Two listeners of any kind and more connections than there are ids.       *)
EXTENDS MudNetworkManager
MCNames == {"l1", "l2"}
MCAddresses == {"mine"}
=============================================================================
