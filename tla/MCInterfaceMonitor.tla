------------------------- MODULE MCInterfaceMonitor -------------------------
(* InterfaceMonitor on a small instance: two networks, the TUN, and two     *)
(* subscribers, one of which registers late.                                *)
EXTENDS InterfaceMonitor
=============================================================================
