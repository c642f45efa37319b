------------------------- MODULE MCProtocolManager -------------------------
(* Instances of ProtocolManager.                                               *)
EXTENDS ProtocolManager

TwoPeers == {"p1", "p2"}
TwoPeersSenders == TwoPeers \cup {"loop", "session"}
=============================================================================
