------------------------------- MODULE MCUipTcp -------------------------------
(* UipTcp for TLC, four instances in one run: in "open" nothing is sent,   *)
(* but the server accepts twice and a segment is repeated; in "data" one   *)
(* of the two sends; in "stop" the client sends and closes, and the server *)
(* stops and starts again; in "both" both send, the server does not close  *)
(* and sends everything once only.                                         *)
EXTENDS UipTcp

VARIABLE regime

OneByte   == [h \in Host |-> 1]

MCInit == TcpInit /\ regime \in {"open", "data", "stop", "both"}

Sends(h) == conn'[h].sent # <<>>

MCNext ==
  /\ TcpNext /\ UNCHANGED regime
  /\ \/ regime = "open" /\ \A h \in Host : ~Sends(h) /\ ~conn'[h].stopped
     \/ /\ regime = "data" /\ dups' = 0 /\ conn'["server"].inc <= 1
        /\ \A h \in Host : ~conn'[h].stopped /\ ~(Sends(h) /\ Sends(Peer(h)))
     \/ /\ regime = "stop" /\ dups' = 0 /\ conn'["server"].inc <= 1 /\ ~Sends("server")
        /\ ~conn'["client"].stopped /\ ~conn'["server"].left
     \/ /\ regime = "both" /\ dups' = 0 /\ conn'["server"].inc <= 1
        /\ \A h \in Host : ~conn'[h].stopped
        /\ ~conn'["server"].left /\ conn'["server"].nrtx = 0

MCSpec ==
  MCInit /\ [][MCNext]_<<tcpVars, regime>> /\ \A h \in Host : WF_tcpVars(Periodic(h))
===============================================================================
