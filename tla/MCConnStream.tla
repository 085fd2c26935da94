----------------------------- MODULE MCConnStream -----------------------------
(* TelnetConn for TLC.  MCSpec is three instances in one run:              *)
(*   stream    one session, every message shorter than the buffer, and a   *)
(*             window that stays open                                      *)
(*   windows   one session, one message as long as the buffer, no lines    *)
(*             from the server, while its window and MSS option move       *)
(*   sessions  two sessions whose initial sequence numbers are only one    *)
(*             apart, and one message of one byte                          *)
EXTENDS TelnetConn

VARIABLE regime

MCInit == Init /\ regime \in {"stream", "windows", "sessions"}

Widest == \A w \in Windows : \A m \in s2c' : m.kind = "RST" \/ m.win >= w

OneSession == sess' <= 1 /\ iss' # iss + 1

MCNext ==
  /\ Next /\ UNCHANGED regime
  /\ \/ regime = "stream" /\ OneSession /\ Widest /\ out'.buf[BufSize - 1] = NoByte
     \/ /\ regime = "windows" /\ OneSession /\ srv'.sent = 0
        /\ out'.msgs <= 1 /\ (out'.msgs = 1 => out'.buf[BufSize - 1] # NoByte)
     \/ /\ regime = "sessions" /\ iss' <= iss + 1 /\ Widest
        /\ out'.msgs <= 1 /\ out'.buf[1] = NoByte

MCSpec == MCInit /\ [][MCNext]_<<vars, regime>> /\ Fairness
===============================================================================
