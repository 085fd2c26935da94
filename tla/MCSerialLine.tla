---------------------------- MODULE MCSerialLine ----------------------------
(* What comes over the line, for TLC: SerialLine, with packets of every    *)
(* byte that SLIP treats specially, shorter, just as long and longer than  *)
(* slip_buf; and LineAssembly, at most two bytes of its second session.    *)
(* part says which one runs.                                               *)
EXTENDS SerialLine, LineAssembly

VARIABLE part

(* The types of both. *)
TypesOK == TypeOK /\ AsmTypeOK

MCPackets ==
  {<<"ESC">>, <<"ESC_END", "END">>, <<"ESC_ESC", "END", "a">>}

MCInit == Init /\ AsmInit /\ part \in {"packets", "lines"}

MCNext ==
  \/ part = "packets" /\ Next    /\ UNCHANGED <<asmVars, part>>
  \/ /\ part = "lines" /\ AsmNext /\ UNCHANGED <<vars, part>>
     /\ asmSess' > 1 => Len(stream') <= 2

MCSpec ==
  /\ MCInit /\ [][MCNext]_<<vars, asmVars, part>>
  /\ WF_vars(rs232dev_poll) /\ WF_vars(SendByte \/ SendEnd)
=============================================================================
