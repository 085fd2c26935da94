---------------------------- MODULE MCIrcSession ----------------------------
(* Instances of IrcSession for TLC: two channels and nicks, and every command that   *)
(* touches the client's flags.                                             *)
EXTENDS IrcSession

CONSTANTS chanA, chanB, nickA, nickB

MCCommands ==
  {<<"JOIN", chanB>>, <<"JOIN", None>>, <<"PART", None>>, <<"QUIT", None>>, <<"TEXT", None>>,
   <<"NICK", nickB>>}
=============================================================================
