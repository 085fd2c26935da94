------------------------------ MODULE MCPrograms ------------------------------
(* What runs beside the IRC session, for TLC: the keyboard buffer, the     *)
(* set-up programs and the applications that come with uIP.  They share no *)
(* state, so each is checked on its own: part says which one runs.         *)
EXTENDS Keyboard, Config, Telnetd, Dhcpc, Httpd, Webclient

VARIABLE part

MCInit ==
  /\ part \in {"keyboard", "config", "telnetd", "dhcpc", "httpd", "webclient"}
  /\ Init /\ CfgInit /\ TelnetdInit /\ DhcpcInit /\ HttpdInit /\ WebInit
  /\ part # "config" => autorun = "whole" /\ file = None
  /\ part # "dhcpc" => clock = 0

MCNext ==
  \/ /\ part = "keyboard" /\ Next
     /\ UNCHANGED <<part, cfgVars, telnetdVars, dhcpcVars, httpdVars, webVars>>
  \/ /\ part = "config" /\ CfgNext
     /\ UNCHANGED <<part, vars, telnetdVars, dhcpcVars, httpdVars, webVars>>
  \/ /\ part = "telnetd" /\ TelnetdNext
     /\ UNCHANGED <<part, vars, cfgVars, dhcpcVars, httpdVars, webVars>>
  \/ /\ part = "dhcpc" /\ DhcpcNext
     /\ UNCHANGED <<part, vars, cfgVars, telnetdVars, httpdVars, webVars>>
  \/ /\ part = "httpd" /\ HttpdNext
     /\ UNCHANGED <<part, vars, cfgVars, telnetdVars, dhcpcVars, webVars>>
  \/ /\ part = "webclient" /\ WebNext
     /\ UNCHANGED <<part, vars, cfgVars, telnetdVars, dhcpcVars, httpdVars>>

MCSpec ==
  /\ MCInit /\ [][MCNext]_<<part, vars, cfgVars, telnetdVars, dhcpcVars, httpdVars, webVars>>
  /\ WF_vars(part = "keyboard" /\ Cgetc) /\ WF_vars(part = "keyboard" /\ ClearCH)
  /\ WF_vars(part = "keyboard" /\ fuji_cgetc)
  /\ WF_dhcpcVars(part = "dhcpc" /\ Tick) /\ SF_dhcpcVars(part = "dhcpc" /\ Polled)
  /\ WF_httpdVars(uip_periodic)
  /\ \A i \in Tcps : WF_webVars(Poll(i)) /\ WF_webVars(TimesOut(i))

-------------------------------------------------------------------------------
(* The types of all parts. *)
ProgramsTypesOK ==
  /\ TypeOK /\ CfgTypeOK /\ TelnetdTypeOK /\ DhcpcTypeOK /\ HttpdTypeOK /\ WebTypeOK

(* The two sides of HTTP, each with its own state machine (httpd.c over    *)
(* psock.c, and webclient.c): pages and requests arrive whole and in order. *)
HttpInOrder == PageInOrder /\ WholePage /\ OnlyData /\ RequestInOrder

(* Nothing waits for ever: every key is read, the DHCP client asks again   *)
(* when its servers are silent, and the web server and the web client end  *)
(* the connection to a silent peer.                                        *)
ProgramsGoOn == KeysAreRead /\ KeepsAsking /\ IdleEnds /\ ConnectionEnds

-------------------------------------------------------------------------------
(* What telnet clients send. *)
MCSegments ==
  {<<"help", "nl">>, <<"exit", "nl">>, <<"x", "cr", "nl">>, <<"x">>, <<"iac">>, <<"will", "x">>,
   <<"iac", "iac">>}

(* Two files, and a script that includes the first. *)
MCIndex == <<"/", "i">>
MCNotFound == <<"/", "404">>
Text == [is |-> "text"]
MCFiles ==
  <<[name |-> <<"/", "s">>, script |-> TRUE,
     parts |-> <<[is |-> "include", of |-> MCIndex], Text, [is |-> "call", rows |-> 1]>>],
    [name |-> MCIndex, script |-> FALSE, parts |-> <<Text, Text>>],
    [name |-> MCNotFound, script |-> FALSE, parts |-> <<Text>>]>>
MCRequests ==
  {<<"GET", "sp", "/", "s", "sp", "v", "nl", "h", "nl">>, <<"GET", "sp", "/", "sp", "nl">>,
   <<"GET", "sp", "/", "x", "sp", "nl">>, <<"PUT", "sp", "/", "x">>, <<"GET", "sp", "x", "sp">>}

(* A redirection, its target, a server of something else, a line too long. *)
MCResponse ==
  [a |-> <<"301", "nl", "to b", "nl", "cr", "nl">>,
   b |-> <<"200", "nl", "cr", "nl", "d">>,
   c |-> <<"220", "nl", "x">>,
   d |-> <<"200", "nl", "x", "y", "z">>]
MCLocation == [l \in {"to b"} |-> "b"]
===============================================================================
