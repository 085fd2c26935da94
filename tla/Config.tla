-------------------------------- MODULE Config --------------------------------
(***************************************************************************)
(* The configuration of FujiChat and the programs that hand it on: the     *)
(* record at CONFIG_ADDRESS, which survives from one program to the next,  *)
(* the file FUJICHAT.CFG, and FUJIMENU, FUJICONF, FUJICHAT and MAKEAUTO,   *)
(* which load each other with atari_exec (src/common.c, fujimenu.c,        *)
(* fujiconf.c, makeauto.c, aexec.s and the start of fujichat.c).           *)
(*                                                                         *)
(* The record is a sequence of fields, the first of which stands for       *)
(* signature and version.  The power may fail and the reset key be pressed *)
(* at any moment, and a write may end early because the disk is full.      *)
(***************************************************************************)
EXTENDS Naturals, Sequences

CONSTANTS
  Fields,        \* the number of fields
  NotDefault,    \* fields set_default_config leaves alone: alt_nick, channel, timezone
  Entered,       \* values the user enters
  Saves          \* bound: times save_config is called

ASSUME ConfigAssumption ==
  /\ Fields \in Nat \ {0, 1} /\ Saves \in Nat
  /\ NotDefault \subseteq 2..Fields
  /\ Entered \cap {"junk", "default", "current"} = {}

VARIABLES
  prog,        \* the program that runs; "asking" is config_menu's dialogue
  mem,         \* the record at CONFIG_ADDRESS
  file,        \* FUJICHAT.CFG, or None
  autorun,     \* AUTORUN.SYS loads the menu: "whole"; else "torn"
  saves,       \* how often save_config was called
  confirmed,   \* history: the record that save_config was last called for
  cfgHarm      \* history: setup took over a file of the wrong size

cfgVars == <<prog, mem, file, autorun, saves, confirmed, cfgHarm>>

None   == <<"none">>
Value  == Entered \cup {"junk", "default", "current"}
Record == [1..Fields -> Value]
Junk   == [f \in 1..Fields |-> "junk"]

config_is_valid(m) == m[1] = "current"

(* read() stores what there is. *)
ReadInto(m) == [f \in 1..Fields |-> IF file # None /\ f <= Len(file) THEN file[f] ELSE m[f]]

(* Mutant: whatever could be read is enough. *)
get_config_AnySize == file # None /\ file # <<>> /\ config_is_valid(ReadInto(mem))

(* get_config's result. *)
get_config == file # None /\ Len(file) = Fields /\ config_is_valid(ReadInto(mem))

set_default_config(m) ==
  [f \in 1..Fields |-> IF f = 1 THEN "current" ELSE IF f \in NotDefault THEN m[f] ELSE "default"]

CfgInit ==
  /\ prog = "dos" /\ mem = Junk /\ autorun \in {"whole", "torn"}
  /\ file \in {None, [f \in 1..Fields |-> IF f = 1 THEN "junk" ELSE "default"]}
  /\ saves = 0 /\ confirmed = None /\ cfgHarm = FALSE

-------------------------------------------------------------------------------
(***************************************************************************)
(* main() of each program, up to where it asks the user.                   *)
(***************************************************************************)
StartMenu ==
  /\ prog' = "menu"
  /\ mem' = IF get_config THEN ReadInto(mem) ELSE set_default_config(ReadInto(mem))
  /\ UNCHANGED <<file, autorun, saves, confirmed, cfgHarm>>

(* get_config's result is not looked at: the first three bytes decide.     *)
StartSetup ==
  /\ prog' = "asking"
  /\ LET m == ReadInto(mem)
     IN  /\ mem' = IF config_is_valid(m) THEN m ELSE set_default_config(m)
         /\ cfgHarm' = (cfgHarm \/ (config_is_valid(m) /\ ~get_config))
  /\ UNCHANGED <<file, autorun, saves, confirmed>>

(* What setup left in memory is used; otherwise the file; otherwise the    *)
(* defaults.                                                               *)
StartChat ==
  /\ prog' = "chat"
  /\ mem' = IF config_is_valid(mem) THEN mem
            ELSE IF get_config THEN ReadInto(mem) ELSE set_default_config(ReadInto(mem))
  /\ UNCHANGED <<file, autorun, saves, confirmed, cfgHarm>>

StartMakeauto ==
  /\ prog' = "makeauto" /\ UNCHANGED <<mem, file, autorun, saves, confirmed, cfgHarm>>

End(p) == prog' = p /\ UNCHANGED <<mem, file, autorun, saves, confirmed, cfgHarm>>

(* atari_exec: the program starts; or its file cannot be opened, and the   *)
(* caller goes on as onError; or it ends too early, and the machine hangs. *)
atari_exec(Start, onError) == Start \/ End(onError) \/ End("hung")

-------------------------------------------------------------------------------
(***************************************************************************)
(* What the user does in each of them.                                     *)
(***************************************************************************)
Dos == prog = "dos" /\ (StartMenu \/ StartSetup \/ StartChat \/ StartMakeauto)

Menu ==
  /\ prog = "menu"
  /\ \/ atari_exec(StartSetup, "menu") \/ atari_exec(StartChat, "menu") \/ End("dos")

(* The server's name at the prompt and /nick change the record in memory;  *)
(* "s" runs setup, "r" the program again.                                  *)
Chat ==
  /\ prog = "chat"
  /\ \/ atari_exec(StartSetup, "chat") \/ atari_exec(StartChat, "dos") \/ End("dos")
     \/ /\ \E f \in (2..Fields) \ NotDefault, v \in Entered : mem' = [mem EXCEPT ![f] = v]
        /\ UNCHANGED <<prog, file, autorun, saves, confirmed, cfgHarm>>

(* One question of config_menu: Return keeps what there is. *)
config_menu ==
  /\ prog = "asking"
  /\ \E f \in 2..Fields, v \in Entered : mem' = [mem EXCEPT ![f] = v]
  /\ UNCHANGED <<prog, file, autorun, saves, confirmed, cfgHarm>>

ChangeDriver == prog = "asking" /\ atari_exec(StartMakeauto, "asking")

(* fopen(..., "wb") empties the file. *)
save_config ==
  /\ prog = "asking" /\ saves < Saves
  /\ \/ prog' = "saving" /\ file' = <<>> /\ confirmed' = mem
     \/ prog' = "configured" /\ UNCHANGED <<file, confirmed>>    \* it cannot be opened
  /\ saves' = saves + 1
  /\ UNCHANGED <<mem, autorun, cfgHarm>>

WriteField ==
  /\ prog = "saving" /\ Len(file) < Fields
  /\ file' = Append(file, mem[Len(file) + 1])
  /\ UNCHANGED <<prog, mem, autorun, saves, confirmed, cfgHarm>>

(* fwrite returns, with everything written or not; nobody looks. *)
Saved == prog = "saving" /\ End("configured")

Configured ==
  \/ prog = "asking" /\ End("configured")        \* the user does not save
  \/ prog = "configured" /\ (atari_exec(StartChat, "dos") \/ atari_exec(StartMenu, "dos"))

(* MAKEAUTO writes AUTORUN.SYS anew.  It is torn until the second file has *)
(* been appended, and stays so if that fails and the user gives up.        *)
append_files ==
  /\ prog = "makeauto"
  /\ \/ autorun' = "torn" /\ UNCHANGED prog
     \/ autorun = "torn" /\ autorun' = "whole" /\ prog' = "dos"
     \/ prog' = "dos" /\ UNCHANGED autorun
  /\ UNCHANGED <<mem, file, saves, confirmed, cfgHarm>>

(* The power fails, or MAKEAUTO reboots: the memory is lost.  After the    *)
(* reset key it is not.                                                    *)
PowerOn ==
  /\ \E p \in IF autorun = "whole" THEN {"booting"} ELSE {"dos"} : prog' = p
  /\ mem' \in {mem, Junk}
  /\ UNCHANGED <<file, autorun, saves, confirmed, cfgHarm>>

Boot == prog = "booting" /\ atari_exec(StartMenu, "dos")

CfgNext ==
  \/ Dos \/ Menu \/ Chat \/ config_menu \/ ChangeDriver \/ save_config \/ WriteField
  \/ Saved \/ Configured \/ append_files \/ PowerOn \/ Boot

CfgSpec == CfgInit /\ [][CfgNext]_cfgVars

-------------------------------------------------------------------------------
(* The type of every variable: a file is never longer than the record. *)
CfgTypeOK ==
  /\ prog \in {"dos", "booting", "menu", "asking", "saving", "configured", "chat", "makeauto", "hung"}
  /\ mem \in Record
  /\ file = None \/ (file \in Seq(Value) /\ Len(file) <= Fields)
  /\ autorun \in {"whole", "torn"}
  /\ saves \in 0..Saves /\ confirmed \in {None} \cup Record /\ cfgHarm \in BOOLEAN

(* Whatever was interrupted before: FUJICHAT never runs with settings      *)
(* nobody has chosen, except in the fields that have no default, and       *)
(* except after FUJICONF took over a file that was too short.              *)
SettingsKnown ==
  prog = "chat" /\ ~cfgHarm =>
    /\ config_is_valid(mem)
    /\ \A f \in (2..Fields) \ NotDefault : mem[f] # "junk"

(* A save that was cut short is noticed: a file that get_config accepts    *)
(* holds every field of the configuration that was last saved.             *)
LoadedIsSaved == get_config => file = confirmed

(* The configuration survives every exchange of programs and every save.   *)
ConfigKept == SettingsKnown /\ LoadedIsSaved
===============================================================================
