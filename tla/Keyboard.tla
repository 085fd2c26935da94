------------------------------- MODULE Keyboard -------------------------------
(***************************************************************************)
(* The keyboard buffer of FujiChat (src/keybuf.s).  The OS's keyboard      *)
(* interrupt (external) puts the last key pressed into CH, at any moment.  *)
(* The main program calls keybuf_poll_kbd for every byte that crosses the  *)
(* serial line (src/rs232dev.c), which moves the key to the buffer, and    *)
(* keybuf_cgetc once per iteration of the main loop (handle_keystroke in   *)
(* src/fujichat.c), which puts the oldest buffered key back into CH and    *)
(* lets the OS read it from there.  Both are cut where an interrupt makes  *)
(* a difference: between two accesses to CH.                               *)
(***************************************************************************)
EXTENDS Naturals, Sequences

CONSTANTS
  max_buf_len,   \* bytes of the buffer
  MaxKeys        \* bound: keys pressed

ASSUME KeyboardAssumption == max_buf_len \in Nat /\ MaxKeys \in Nat

VARIABLES
  CH,                  \* the OS's keyboard register
  buf,                 \* the memory from keybuf on; what is behind it is written too
  keybuf_head, keybuf_tail,   \* as offsets from keybuf
  pc,                  \* "loop"; "clear" inside poll_kbd; "get" inside the OS
  pressed,             \* keys pressed so far; the n-th one is n
  modes,               \* those that give no character: caps lock, inverse video
  read,                \* history: what keybuf_cgetc returned
  harm                 \* history: a key pressed over an unread one ("overrun"),
                       \* a buffered key put over an unread one ("stuffed"),
                       \* a key without a character ("mode")

vars == <<CH, buf, keybuf_head, keybuf_tail, pc, pressed, modes, read, harm>>

NO_KEY == 0

Keys == 1..MaxKeys

Harm(h, cond) == IF cond THEN {h} ELSE {}

-------------------------------------------------------------------------------
(* Nobody calls keybuf_init before the first keybuf_cgetc: with a cleared  *)
(* zero page the buffer is empty until then.                               *)
Init ==
  /\ CH = NO_KEY
  /\ buf = [i \in 0..max_buf_len |-> NO_KEY]
  /\ keybuf_head = 0 /\ keybuf_tail = 0
  /\ pc = "loop"
  /\ pressed = 0 /\ modes = {} /\ read = <<>> /\ harm = {}

(* The interrupt.                                                          *)
Press ==
  /\ pressed < MaxKeys
  /\ pressed' = pressed + 1
  /\ CH' = pressed + 1
  /\ modes' \in {modes, modes \cup {pressed + 1}}
  /\ harm' = harm \cup Harm("overrun", CH # NO_KEY)
  /\ UNCHANGED <<buf, keybuf_head, keybuf_tail, pc, read>>

(* cpx #keybuf_end+1: one key more than the buffer has bytes.              *)
Full == keybuf_tail >= max_buf_len + 1

(* keybuf_poll_kbd with a key in CH and room in the buffer, up to the      *)
(* store; in any other case it does nothing.                               *)
keybuf_poll_kbd ==
  /\ pc = "loop" /\ CH # NO_KEY /\ ~Full
  /\ buf' = [buf EXCEPT ![keybuf_tail] = CH]
  /\ keybuf_tail' = keybuf_tail + 1
  /\ pc' = "clear"
  /\ UNCHANGED <<CH, keybuf_head, pressed, modes, read, harm>>

(* Mutant: the register keeps the key. *)
ClearCH_Not ==
  /\ pc = "clear" /\ pc' = "loop"
  /\ UNCHANGED <<CH, buf, keybuf_head, keybuf_tail, pressed, modes, read, harm>>

ClearCH ==
  /\ pc = "clear" /\ pc' = "loop"
  /\ CH' = NO_KEY
  /\ UNCHANGED <<buf, keybuf_head, keybuf_tail, pressed, modes, read, harm>>

(* keybuf_cgetc: the oldest buffered key goes through CH, whatever is in   *)
(* there.                                                                  *)
CgetcBuffered ==
  /\ pc = "loop" /\ keybuf_head # keybuf_tail
  /\ CH' = buf[keybuf_head]
  /\ keybuf_head' = keybuf_head + 1
  /\ pc' = "get"
  /\ harm' = harm \cup Harm("stuffed", CH # NO_KEY)
  /\ UNCHANGED <<buf, keybuf_tail, pressed, modes, read>>

(* Mutant: the OS is asked for a key whether there is one or not. *)
CgetcEmpty_NoCheck ==
  /\ pc = "loop" /\ keybuf_head = keybuf_tail
  /\ keybuf_head' = 0 /\ keybuf_tail' = 0
  /\ pc' = "get"
  /\ UNCHANGED <<CH, buf, pressed, modes, read, harm>>

(* keybuf_cgetc: the buffer is empty and starts over at its first byte.    *)
CgetcEmpty ==
  /\ pc = "loop" /\ keybuf_head = keybuf_tail
  /\ keybuf_head' = 0 /\ keybuf_tail' = 0
  /\ pc' = IF CH = NO_KEY THEN "loop" ELSE "get"
  /\ UNCHANGED <<CH, buf, pressed, modes, read, harm>>

(* fuji_cgetc calls the OS (external), which waits for a key in CH that    *)
(* has a character.                                                        *)
fuji_cgetc ==
  /\ pc = "get" /\ CH # NO_KEY
  /\ CH' = NO_KEY
  /\ IF CH \in modes
     THEN /\ harm' = harm \cup {"mode"}
          /\ UNCHANGED <<pc, read>>
     ELSE /\ read' = Append(read, CH) /\ pc' = "loop"
          /\ UNCHANGED harm
  /\ UNCHANGED <<buf, keybuf_head, keybuf_tail, pressed, modes>>

-------------------------------------------------------------------------------
Cgetc == CgetcBuffered \/ CgetcEmpty

Next == Press \/ keybuf_poll_kbd \/ ClearCH \/ Cgetc \/ fuji_cgetc

Spec == Init /\ [][Next]_vars

(* The main loop calls keybuf_cgetc again and again, what was begun is     *)
(* carried on, and the OS returns a key that is there.  Nobody has to      *)
(* press a key.                                                            *)
FairSpec == Spec /\ WF_vars(Cgetc) /\ WF_vars(ClearCH) /\ WF_vars(fuji_cgetc)

-------------------------------------------------------------------------------
(***************************************************************************)
(* Properties.                                                             *)
(***************************************************************************)

(* The type of every variable.                                             *)
TypeOK ==
  /\ CH \in Keys \cup {NO_KEY}
  /\ buf \in [0..max_buf_len -> Keys \cup {NO_KEY}]
  /\ keybuf_tail \in 0..(max_buf_len + 1) /\ keybuf_head \in 0..keybuf_tail
  /\ pc \in {"loop", "clear", "get"}
  /\ pressed \in 0..MaxKeys /\ modes \subseteq Keys
  /\ read \in Seq(Keys)
  /\ harm \subseteq {"overrun", "stuffed", "mode"}

Buffered == [i \in 1..(keybuf_tail - keybuf_head) |-> buf[keybuf_head + i - 1]]

(* The keys on their way to the program, the next one first.  A key that   *)
(* poll_kbd is about to clear is in the buffer already.                    *)
Pending ==
  CASE pc = "get"   -> <<CH>> \o Buffered
    [] pc = "clear" -> Buffered
    [] pc = "loop"  -> Buffered \o IF CH = NO_KEY THEN <<>> ELSE <<CH>>

(* As long as no key was pressed or put over an unread one, every key is   *)
(* read or still there, in the order of typing, none twice: over any       *)
(* number of polls, and when the buffer is full or starts over.            *)
KeysKept == harm = {} => read \o Pending = [k \in 1..pressed |-> k]

(* Even then, and wherever the interrupt hits, no key is returned twice.   *)
OncePerKey == \A i, j \in DOMAIN read : read[i] = read[j] => i = j

(* What the program reads is what was typed. *)
KeysAsTyped == KeysKept /\ OncePerKey

(* handle_keystroke is called without looking for a key first, and relies  *)
(* on keybuf_cgetc to return at once: the OS is never left waiting for a   *)
(* key, unless one without a character was pressed.                        *)
NeverWaits == pc = "get" /\ CH = NO_KEY => "mode" \in harm

(* A key that nothing happened to is returned, however full the buffer is. *)
KeysAreRead ==
  \A k \in Keys : (pressed = k) ~> ((\E i \in DOMAIN read : read[i] = k) \/ harm # {})
===============================================================================
