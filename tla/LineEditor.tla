------------------------------ MODULE LineEditor ------------------------------
(***************************************************************************)
(* The line the user types: handle_keystroke, del_last_word, the nick list *)
(* and its completion, of src/fujichat.c.                                  *)
(*                                                                         *)
(* A character is "sp", a letter, "/msg" (which the TAB macro writes) or   *)
(* "end" for NL and NUL.  input_buf is an array that keeps what earlier    *)
(* lines left in it; behind its BUF_SIZE bytes lies serv_msg_buf.  What a  *)
(* finished line does is in IrcSession.  The screen is the part of it that *)
(* shows the line; the OS's logical lines are left out.                    *)
(***************************************************************************)
EXTENDS Naturals, SequencesExt

CONSTANTS
  BUF_SIZE, NICKLEN, NICK_LIST_SIZE,
  Letters,        \* the letters of lines and nicks
  Typed,          \* those the user types
  Folded,         \* strnicmp's case: [Letters -> Letters]
  Speakers,       \* the nicks that speak in a channel, as sequences of letters
  Talkers         \* those that send private messages

ASSUME EditAssumption ==
  /\ {BUF_SIZE, NICKLEN, NICK_LIST_SIZE} \subseteq Nat \ {0}
  /\ BUF_SIZE >= NICKLEN + 4
  /\ Folded \in [Letters -> Letters] /\ Typed \subseteq Letters /\ Talkers \subseteq Speakers
  /\ {"sp", "end", "/msg"} \cap Letters = {}
  /\ Speakers \subseteq Seq(Letters) \ {<<>>}
  /\ \A n \in Speakers : Len(n) <= NICKLEN

VARIABLES
  input_buf,      \* the array, and as much of serv_msg_buf as can be reached
  input_buf_len,
  nick_list,      \* <<>> is an empty entry
  last_msg_nick,  \* who sent the last private message, or <<>>
  shown,          \* the line on the screen
  nicksSeen,      \* history: the nicks that spoke in a channel
  hidden          \* history: a message was printed over the line

editVars == <<input_buf, input_buf_len, nick_list, last_msg_nick, shown, nicksSeen, hidden>>

(* The longest line there can be: a word that begins before the margin is  *)
(* completed to a whole nick.                                              *)
LineMax == BUF_SIZE - 2 + NICKLEN
Cells   == 0..(LineMax + 1)

Line == [i \in 1..input_buf_len |-> input_buf[i - 1]]

Spaces == {i \in Cells : input_buf[i] = "sp"}

(* buf with the characters s stored from index at on. *)
Store(buf, at, s) ==
  [i \in Cells |-> IF i >= at /\ i < at + Len(s) THEN s[i - at + 1] ELSE buf[i]]

nicks == <<nick_list, last_msg_nick, nicksSeen>>

EditInit ==
  /\ input_buf = [i \in Cells |-> "end"] /\ input_buf_len = 0
  /\ nick_list = [i \in 1..NICK_LIST_SIZE |-> <<>>] /\ last_msg_nick = <<>>
  /\ shown = <<>> /\ nicksSeen = {} /\ hidden = FALSE

-------------------------------------------------------------------------------
(***************************************************************************)
(* handle_keystroke.                                                       *)
(***************************************************************************)

(* A character is echoed and stored; beyond the margin the bell rings and  *)
(* both are taken back, although the byte has been written.                *)
TypeKey(c) ==
  LET full == input_buf_len + 1 > BUF_SIZE - 1
  IN  /\ input_buf' = Store(input_buf, input_buf_len, <<c>>)
      /\ input_buf_len' = IF full THEN input_buf_len ELSE input_buf_len + 1
      /\ shown' = IF full THEN shown ELSE Append(shown, c)
      /\ UNCHANGED <<nicks, hidden>>

(* Return on an empty line is ignored.  Otherwise NL and a NUL go behind   *)
(* the line, also at the margin; a command ends in a NUL instead of its    *)
(* first space.  Whatever is said next is written into serv_msg_buf.       *)
ReturnPressed ==
  /\ input_buf_len > 0
  /\ LET stored == Store(input_buf, input_buf_len, <<"end", "end">>)
         spaces == Spaces \cap 0..(input_buf_len - 1)
     IN  input_buf' =
           IF input_buf[0] = "/msg" /\ spaces # {}
           THEN [stored EXCEPT ![CHOOSE i \in spaces : \A j \in spaces : i <= j] = "end"]
           ELSE stored
  /\ input_buf_len' = 0 /\ shown' = <<>> /\ hidden' = FALSE
  /\ UNCHANGED nicks

BackspacePressed ==
  /\ input_buf_len > 0
  /\ input_buf_len' = input_buf_len - 1
  /\ shown' = IF shown = <<>> THEN shown ELSE Front(shown)
  /\ UNCHANGED <<input_buf, nicks, hidden>>

DeleteLinePressed ==
  /\ input_buf_len' = 0 /\ shown' = <<>> /\ hidden' = FALSE
  /\ UNCHANGED <<input_buf, nicks>>

(* The length that is left when all characters at indices in S have been   *)
(* counted off, back from index n, which is looked at first.               *)
Skip(n, S) == CHOOSE i \in 0..n : (i = 0 \/ i \notin S) /\ \A j \in i + 1..n : j \in S

(* Mutant: the two loops are swapped. *)
del_last_word_Swapped ==
  LET n == Skip(Skip(input_buf_len, Cells \ Spaces), Spaces)
  IN  /\ input_buf_len' = n
      /\ shown' = SubSeq(shown, 1, Len(shown) - (input_buf_len - n))
      /\ UNCHANGED <<input_buf, nicks, hidden>>

(* Mutant: one backspace too few is printed. *)
del_last_word_ShortByOne ==
  LET n    == Skip(Skip(input_buf_len, Spaces), Cells \ Spaces)
      gone == input_buf_len - n - 1
  IN  /\ input_buf_len' = n
      /\ shown' = IF gone >= Len(shown) THEN <<>> ELSE SubSeq(shown, 1, Len(shown) - gone)
      /\ UNCHANGED <<input_buf, nicks, hidden>>

(* ctrl-W: back over spaces, then over what is not a space, beginning with *)
(* the byte behind the last character; as many backspaces are printed.     *)
del_last_word ==
  LET n    == Skip(Skip(input_buf_len, Spaces), Cells \ Spaces)
      gone == input_buf_len - n
  IN  /\ input_buf_len' = n
      /\ shown' = IF gone >= Len(shown) THEN <<>> ELSE SubSeq(shown, 1, Len(shown) - gone)
      /\ UNCHANGED <<input_buf, nicks, hidden>>

DeleteWordPressed == input_buf_len > 0 /\ del_last_word

(* TAB at the start of a line. *)
MsgMacro ==
  /\ input_buf_len = 0 /\ last_msg_nick # <<>>
  /\ LET text == <<"/msg", "sp">> \o last_msg_nick \o <<"sp">>
     IN  /\ input_buf' = Store(input_buf, 0, Append(text, "end"))
         /\ input_buf_len' = Len(text) /\ shown' = shown \o text
  /\ UNCHANGED <<nicks, hidden>>

(* strnicmp(term, nick, Len(term)) = 0.  Only letters have a case. *)
Fold(c) == IF c \in Letters THEN Folded[c] ELSE c
Matches(term, nick) ==
  /\ Len(term) <= Len(nick)
  /\ \A i \in 1..Len(term) : Fold(term[i]) = Fold(nick[i])

(* TAB behind a word: the term is at most NICKLEN characters back to a     *)
(* space; the first entry that begins with it takes its place.  Nothing    *)
(* keeps the result within the buffer.                                     *)
nick_completion ==
  LET starts == {i \in 0..input_buf_len :
                   /\ input_buf_len - i <= NICKLEN
                   /\ \A j \in i..(input_buf_len - 1) : input_buf[j] # "sp"}
      base   == CHOOSE i \in starts : \A j \in starts : i <= j
      term   == SubSeq(Line, base + 1, input_buf_len)
      found  == {i \in 1..NICK_LIST_SIZE : Matches(term, nick_list[i])}
      nick   == nick_list[CHOOSE i \in found : \A j \in found : i <= j]
  IN  /\ \/ base = input_buf_len /\ UNCHANGED <<input_buf, input_buf_len, shown, hidden>>
         \/ /\ base < input_buf_len /\ found = {}
            /\ shown' = Line /\ hidden' = FALSE
            /\ UNCHANGED <<input_buf, input_buf_len>>
         \/ /\ base < input_buf_len /\ found # {}
            /\ input_buf' = Store(input_buf, base, Append(nick, "end"))
            /\ input_buf_len' = base + Len(nick)
            /\ shown' = SubSeq(Line, 1, base) \o nick /\ hidden' = FALSE
      /\ UNCHANGED nicks

TabPressed == IF input_buf_len = 0 THEN MsgMacro ELSE nick_completion

-------------------------------------------------------------------------------
(***************************************************************************)
(* What happens to the line from outside.  A line of the server is printed *)
(* between del_user_buffer and redraw_user_buffer.                         *)
(***************************************************************************)
Redrawn == shown' = Line /\ hidden' = FALSE

(* The first free entry; a full list loses its first one. *)
add_to_nick_list(nick) ==
  LET free == {i \in 1..NICK_LIST_SIZE : nick_list[i] = <<>>}
      at   == IF free = {} THEN 1 ELSE CHOOSE i \in free : \A j \in free : i <= j
  IN  nick_list' = IF \E i \in 1..NICK_LIST_SIZE : nick_list[i] = nick THEN nick_list
                   ELSE [nick_list EXCEPT ![at] = nick]

ChannelText(nick) ==
  /\ add_to_nick_list(nick) /\ nicksSeen' = nicksSeen \cup {nick}
  /\ Redrawn /\ UNCHANGED <<input_buf, input_buf_len, last_msg_nick>>

PrivateText(nick) ==
  /\ last_msg_nick' = nick
  /\ Redrawn /\ UNCHANGED <<input_buf, input_buf_len, nick_list, nicksSeen>>

(* Connected, closed, a name resolved, an overflow: printed where the      *)
(* cursor is.  What was typed is above it, and still in the buffer.        *)
Notice ==
  /\ shown' = <<>> /\ hidden' = (input_buf_len > 0)
  /\ UNCHANGED <<input_buf, input_buf_len, nicks>>

(* The nick is registered: a notice, and the line is forgotten. *)
RegistersNick ==
  /\ shown' = <<>> /\ hidden' = FALSE /\ input_buf_len' = 0
  /\ UNCHANGED <<input_buf, nicks>>

KeyNext ==
  \/ \E c \in Typed \cup {"sp"} : TypeKey(c)
  \/ ReturnPressed \/ BackspacePressed \/ DeleteLinePressed \/ DeleteWordPressed \/ TabPressed

EditNext ==
  \/ KeyNext
  \/ \E n \in Speakers : ChannelText(n)
  \/ \E n \in Talkers : PrivateText(n)
  \/ Notice \/ RegistersNick

EditSpec == EditInit /\ [][EditNext]_editVars

-------------------------------------------------------------------------------
Character == Letters \cup {"sp", "end", "/msg"}

(* add_to_nick_list: no nick is in the list twice, and none that has not   *)
(* spoken.                                                                 *)
NicksDistinct ==
  /\ \A i, j \in 1..NICK_LIST_SIZE : nick_list[i] = nick_list[j] /\ nick_list[i] # <<>> => i = j
  /\ \A i \in 1..NICK_LIST_SIZE : nick_list[i] \in nicksSeen \cup {<<>>}

(* The type of every variable.  The line may be longer than BUF_SIZE, but  *)
(* never by more than a nick, and the bytes written behind it end there;   *)
(* the nick list is one of different nicks.                                *)
EditTypeOK ==
  /\ input_buf \in [Cells -> Character]
  /\ input_buf_len \in 0..LineMax
  /\ nick_list \in [1..NICK_LIST_SIZE -> Speakers \cup {<<>>}] /\ NicksDistinct
  /\ last_msg_nick \in Talkers \cup {<<>>}
  /\ shown \in Seq(Character)
  /\ nicksSeen \subseteq Speakers /\ hidden \in BOOLEAN

(* What is on the screen is what Return will send, through every way of    *)
(* editing, unless a message was printed over the line.                    *)
ScreenShowsLine == ~hidden => shown = Line

(* nick_completion never takes away or changes what was typed, but for its *)
(* case, and what it adds is a nick that has spoken.                       *)
CompletionExtends ==
  [][TabPressed /\ input_buf_len > 0 =>
       /\ Len(Line') >= Len(Line)
       /\ \A i \in 1..Len(Line) : Fold(Line'[i]) = Fold(Line[i])
       /\ Line' # Line => \E n \in nicksSeen : IsSuffix(n, Line')]_editVars

(* ctrl-W takes away something, but no more than one word with the spaces  *)
(* around it, whatever lies behind the line.                               *)
OneWordDeleted ==
  [][DeleteWordPressed =>
       /\ input_buf_len' < input_buf_len
       /\ \A i, j, k \in (input_buf_len')..(input_buf_len - 1) :
            i < j /\ j < k /\ input_buf[i] # "sp" /\ input_buf[k] # "sp" => input_buf[j] # "sp"]_editVars

(* The two keys that change more of the line than its last character,      *)
(* TAB and ctrl-W, do no more to it than they are for.                     *)
LineEdited == CompletionExtends /\ OneWordDeleted
===============================================================================
