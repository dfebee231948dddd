------------------------------ MODULE Console -------------------------------
(***************************************************************************)
(* app/main/console.c: the serial console.  One task reads bytes and edits *)
(* the input line; any task prints, a character at a time, into a line     *)
(* that goes to the scrollback and the terminal; the view scrolls back     *)
(* while lines come in.                                                    *)
(*                                                                         *)
(* A byte of text is a lead byte, a continuation byte of UTF-8, a space or *)
(* another character; a printed character is its number in the order of    *)
(* printing.  There may be no memory for a line of the scrollback.  What   *)
(* the escape sequences look like and a write the terminal drops are left  *)
(* out.                                                                    *)
(***************************************************************************)
EXTENDS Integers, Sequences, FiniteSets, SequencesExt, FiniteSetsExt

CONSTANTS LINE_MAX_BYTES,    \* 160, the NUL included
          OUT_LINE_BYTES,    \* 256
          HISTORY_LEN,       \* 16
          MAX_CANDIDATES,    \* 32
          SCROLLBACK_LINES,  \* 1000
          SCROLLBACK_BYTES,  \* 80 K
          Commands, Words,   \* what the first argument, and another, may be: <<text, ..>>
          ROWS, MIN_ROWS,    \* 24 until the terminal answers; at least 4
          Keys, Params,      \* the keys, and the parameters of escape sequences, used
          MaxLines, MaxPrints    \* bounds

(* No key, and no text completed, begins with a continuation byte.         *)
ASSUME ConsoleAssumption ==
  /\ {LINE_MAX_BYTES, HISTORY_LEN} \subseteq Nat \ {0}
  /\ {OUT_LINE_BYTES, MAX_CANDIDATES, SCROLLBACK_LINES, SCROLLBACK_BYTES,
      ROWS, MIN_ROWS, MaxLines, MaxPrints} \subseteq Nat
  /\ Params \subseteq Nat
  /\ Keys \subseteq STRING \ {"cont"}
  /\ {Commands, Words} \subseteq Seq(Seq(STRING))
  /\ \A list_of \in {Commands, Words} : \A k \in DOMAIN list_of :
       list_of[k] # <<>> => list_of[k][1] # "cont"

VARIABLES line, pos,         \* s_line's bytes, s_pos
          hist, hist_at,     \* newest first
          sb, back,          \* the scrollback, and how far the view is back
          out,               \* s_out
          rows, query,       \* s_rows; the size query: "none", "sent", "late"
          state, params,     \* of the escape sequence being read
          running,           \* a command runs, the lock released
          owed,              \* the keyboard has the rest of a character to send
          dropped, shown,    \* history: lines dropped; the newest line on the screen
          ahead, unstored,   \* history: lines on the screen since it was drawn that the
                             \* scrollback had no memory for; characters of all such lines
          printed, breaks    \* history: characters printed; those a newline followed

edit_vars == <<line, pos, hist, hist_at>>
out_vars  == <<sb, back, dropped, shown, ahead, unstored>>
print_vars == <<out, printed, breaks>>
console_vars == <<edit_vars, out_vars, print_vars, rows, query, state, params, running, owed>>

ConsoleInit ==
  /\ line = <<>> /\ pos = 0 /\ hist = <<>> /\ hist_at = 0
  /\ sb = <<>> /\ back = 0 /\ dropped = 0 /\ shown = 0 /\ ahead = 0 /\ unstored = {}
  /\ out = <<>> /\ printed = 0 /\ breaks = {}
  /\ rows = ROWS /\ query = "sent" /\ state = "NORMAL" /\ params = 0
  /\ running = FALSE /\ owed = FALSE

-----------------------------------------------------------------------------
(* The scrollback: the oldest lines go while there are too many lines or   *)
(* too many bytes; scrolled back, the view stays where it was.             *)
sb_bytes(lines) == FoldLeft(LAMBDA sum, text : sum + Len(text) + 1, 0, lines)

Kept(text) ==
  LET Fits(n) == LET rest == SubSeq(sb, n + 1, Len(sb)) IN
        /\ Len(rest) < SCROLLBACK_LINES
        /\ sb_bytes(rest) + Len(text) + 1 <= SCROLLBACK_BYTES
  IN  SubSeq(sb, 1 + Min({n \in 0 .. Len(sb) : n = Len(sb) \/ Fits(n)}), Len(sb))

(* The mutant moves the view with every line.                              *)
sb_back_follows(count) == back
sb_back(count) == IF back = 0 THEN 0 ELSE Min({back + 1, count})

page_rows == rows - 2
Total == dropped + Len(sb)

(* What the console itself writes between the lines printed.               *)
echo == <<0>>
list == <<0, 0>>

(* sb_add.  The oldest lines have gone before there turns out to be no     *)
(* memory for the new one.                                                 *)
sb_add(text) ==
  /\ dropped' = dropped + Len(sb) - Len(Kept(text))
  /\ \/ /\ sb' = Append(Kept(text), text) /\ back' = sb_back(Len(sb'))
        /\ UNCHANGED <<ahead, unstored>>
     \/ /\ sb' = Kept(text) /\ unstored' = unstored \union Range(text)
        /\ ahead' = IF back = 0 THEN ahead + 1 ELSE ahead
        /\ UNCHANGED back

(* emit_line: live, the terminal's region scrolls by one line, stored or   *)
(* not.                                                                    *)
emit_line(text) ==
  /\ Total + ahead < MaxLines
  /\ sb_add(text)
  /\ shown' = IF back = 0 THEN shown + 1 ELSE shown

draw_output == shown' = dropped' + Len(sb') - back' /\ ahead' = 0

(* console_print, one character, as stdout's put() calls it.  The mutant   *)
(* leaves out the character that found the line full.                      *)
console_print_loses(newline) ==
  /\ printed < MaxPrints
  /\ IF newline \/ Len(out) = OUT_LINE_BYTES THEN emit_line(out) ELSE UNCHANGED out_vars
  /\ IF newline
     THEN out' = <<>> /\ breaks' = breaks \union {printed} /\ UNCHANGED printed
     ELSE /\ printed' = printed + 1 /\ UNCHANGED breaks
          /\ out' = IF Len(out) = OUT_LINE_BYTES THEN <<>> ELSE Append(out, printed + 1)

console_print(newline) ==
  /\ printed < MaxPrints
  /\ IF newline \/ Len(out) = OUT_LINE_BYTES THEN emit_line(out) ELSE UNCHANGED out_vars
  /\ IF newline
     THEN out' = <<>> /\ breaks' = breaks \union {printed} /\ UNCHANGED printed
     ELSE /\ printed' = printed + 1 /\ UNCHANGED breaks
          /\ out' = Append(IF Len(out) = OUT_LINE_BYTES THEN <<>> ELSE out, printed + 1)

PrintCharacter ==
  /\ \E newline \in BOOLEAN : console_print(newline)
  /\ UNCHANGED <<edit_vars, rows, query, state, params, running, owed>>

-----------------------------------------------------------------------------
(* The input line.                                                         *)
Text(l, at) == line' = l /\ pos' = at
Move(at) == Text(line, at)
Before(at) == SubSeq(line, 1, at)
Behind(at) == SubSeq(line, at + 1, Len(line))

insert(c) == IF Len(line) + 1 >= LINE_MAX_BYTES THEN Move(pos)
             ELSE Text(Before(pos) \o <<c>> \o Behind(pos), pos + 1)

delete_range(from, to) == Text(Before(from) \o Behind(to), from)

(* By characters: over the continuation bytes.  The mutant goes by bytes.  *)
cursor_left_bytes == IF pos = 0 THEN 0 ELSE pos - 1
cursor_left ==
  IF pos = 0 THEN 0
  ELSE Max({0} \union {at \in 0 .. pos - 1 : line[at + 1] # "cont"})
cursor_right ==
  IF pos = Len(line) THEN pos
  ELSE Min({Len(line)} \union {at \in pos + 1 .. Len(line) - 1 : line[at + 1] # "cont"})

(* Ctrl-W: the spaces before the cursor, and the word before them.         *)
word_start ==
  LET word == Max({0} \union {at \in 1 .. pos : line[at] # "space"})
  IN  Max({0} \union {at \in 1 .. word : line[at] = "space"})

history_show(at) ==
  /\ hist_at' = at
  /\ LET l == IF at = 0 THEN <<>> ELSE hist[at] IN Text(l, Len(l))
  /\ UNCHANGED hist

history_add(l) ==
  hist' = IF hist # <<>> /\ hist[1] = l THEN hist
          ELSE SubSeq(<<l>> \o hist, 1, Min({Len(hist) + 1, HISTORY_LEN}))

-----------------------------------------------------------------------------
(* Completion of the argument under the cursor: its beginning, and the     *)
(* texts that may stand there.                                             *)
argument == Max({0} \union {at \in 1 .. pos : line[at] = "space"})
prefix   == SubSeq(line, argument + 1, pos)

texts ==
  LET first == \A at \in 1 .. argument : line[at] = "space"
      known == \E c \in Range(Commands) : \E lead \in 0 .. argument :
                 /\ \A at \in 1 .. lead : line[at] = "space"
                 /\ IsPrefix(c \o <<"space">>, SubSeq(line, lead + 1, argument))
  IN  IF first THEN Commands ELSE IF known THEN Words ELSE <<>>

(* The first MAX_CANDIDATES texts with the prefix, by their places; what   *)
(* they have in common; and what that puts in the argument's place.        *)
cand ==
  LET found == {k \in DOMAIN texts : IsPrefix(prefix, texts[k])}
  IN  {k \in found : Cardinality({j \in found : j < k}) < MAX_CANDIDATES}

only   == Cardinality(cand) = 1
common ==
  LET text == texts[Min(cand)]
  IN  SubSeq(text, 1, Max({n \in 0 .. Len(text) :
        \A k \in cand : IsPrefix(SubSeq(text, 1, n), texts[k])}))
raw    == common \o IF only /\ common # <<>> THEN <<"space">> ELSE <<>>

replace_before_cursor(from, text) ==
  IF from + Len(text) + Len(line) - pos >= LINE_MAX_BYTES THEN Move(pos)
  ELSE Text(Before(from) \o text \o Behind(pos), from + Len(text))

complete ==
  \/ cand = {} /\ Move(pos) /\ UNCHANGED out_vars
  \/ /\ cand # {} /\ (Len(common) > Len(prefix) \/ only)
     /\ replace_before_cursor(argument, raw) /\ UNCHANGED out_vars
  \/ /\ cand # {} /\ Len(common) <= Len(prefix) /\ ~only
     /\ Move(pos) /\ emit_line(list)

-----------------------------------------------------------------------------
(* A key that is one byte.                                                 *)
enter ==
  /\ hist_at' = 0 /\ Text(<<>>, 0)
  /\ IF line = <<>> THEN query' = "sent" /\ UNCHANGED <<hist, running, out_vars>>
     ELSE history_add(line) /\ emit_line(echo) /\ running' = TRUE

Still == UNCHANGED <<hist, hist_at, out_vars, running>>

byte(c) ==
  CASE c = "enter" -> enter
    [] c = "backspace" -> delete_range(cursor_left, pos) /\ Still
    [] c = "tab" -> complete /\ UNCHANGED <<hist, hist_at, running>>
    [] c = "ctrl_a" -> Move(0) /\ Still
    [] c = "ctrl_e" -> Move(Len(line)) /\ Still
    [] c = "ctrl_c" -> Text(<<>>, 0) /\ hist_at' = 0 /\ UNCHANGED <<hist, out_vars, running>>
    [] c = "ctrl_u" -> delete_range(0, pos) /\ Still
    [] c = "ctrl_w" -> delete_range(word_start, pos) /\ Still
    [] OTHER -> insert(c) /\ Still

(* A CSI sequence: its final byte and first parameter, or an answered size. *)
page(by) ==
  /\ back' = Max({0, Min({back + by, Max({0, Len(sb) - page_rows})})})
  /\ UNCHANGED <<sb, dropped, unstored>> /\ draw_output

csi(a, final) ==
  /\ CASE final = "A" /\ hist_at < Len(hist) -> history_show(hist_at + 1) /\ UNCHANGED out_vars
       [] final = "B" /\ hist_at > 0 -> history_show(hist_at - 1) /\ UNCHANGED out_vars
       [] final = "C" -> Move(cursor_right) /\ UNCHANGED <<hist, hist_at, out_vars>>
       [] final = "D" -> Move(cursor_left) /\ UNCHANGED <<hist, hist_at, out_vars>>
       [] final = "~" /\ a = 3 /\ pos < Len(line) ->
            delete_range(pos, cursor_right) /\ UNCHANGED <<hist, hist_at, out_vars>>
       [] final = "~" /\ a \in {5, 6} ->
            page(IF a = 5 THEN page_rows ELSE -page_rows) /\ UNCHANGED edit_vars
       [] OTHER ->
            /\ Move(CASE final = "H" \/ (final = "~" /\ a \in {1, 7}) -> 0
                      [] final = "F" \/ (final = "~" /\ a \in {4, 8}) -> Len(line)
                      [] OTHER -> pos)
            /\ UNCHANGED <<hist, hist_at, out_vars>>
  /\ UNCHANGED <<rows, running>>

(* The size answered to a query: the screen is drawn anew, live.           *)
size_answer(a) ==
  IF query = "sent" /\ a >= MIN_ROWS
  THEN /\ rows' = a /\ query' = "none" /\ back' = 0
       /\ UNCHANGED <<sb, dropped, unstored>> /\ draw_output
  ELSE /\ query' = IF query = "late" THEN "none" ELSE query
       /\ UNCHANGED <<rows, out_vars>>

-----------------------------------------------------------------------------
(* One turn of the console task.  A query that has had no answer in time   *)
(* is given up first, and the screen drawn at the size it has.             *)
Reading == ~running
GiveUp == query' = IF query = "late" THEN "none" ELSE query

Time == query = "sent" /\ query' = "late"
        /\ UNCHANGED <<edit_vars, out_vars, print_vars, rows, state, params, running, owed>>

NothingRead ==
  /\ Reading /\ query = "late" /\ GiveUp
  /\ UNCHANGED <<sb, back, dropped, unstored>> /\ draw_output
  /\ UNCHANGED <<edit_vars, print_vars, rows, state, params, running, owed>>

Key ==
  /\ Reading /\ state = "NORMAL"
  /\ \E c \in IF owed THEN {"cont"} ELSE Keys :
       /\ byte(c) /\ owed' = (c = "lead")
       /\ IF c = "enter" /\ line = <<>> THEN TRUE ELSE GiveUp
       /\ IF c = "enter" THEN TRUE ELSE UNCHANGED running
  /\ UNCHANGED <<print_vars, rows, state, params>>

Escape ==
  /\ Reading /\ state = "NORMAL" /\ ~owed /\ state' = "ESC" /\ params' = 0 /\ GiveUp
  /\ UNCHANGED <<edit_vars, out_vars, print_vars, rows, running, owed>>

Introduce ==
  /\ Reading /\ state = "ESC" /\ GiveUp
  /\ state' \in {"CSI", "SS3", "NORMAL"}
  /\ UNCHANGED <<edit_vars, out_vars, print_vars, rows, params, running, owed>>

Parameter ==
  /\ Reading /\ state = "CSI" /\ params = 0 /\ GiveUp
  /\ params' \in Params
  /\ UNCHANGED <<edit_vars, out_vars, print_vars, rows, state, running, owed>>

Final ==
  /\ Reading /\ state \in {"CSI", "SS3"} /\ state' = "NORMAL" /\ params' = 0
  /\ \/ /\ \E final \in {"A", "B", "C", "D", "H", "F", "~"} : csi(params, final)
        /\ GiveUp
     \/ size_answer(params) /\ UNCHANGED <<edit_vars, running>>
  /\ UNCHANGED <<print_vars, owed>>

(* The command has run; it printed as any task does.                       *)
CommandEnds ==
  /\ running /\ running' = FALSE
  /\ UNCHANGED <<edit_vars, out_vars, print_vars, rows, query, state, params, owed>>

ConsoleNext ==
  \/ PrintCharacter \/ Time \/ NothingRead \/ CommandEnds
  \/ Key \/ Escape \/ Introduce \/ Parameter \/ Final

ConsoleSpec == ConsoleInit /\ [][ConsoleNext]_console_vars

-----------------------------------------------------------------------------
(***************************************************************************)
(* PROPERTY.  The line fits its buffer, and the cursor is never inside a   *)
(* UTF-8 character, so that what is typed, deleted or completed there      *)
(* leaves the characters beside it whole: through typing that the full     *)
(* buffer refuses half way, word deletion, history and completion          *)
(* (console.c:374-384, 481-508, 639-686).                                  *)
(***************************************************************************)
CursorNeverInsideCharacter ==
  /\ Len(line) < LINE_MAX_BYTES /\ pos \in 0 .. Len(line)
  /\ pos < Len(line) => line[pos + 1] # "cont"

(***************************************************************************)
(* PROPERTY.  The terminal shows the lines the console thinks it shows:    *)
(* lines that come in while the view is scrolled back leave it in place,   *)
(* whatever the scrollback drops, until every line in view is dropped; and *)
(* it is ahead by those lines alone that came in live, since the screen    *)
(* was drawn, for which the scrollback had no memory (console.c:101-126,   *)
(* 193-230).                                                               *)
(***************************************************************************)
ScreenMatchesView ==
  /\ shown = Total - back + ahead \/ (back # 0 /\ back >= Len(sb))
  /\ ahead # 0 => back = 0

(***************************************************************************)
(* PROPERTY.  The lines printed are the characters printed, in order, none *)
(* lost but with the oldest lines or with a line there was no memory for,  *)
(* a line ending at a newline or where the buffer was full; an echoed      *)
(* command or a list of candidates comes between lines and tears none      *)
(* (console.c:101-126, 238-251, 461-468, 522-524).                         *)
(***************************************************************************)
LinesAsPrinted ==
  LET log == Append(sb, out)
      Shown(c) == \/ c \in unstored
                  \/ \E i \in DOMAIN log : \E k \in DOMAIN log[i] : log[i][k] = c
  IN  /\ \A i \in DOMAIN log : \A k \in DOMAIN log[i] :
           LET text == log[i]
               c == text[k]
           IN  text[1] > 0 \/ c > 0 =>
                 /\ text[1] > 0 /\ c = text[1] + k - 1 /\ c <= printed
                 /\ \A later \in c .. printed : Shown(later)
                 /\ \A j \in i + 1 .. Len(log) : \A m \in DOMAIN log[j] :
                      log[j][m] = 0 \/ c < log[j][m]
                 /\ k < Len(text) => c \notin breaks
                 /\ k = Len(text) /\ i < Len(log) =>
                      c \in breaks \/ Len(text) = OUT_LINE_BYTES
      /\ dropped = 0 => \A c \in 1 .. printed : Shown(c)
=============================================================================
