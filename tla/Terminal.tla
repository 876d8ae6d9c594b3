------------------------------ MODULE Terminal ------------------------------
(***************************************************************************)
(* The command line of the terminal, src/fusion_os/dolphin/terminal.c:    *)
(* terminal_handle_keypress editing command_buffer, terminal_handle_enter  *)
(* adding the line to command_history and running it with                 *)
(* terminal_execute_command, which copies it with strdup, splits it with  *)
(* strtok and calls the handler registered under its first word.  The     *)
(* string library (CString) is part of the state: strdup takes the copy   *)
(* from the malloc pool, which free never gives back, and strtok keeps     *)
(* its position in a static pointer.                                      *)
(*                                                                         *)
(* The screen is the cursor, the scroll offset and the text area's top    *)
(* row, which every character written moves: the prompt, the echo of a    *)
(* key and what a handler prints.  What is drawn is left out (the text    *)
(* drawing functions are declared but defined nowhere); a character only  *)
(* advances the cursor, so a handler's output is its length.  The colour  *)
(* and attribute setters have no caller.                                  *)
(***************************************************************************)
EXTENDS CString, FiniteSets

CONSTANTS
  CMD_BUF_SIZE,          \* sizeof(command_buffer): 256 in the code
  COMMAND_HISTORY_SIZE,  \* 50 in the code
  MAX_ARGS,              \* the 16 entries of argv
  Printable,             \* key codes from 32 to 126 that the runs type
  Commands,              \* names terminal_init registers, in order, as byte sequences
  MaxLines,              \* bound: lines entered
  Builtins,              \* the handler registered with each name: "help", "clear", "cpu", "log", "exit"
  TERMINAL_WIDTH_CHARS,  \* 80 in the code
  TERMINAL_HEIGHT_CHARS, \* 30 in the code
  FB_HEIGHT,             \* the framebuffer's height in pixels: 768 in the mode framebuffer_init asks for
  CpuCount,              \* what smp_get_cpu_count returns
  MaxScrolls             \* bound: lines scrolled (empty lines are not counted by MaxLines)

VARIABLES
  command_buffer,   \* command_buffer up to command_buffer_pos
  command_history,  \* the rows of command_history, each up to its NUL
  command_history_count,
  lib,              \* memory_pool, memory_used and strtok's token_ptr
  last_run,         \* ghost: the last line parsed to an argument: argv, the handler found, whether strdup copied it
  entered,          \* ghost: the non-empty lines entered, oldest first
  blocks,           \* ghost: the [ptr, size] blocks malloc returned
  screen            \* terminal_state's cursor_x, cursor_y, scroll_offset and terminal_area.y

vars == <<command_buffer, command_history, command_history_count, lib, last_run, entered, blocks, screen>>

\* The delimiters of terminal_execute_command: " \t".
DELIM == <<32, 9>>

NoRun == [line |-> <<>>, argv |-> <<>>, copied |-> FALSE, handler |-> 0]

HistoryRows == 0..(COMMAND_HISTORY_SIZE - 1)

\* terminal_add_history: an empty line is refused; at capacity the rows
\* 1 .. SIZE-1 move down one with memmove and the count drops; the line
\* is copied into the row at the count with strncpy(.., 255).
\* Returns [rows, count].
terminal_add_history(h, cnt, line) ==
  LET full == cnt >= COMMAND_HISTORY_SIZE
      rows == IF full THEN memmove(h, 0, 1, COMMAND_HISTORY_SIZE - 1) ELSE h
      c == IF full THEN cnt - 1 ELSE cnt
  IN  IF strlen(line) = 0 THEN [rows |-> h, count |-> cnt]
      ELSE [rows |-> [rows EXCEPT ![c] = strncpy(line, 255)], count |-> c + 1]

\* The argument loop: while token is not NULL and argc < 16, store it and
\* take the next with strtok(NULL, " \t").  Returns [lib, argv].
RECURSIVE ArgLoop(_, _, _)
ArgLoop(l, token, argv) ==
  IF token # NULL /\ Len(argv) < MAX_ARGS
  THEN LET r == strtok(l, NULL, DELIM) IN ArgLoop(r.lib, r.ret, Append(argv, StrAt(l.pool, token)))
  ELSE [lib |-> l, argv |-> argv]

\* The index of the first registered name equal to argv[0], 0 if none.
Lookup(name) ==
  IF \E i \in 1..Len(Commands) : strcmp(Commands[i], name) = 0
  THEN CHOOSE i \in 1..Len(Commands) : strcmp(Commands[i], name) = 0 /\
                                       \A j \in 1..(i - 1) : strcmp(Commands[j], name) # 0
  ELSE 0

\* terminal_execute_command(line): [lib, copy, argv, handler].  An empty
\* line returns at once; otherwise strdup, strtok(cmd_copy, " \t") and the
\* argument loop; with no argument it returns, else it runs the handler
\* of argv[0] or prints "command not found" (handler 0).
terminal_execute_command(l, line) ==
  LET d == strdup(l, line)
      first == strtok(d.lib, d.ptr, DELIM)
      a == ArgLoop(first.lib, first.ret, <<>>)
  IN  IF strlen(line) = 0 THEN [lib |-> l, copy |-> NULL, argv |-> <<>>, handler |-> 0]
      ELSE [lib |-> a.lib, copy |-> d.ptr, argv |-> a.argv,
            handler |-> IF a.argv = <<>> THEN 0 ELSE Lookup(a.argv[1])]

(***************************************************************************)
(* The screen.                                                             *)
(***************************************************************************)
PROGGY_FONT_HEIGHT == 13
TERMINAL_BUFFER_LINES == 100
PROMPT_LEN == 11            \* "fusion_os$ "
PRINTF_BUF == 256           \* terminal_printf's char buffer[256]

\* terminal_scroll_up(lines): the text area moves down by the lines'
\* height, capped at max_scroll (an int compared as unsigned, so a
\* negative max_scroll caps nothing), and scroll_offset grows by lines.
\* terminal_draw only draws.
terminal_scroll_up(s, lines) ==
  LET max_scroll == TERMINAL_BUFFER_LINES * PROGGY_FONT_HEIGHT - (FB_HEIGHT - 20)
      want == lines * PROGGY_FONT_HEIGHT
      scroll_lines == IF max_scroll >= 0 /\ want > max_scroll THEN max_scroll ELSE want
  IN  IF lines = 0 THEN s
      ELSE [s EXCEPT !.area_y = @ + scroll_lines, !.scroll_offset = @ + lines]

\* terminal_write_char: a cursor at or past the last column moves to the
\* start of the next row, scrolling one line when that row is past the
\* last; the character is drawn and the cursor advances.
terminal_write_char(s) ==
  LET wrap == s.cursor_x >= TERMINAL_WIDTH_CHARS
      down == [s EXCEPT !.cursor_x = 0, !.cursor_y = @ + 1]
      t == IF ~wrap THEN s
           ELSE IF down.cursor_y >= TERMINAL_HEIGHT_CHARS
                THEN [terminal_scroll_up(down, 1) EXCEPT !.cursor_y = @ - 1]
                ELSE down
  IN  [t EXCEPT !.cursor_x = @ + 1]

\* terminal_write_string of n characters: the loop of terminal_write_char,
\* summed.  The characters take the columns x0 .. x0 + n - 1 of a row
\* W wide, counting on into the rows below, so the cursor ends after the
\* last one and moves down (x0 + n - 1) \div W rows; each row past the
\* last scrolls one line and keeps the cursor on the last row (a cursor
\* already below it, as in terminal_handle_enter, stays there).
terminal_write_string(s, n) ==
  LET W == TERMINAL_WIDTH_CHARS
      H == TERMINAL_HEIGHT_CHARS
      down == (s.cursor_x + n - 1) \div W
      scrolls == IF s.cursor_y >= H THEN down
                 ELSE IF s.cursor_y + down >= H THEN s.cursor_y + down - (H - 1) ELSE 0
      one == terminal_scroll_up(s, 1).area_y - s.area_y
  IN  IF n = 0 THEN s
      ELSE [s EXCEPT !.cursor_x = ((@ + n - 1) % W) + 1,
                     !.cursor_y = @ + down - scrolls,
                     !.scroll_offset = @ + scrolls,
                     !.area_y = @ + scrolls * one]

\* terminal_printf: vsnprintf into a 256-byte buffer, then written.
terminal_printf(s, fmt, args) == terminal_write_string(s, vsnprintf(PRINTF_BUF, fmt, args))

terminal_write_prompt(s) == terminal_write_string(s, PROMPT_LEN)

\* terminal_clear: cursor and scroll offset back to 0; terminal_area.y
\* is left where scrolling moved it.  (It also empties command_buffer.)
terminal_clear(s) == [s EXCEPT !.cursor_x = 0, !.cursor_y = 0, !.scroll_offset = 0]

\* terminal_print_help: a heading, then one row per registered command
\* with "  %-10s - %s\n": vsprintf has no '-' flag, so it writes "-10s - "
\* and the %s takes the name; the description is never printed.
terminal_print_help(s) ==
  LET RECURSIVE Rows(_, _)
      Rows(t, i) == IF i > Len(Commands) THEN t
                    ELSE Rows(terminal_printf(t, <<Lit(2), Conv("-"), Lit(6), Conv("s"), Lit(1)>>,
                                              <<Len(Commands[i])>>), i + 1)
  IN  Rows(terminal_printf(s, <<Lit(20)>>, <<>>), 1)

\* The builtin handlers, by what they do to the screen.
cmd_cpu(s) ==
  LET a == terminal_printf(s, <<Lit(17)>>, <<>>)
      b == terminal_printf(a, <<Lit(15), Conv("s"), Lit(1)>>, <<3>>)
  IN  terminal_printf(b, <<Lit(13), Conv("u"), Lit(1)>>, <<CpuCount>>)

\* Five lines of plain text, 20, 17, 16, 19 and 17 characters long.
cmd_log(s) == terminal_write_string(s, 20 + 17 + 16 + 19 + 17)

cmd_exit(s) == terminal_clear(terminal_printf(s, <<Lit(20)>>, <<>>))

\* What terminal_execute_command prints or clears: the handler found,
\* "command not found: %s\n" with argv[0], or nothing for a line with
\* no word.
RunHandler(s, handler, argv) ==
  IF handler = 0
  THEN IF argv = <<>> THEN s ELSE terminal_printf(s, <<Lit(19), Conv("s"), Lit(1)>>, <<Len(argv[1])>>)
  ELSE CASE Builtins[handler] = "help"  -> terminal_print_help(s)
         [] Builtins[handler] = "clear" -> terminal_clear(s)
         [] Builtins[handler] = "cpu"   -> cmd_cpu(s)
         [] Builtins[handler] = "log"   -> cmd_log(s)
         [] Builtins[handler] = "exit"  -> cmd_exit(s)

\* Mutant of NewLine: no scroll after the prompt.
NewLineNoScroll(s) == terminal_write_prompt([s EXCEPT !.cursor_y = @ + 1, !.cursor_x = 0])

\* The end of terminal_handle_enter: the next row, the prompt written on
\* it, and only then the scroll when that row is past the last.
NewLine(s) ==
  LET t == terminal_write_prompt([s EXCEPT !.cursor_y = @ + 1, !.cursor_x = 0])
  IN  IF t.cursor_y >= TERMINAL_HEIGHT_CHARS
      THEN [terminal_scroll_up(t, 1) EXCEPT !.cursor_y = @ - 1]
      ELSE t

\* The lines scrolled so far: terminal_area.y only grows, by one line
\* height a scroll (max_scroll, 1300 - 748 pixels, caps none).
Scrolls(s) == (s.area_y - 10) \div PROGGY_FONT_HEIGHT

\* terminal_init's screen: the text area at (10, 10), terminal_clear and
\* the prompt.
InitScreen == terminal_write_prompt(terminal_clear([cursor_x |-> 0, cursor_y |-> 0, scroll_offset |-> 0, area_y |-> 10]))

-----------------------------------------------------------------------------
\* After terminal_init: the buffer and history empty, the pool unused.
Init ==
  /\ command_buffer = <<>>
  /\ command_history = [i \in HistoryRows |-> <<>>]
  /\ command_history_count = 0
  /\ lib = InitLib
  /\ last_run = NoRun
  /\ entered = <<>>
  /\ blocks = {}
  /\ screen = InitScreen

\* Mutant of HandlePrintable: the room test lets the last byte be filled.
HandlePrintableFull(k) ==
  /\ Len(command_buffer) <= CMD_BUF_SIZE - 1
  /\ command_buffer' = Append(command_buffer, k)
  /\ screen' = terminal_write_char(screen)
  /\ UNCHANGED <<command_history, command_history_count, lib, last_run, entered, blocks>>

\* terminal_handle_keypress of a printable key: stored and echoed while
\* it leaves room for the NUL.
HandlePrintable(k) ==
  /\ Len(command_buffer) < CMD_BUF_SIZE - 1
  /\ command_buffer' = Append(command_buffer, k)
  /\ screen' = terminal_write_char(screen)
  /\ UNCHANGED <<command_history, command_history_count, lib, last_run, entered, blocks>>

\* terminal_handle_keypress of backspace (0x08 or 0x7f): the cursor goes
\* back only within its row; terminal_redraw_current_line keeps it.
HandleBackspace ==
  /\ Len(command_buffer) > 0
  /\ command_buffer' = SubSeq(command_buffer, 1, Len(command_buffer) - 1)
  /\ screen' = IF screen.cursor_x > 0 THEN [screen EXCEPT !.cursor_x = @ - 1] ELSE screen
  /\ UNCHANGED <<command_history, command_history_count, lib, last_run, entered, blocks>>

\* terminal_handle_keypress of '\r' or '\n': terminal_handle_enter.
HandleEnter ==
  LET r == terminal_execute_command(lib, command_buffer)
      h == terminal_add_history(command_history, command_history_count, command_buffer)
  IN  /\ Len(entered) < MaxLines
      /\ Scrolls(screen) < MaxScrolls
      /\ command_history' = h.rows
      /\ command_history_count' = h.count
      /\ lib' = r.lib
      /\ last_run' = IF r.argv # <<>>
                     THEN [line |-> command_buffer, argv |-> r.argv, copied |-> r.copy # NULL,
                           handler |-> r.handler]
                     ELSE last_run
      /\ entered' = IF Len(command_buffer) > 0 THEN Append(entered, command_buffer) ELSE entered
      /\ blocks' = IF r.copy # NULL THEN blocks \cup {[ptr |-> r.copy, size |-> Len(command_buffer) + 1]}
                   ELSE blocks
      /\ command_buffer' = <<>>
      /\ screen' = NewLine(RunHandler(screen, r.handler, r.argv))

Next ==
  \/ \E k \in Printable : HandlePrintable(k)
  \/ HandleBackspace
  \/ HandleEnter

Spec == Init /\ [][Next]_vars

-----------------------------------------------------------------------------
TypeOK ==
  /\ command_buffer \in Seq(Printable) /\ Len(command_buffer) < CMD_BUF_SIZE
  /\ command_history \in [HistoryRows -> Seq(Printable)]
  /\ command_history_count \in 0..COMMAND_HISTORY_SIZE
  /\ lib.memory_used \in 0..POOL_SIZE /\ lib.token_ptr \in {NULL} \cup PoolOffsets
  /\ lib.pool \in [PoolOffsets -> {0} \cup Printable]
  /\ screen \in [cursor_x : Nat, cursor_y : Nat, scroll_offset : Nat, area_y : Nat]

\* The words of a line: its maximal runs of characters other than " \t",
\* in order.  The reference for strtok's split.
Starts(s) == {i \in 1..Len(s) : ~strchr(DELIM, s[i]) /\ (i = 1 \/ strchr(DELIM, s[i - 1]))}
WordEnd(s, i) == CHOOSE j \in i..Len(s) : (\A k \in i..j : ~strchr(DELIM, s[k])) /\
                                          (j = Len(s) \/ strchr(DELIM, s[j + 1]))
NthStart(s, n) == CHOOSE i \in Starts(s) : Cardinality({j \in Starts(s) : j < i}) = n - 1
Words(s) == [n \in 1..Cardinality(Starts(s)) |-> SubSeq(s, NthStart(s, n), WordEnd(s, NthStart(s, n)))]

FirstWords(s) == SubSeq(Words(s), 1, IF Len(Words(s)) < MAX_ARGS THEN Len(Words(s)) ELSE MAX_ARGS)

\* When strdup copied the line, the argv terminal_execute_command builds,
\* and looks up and hands to the handler, is the line's first 16 words: strtok's NULs, its skipping of
\* repeated delimiters and the argc bound together split the line.
ArgvAreWords == last_run.copied => last_run.argv = FirstWords(last_run.line)

\* Every handler terminal_execute_command calls runs with words of the
\* line that was entered: strtok(NULL, ..) after a failed strdup must not
\* hand out words of an earlier line.
HandlersRunTypedWords == last_run.handler # 0 => last_run.argv = FirstWords(last_run.line)

\* The blocks malloc hands out lie inside memory_pool and never overlap:
\* the pool bound test and the 8-byte rounding of memory_used together.
PoolBlocksDisjoint ==
  /\ \A b \in blocks : b.ptr + b.size <= POOL_SIZE
  /\ \A b, c \in blocks : b # c => b.ptr + b.size <= c.ptr \/ c.ptr + c.size <= b.ptr

\* The rows below command_history_count hold the last COMMAND_HISTORY_SIZE
\* non-empty lines entered, oldest first: the count and the memmove of the
\* overlapping rows at capacity keep every line and drop only the oldest.
HistoryIsLastLines ==
  [i \in 1..command_history_count |-> command_history[i - 1]] = SubSeq(entered, IF Len(entered) > COMMAND_HISTORY_SIZE
                                    THEN Len(entered) - COMMAND_HISTORY_SIZE + 1 ELSE 1, Len(entered))

\* Between keys the cursor is on the TERMINAL_WIDTH_CHARS x
\* TERMINAL_HEIGHT_CHARS grid (terminal_write_char wraps lazily, so the
\* column may rest at the width), and once the screen has scrolled the
\* cursor is on its last row until a clear: the wrap in
\* terminal_write_char, the scroll terminal_handle_enter makes after it
\* writes the prompt past the last row, and terminal_clear's resets run
\* by cmd_clear and cmd_exit in the middle of a command together keep it.
CursorOnGrid ==
  /\ screen.cursor_x \in 0..TERMINAL_WIDTH_CHARS
  /\ screen.cursor_y \in 0..(TERMINAL_HEIGHT_CHARS - 1)
  /\ screen.scroll_offset > 0 => screen.cursor_y = TERMINAL_HEIGHT_CHARS - 1
====
