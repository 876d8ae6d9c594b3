------------------------------- MODULE Logger -------------------------------
(***************************************************************************)
(* The circular log buffer of src/unnamed/part_012 (logger.c).  The       *)
(* buffer is kept byte by byte, because its reader, logger_get_entries,   *)
(* parses it back from the bytes: an entry is the 8 bytes of the          *)
(* timestamp (always 100, little-endian), the level, the low byte of the  *)
(* subsystem length, the subsystem, the low byte of the message length    *)
(* and the message.  The characters of names and messages are TextByte;   *)
(* an entry is known by its level and its two lengths.  The console copy  *)
(* of write_log_to_console writes VGA memory only and is left out.        *)
(***************************************************************************)
EXTENDS Integers, Sequences

CONSTANTS
  LOG_BUFFER_SIZE,  \* 16384 in the code; a small size here, so that it wraps
  SubLens,          \* lengths of the subsystem names callers pass
  MsgLens,          \* lengths of the formatted messages
  InitSubLen,       \* length of "logger"
  InitMsgLen,       \* length of "logging system initialized"
  Levels,           \* the levels callers log at and set
  MaxRead,          \* max_entries of logger_get_entries
  MaxLogs           \* bound: entries written since the buffer was last cleared

VARIABLES
  started,   \* log_start_time # 0
  config,    \* logger_config
  buf,       \* log_buffer
  log_head, log_tail, log_count,
  logged     \* ghost: the entries written to the buffer since it was cleared, in order

vars == <<started, config, buf, log_head, log_tail, log_count, logged>>

\* logger.h
LOG_LEVEL_DEBUG == 0
LOG_LEVEL_INFO  == 1

\* The byte of a name or message character (lower-case letters, >= 95).
TextByte == 97

\* sizeof(subsystem) and sizeof(message) of logger_get_entries.
SubBufSize == 16
MsgBufSize == 256

Offsets == 0..(LOG_BUFFER_SIZE - 1)

\* entry_size of write_log_to_buffer: one byte more than it writes.
EntrySize(e) == 8 + 1 + 1 + e.sub + 1 + e.msg + 1

\* The bytes write_log_to_buffer writes for entry e.
Text(n) == [k \in 1..n |-> TextByte]
Timestamp == <<100, 0, 0, 0, 0, 0, 0, 0>>
EntryBytes(e) == Timestamp \o <<e.level, e.sub>> \o Text(e.sub) \o <<e.msg>> \o Text(e.msg)

\* Mutant of WrapTo: the head tested without the entry's size.
WrapToLate(head, e) == IF head > LOG_BUFFER_SIZE THEN 0 ELSE head

\* The wrap test of write_log_to_buffer.
WrapTo(head, e) == IF head + EntrySize(e) > LOG_BUFFER_SIZE THEN 0 ELSE head

\* bs copied into the buffer b at offset at.
CopyAt(b, at, bs) ==
  [i \in Offsets |-> IF at <= i /\ i < at + Len(bs) THEN bs[i - at + 1] ELSE b[i]]

\* The logger's state as a record, and its assignment.
LS == [started |-> started, config |-> config, buf |-> buf, log_head |-> log_head,
       log_tail |-> log_tail, log_count |-> log_count, logged |-> logged]

SetLS(st) ==
  /\ started' = st.started /\ config' = st.config /\ buf' = st.buf
  /\ log_head' = st.log_head /\ log_tail' = st.log_tail /\ log_count' = st.log_count
  /\ logged' = st.logged

\* write_log_to_buffer for entry e from the wrapped head h; log_count
\* grows while it is below the number of entries of e's size that fit.
WriteAt(st, e, h) ==
  [st EXCEPT !.buf = CopyAt(@, h, EntryBytes(e)),
             !.log_head = h + Len(EntryBytes(e)),
             !.log_count = IF @ < LOG_BUFFER_SIZE \div EntrySize(e) THEN @ + 1 ELSE @,
             !.logged = Append(@, e)]

write_log_to_buffer(st, e) == WriteAt(st, e, WrapTo(st.log_head, e))

\* The level and debug filters of logger_log and logger_vlog.
Passes(c, level) ==
  /\ level >= c.current_level
  /\ level = LOG_LEVEL_DEBUG => c.debug_enabled

\* logger_log once the logger has started: the entry written if it passes
\* the filters and log_to_buffer is set.  The subsystem lookup only swaps
\* equal strings; the console copy writes VGA memory only.
LogStarted(st, e) ==
  IF Passes(st.config, e.level) /\ st.config.log_to_buffer THEN write_log_to_buffer(st, e) ELSE st

InitEntry == [level |-> LOG_LEVEL_INFO, sub |-> InitSubLen, msg |-> InitMsgLen]

\* logger_init: once, the buffer zeroed, the counters reset, the
\* configuration set, and its own message logged.
logger_init(st) ==
  IF st.started THEN st
  ELSE LogStarted([st EXCEPT !.started = TRUE, !.buf = [i \in Offsets |-> 0],
                             !.log_head = 0, !.log_tail = 0, !.log_count = 0, !.logged = <<>>,
                             !.config = [@ EXCEPT !.log_to_console = TRUE, !.log_to_buffer = TRUE,
                                                  !.current_level = LOG_LEVEL_INFO]],
                  InitEntry)

\* logger_log and logger_vlog: logger_init first if log_start_time is 0.
logger_log(st, e) == LogStarted(logger_init(st), e)

\* Mutant of logger_clear_buffer: log_count not reset.
logger_clear_buffer_keep_count(st) ==
  [st EXCEPT !.log_head = 0, !.log_tail = 0, !.buf = [i \in Offsets |-> 0], !.logged = <<>>]

\* logger_clear_buffer
logger_clear_buffer(st) ==
  [st EXCEPT !.log_head = 0, !.log_tail = 0, !.log_count = 0,
             !.buf = [i \in Offsets |-> 0], !.logged = <<>>]

-----------------------------------------------------------------------------
(***************************************************************************)
(* logger_get_entries, as the list of entries it copies out.  An entry    *)
(* read is [ts, level, sub, msg], its fields the bytes it was parsed from; *)
(* a subsystem length of 16 or more leaves the local subsystem array      *)
(* uninitialized.  A parse that runs past the end of log_buffer reads     *)
(* memory that is not the buffer: the list then ends in OutOfBounds.      *)
(***************************************************************************)
OutOfBounds == [ts |-> <<>>, level |-> -1, sub |-> <<"past the buffer">>, msg |-> <<>>]
Uninitialized == <<"uninitialized">>

\* The header wrap test of the reader: 8 + 1 + 1 bytes must lie before the end.
HeaderAt(cur) == IF cur + 8 + 1 + 1 >= LOG_BUFFER_SIZE THEN 0 ELSE cur

Bytes(b, from, n) == [k \in 1..n |-> b[from + k - 1]]

\* Where the message length byte of the entry whose header is at c lies:
\* the subsystem is skipped only when it was copied.
SubEnd(b, c) == c + 10 + (IF b[c + 9] < SubBufSize THEN b[c + 9] ELSE 0)

\* The entry whose header is at c and whose message length byte is at c1.
EntryAt(b, c, c1) ==
  [ts |-> Bytes(b, c, 8), level |-> b[c + 8],
   sub |-> IF b[c + 9] < SubBufSize THEN Bytes(b, c + 10, b[c + 9]) ELSE Uninitialized,
   msg |-> Bytes(b, c1 + 1, b[c1])]

RECURSIVE ReadLoop(_, _, _), ReadFrom(_, _, _, _)
\* n more entries read from offset cur.
ReadLoop(b, cur, n) ==
  IF n = 0 THEN <<>> ELSE ReadFrom(b, HeaderAt(cur), SubEnd(b, HeaderAt(cur)), n)

ReadFrom(b, c, c1, n) ==
  IF c1 \notin Offsets \/ c1 + b[c1] \notin Offsets THEN <<OutOfBounds>>
  ELSE <<EntryAt(b, c, c1)>> \o ReadLoop(b, c1 + 1 + b[c1], n - 1)

\* logger_get_entries(buffer, max, &count): from log_tail, log_count
\* entries at most.
logger_get_entries(st, max) ==
  ReadLoop(st.buf, st.log_tail, IF st.log_count < max THEN st.log_count ELSE max)

\* What the reader should return for a logged entry.
Encode(e) == [ts |-> Timestamp, level |-> e.level, sub |-> Text(e.sub), msg |-> Text(e.msg)]

-----------------------------------------------------------------------------
Entries == [level : Levels, sub : SubLens, msg : MsgLens]

Configs == [debug_enabled : BOOLEAN, log_to_buffer : BOOLEAN, current_level : Levels]

\* Static initialization: log_start_time 0, the buffer zero, and the
\* configuration of the logger_config initializer.
Init ==
  /\ started = FALSE
  /\ config = [debug_enabled |-> FALSE, log_to_buffer |-> TRUE, current_level |-> LOG_LEVEL_INFO]
  /\ buf = [i \in Offsets |-> 0]
  /\ log_head = 0 /\ log_tail = 0 /\ log_count = 0
  /\ logged = <<>>

\* A call, unless it would write past the bound.
Within(st) == Len(st.logged) <= MaxLogs /\ SetLS(st)

LoggerInit == Within(logger_init(LS))

LoggerLog(e) == Within(logger_log(LS, e))

\* logger_vlog writes the subsystem as given; the state change is the same.
LoggerVlog(e) == Within(logger_log(LS, e))

LoggerSetConfig(c) == SetLS([LS EXCEPT !.config = c])

LoggerClearBuffer == SetLS(logger_clear_buffer(LS))

LoggerSetLevel(l) == SetLS([LS EXCEPT !.config.current_level = l])

LoggerEnableDebug == SetLS([LS EXCEPT !.config.debug_enabled = TRUE, !.config.current_level = LOG_LEVEL_DEBUG])

LoggerDisableDebug == SetLS([LS EXCEPT !.config.debug_enabled = FALSE, !.config.current_level = LOG_LEVEL_INFO])

Next ==
  \/ LoggerInit
  \/ \E e \in Entries : LoggerLog(e)
  \/ \E e \in Entries : LoggerVlog(e)
  \/ \E c \in Configs : LoggerSetConfig(c)
  \/ LoggerClearBuffer
  \/ \E l \in Levels : LoggerSetLevel(l)
  \/ LoggerEnableDebug
  \/ LoggerDisableDebug

Spec == Init /\ [][Next]_vars

-----------------------------------------------------------------------------
TypeOK ==
  /\ started \in BOOLEAN
  /\ config \in Configs
  /\ buf \in [Offsets -> 0..255]
  /\ log_head \in 0..LOG_BUFFER_SIZE /\ log_tail = 0
  /\ log_count \in 0..MaxLogs
  /\ logged \in Seq(Entries \cup {InitEntry}) /\ Len(logged) <= MaxLogs

\* The bytes of the entries written since the last clear, laid end to end.
RECURSIVE Written(_)
Written(s) == IF s = <<>> THEN 0 ELSE Len(EntryBytes(Head(s))) + Written(Tail(s))

\* Until write_log_to_buffer first wraps, logger_get_entries parses back
\* exactly the entries logged, oldest first, as many as log_count says:
\* the reader's layout and the writer's agree.
ReadsBackLogged ==
  log_head = Written(logged) =>
    /\ Len(logger_get_entries(LS, MaxRead)) <= Len(logged)
    /\ logger_get_entries(LS, MaxRead) = [k \in 1..Len(logger_get_entries(LS, MaxRead)) |-> Encode(logged[k])]

\* Every entry logger_get_entries returns is an entry that was logged:
\* the circular buffer hands back log records, never bytes parsed from
\* the middle of one or from past its end.
EntriesReadAreLogged ==
  \A k \in 1..Len(logger_get_entries(LS, MaxRead)) :
    \E j \in 1..Len(logged) : logger_get_entries(LS, MaxRead)[k] = Encode(logged[j])
====
