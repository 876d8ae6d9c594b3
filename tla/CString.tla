------------------------------- MODULE CString -------------------------------
(***************************************************************************)
(* The parts of src/fusion_os/common/string.c that keep state: the bump   *)
(* allocator malloc over the static memory_pool (free does nothing), and  *)
(* strtok with its static token_ptr, which writes NULs into the buffer it *)
(* tokenizes; with strlen, strcpy, strdup, strchr and strcmp, which they   *)
(* and their callers use.  The library state is a record                   *)
(*   [pool, memory_used, token_ptr]                                        *)
(* where pool is the byte array, indexed from 0.  A string held outside   *)
(* the pool (a caller's buffer) is a sequence of its non-NUL bytes.       *)
(***************************************************************************)
EXTENDS Integers, Sequences

CONSTANT POOL_SIZE   \* sizeof(memory_pool): 1 MiB in the code

NULL == -1

PoolOffsets == 0..(POOL_SIZE - 1)

InitLib == [pool |-> [i \in PoolOffsets |-> 0], memory_used |-> 0, token_ptr |-> NULL]

\* char is signed: bytes of 128 and above compare as negative values.
Signed(b) == IF b >= 128 THEN b - 256 ELSE b

\* strlen of a string held outside the pool.
strlen(s) == Len(s)

\* The string at offset p of the pool, up to its NUL.
RECURSIVE StrAt(_, _)
StrAt(m, p) == IF m[p] = 0 THEN <<>> ELSE <<m[p]>> \o StrAt(m, p + 1)

\* strcpy(pool + p, s): the bytes of s and a NUL.
strcpy(m, p, s) ==
  [i \in DOMAIN m |-> IF p <= i /\ i < p + Len(s) THEN s[i - p + 1]
                      ELSE IF i = p + Len(s) THEN 0 ELSE m[i]]

\* strcmp: the first difference of the two strings, as signed chars.
RECURSIVE strcmp(_, _)
strcmp(s, t) ==
  IF s # <<>> /\ t # <<>> /\ Head(s) = Head(t) THEN strcmp(Tail(s), Tail(t))
  ELSE (IF s = <<>> THEN 0 ELSE Signed(Head(s))) - (IF t = <<>> THEN 0 ELSE Signed(Head(t)))

\* strchr(s, c) # NULL: the loop stops at the NUL, so c = 0 is never found.
strchr(s, c) == \E i \in 1..Len(s) : s[i] = c

\* Mutant of Align8: rounded down rather than up.
Align8Down(n) == (n \div 8) * 8

\* memory_used = (memory_used + 7) & ~7
Align8(n) == ((n + 7) \div 8) * 8

\* malloc: [lib, ptr], ptr NULL when the pool cannot hold size bytes more.
malloc(lib, size) ==
  IF lib.memory_used + size > POOL_SIZE THEN [lib |-> lib, ptr |-> NULL]
  ELSE [lib |-> [lib EXCEPT !.memory_used = Align8(@ + size)], ptr |-> lib.memory_used]

\* free does not deallocate.
free(lib, ptr) == lib

\* strdup: malloc(strlen + 1), then strcpy when that succeeded.
strdup(lib, s) ==
  LET a == malloc(lib, strlen(s) + 1)
  IN  IF a.ptr = NULL THEN a
      ELSE [a EXCEPT !.lib.pool = strcpy(@, a.ptr, s)]

\* The first offset from p whose byte is NUL or (In) is / (~In) is not in delim.
RECURSIVE SkipDelims(_, _, _), SkipToken(_, _, _)
SkipDelims(m, p, delim) == IF m[p] # 0 /\ strchr(delim, m[p]) THEN SkipDelims(m, p + 1, delim) ELSE p
SkipToken(m, p, delim) == IF m[p] # 0 /\ ~strchr(delim, m[p]) THEN SkipToken(m, p + 1, delim) ELSE p

\* Mutant of strtok: the token end is not overwritten with a NUL.
strtok_no_terminate(lib, str, delim) ==
  LET tp == IF str # NULL THEN str ELSE lib.token_ptr
      start == SkipDelims(lib.pool, tp, delim)
      end == SkipToken(lib.pool, start, delim)
  IN  IF tp = NULL THEN [lib |-> lib, ret |-> NULL]
      ELSE IF lib.pool[start] = 0 THEN [lib |-> [lib EXCEPT !.token_ptr = start], ret |-> NULL]
      ELSE IF lib.pool[end] # 0 THEN [lib |-> [lib EXCEPT !.token_ptr = end + 1], ret |-> start]
      ELSE [lib |-> [lib EXCEPT !.token_ptr = end], ret |-> start]

\* strtok(str, delim), str NULL or a pool offset: [lib, ret].  A new str
\* replaces token_ptr; leading delimiters are skipped; the token's end is
\* overwritten with a NUL and token_ptr moved past it.
strtok(lib, str, delim) ==
  LET tp == IF str # NULL THEN str ELSE lib.token_ptr
      start == SkipDelims(lib.pool, tp, delim)
      end == SkipToken(lib.pool, start, delim)
  IN  IF tp = NULL THEN [lib |-> lib, ret |-> NULL]
      ELSE IF lib.pool[start] = 0 THEN [lib |-> [lib EXCEPT !.token_ptr = start], ret |-> NULL]
      ELSE IF lib.pool[end] # 0
           THEN [lib |-> [lib EXCEPT !.pool[end] = 0, !.token_ptr = end + 1], ret |-> start]
      ELSE [lib |-> [lib EXCEPT !.token_ptr = end], ret |-> start]

(***************************************************************************)
(* memmove, on a byte array m: forward when dest is below src, else        *)
(* backward from the end, so that an overlapping source is read before it  *)
(* is overwritten.                                                         *)
(***************************************************************************)
RECURSIVE CopyForward(_, _, _, _), CopyBackward(_, _, _, _)
CopyForward(m, d, s, n) == IF n = 0 THEN m ELSE CopyForward([m EXCEPT ![d] = m[s]], d + 1, s + 1, n - 1)
CopyBackward(m, d, s, n) == IF n = 0 THEN m ELSE CopyBackward([m EXCEPT ![d + n - 1] = m[s + n - 1]], d, s, n - 1)

\* Mutant of memmove: the direction test inverted.
memmove_inverted(m, d, s, n) == IF d > s THEN CopyForward(m, d, s, n) ELSE CopyBackward(m, d, s, n)

memmove(m, d, s, n) == IF d < s THEN CopyForward(m, d, s, n) ELSE CopyBackward(m, d, s, n)

\* strncpy(dest, src, n) for n at most the destination's size: the first n
\* bytes of src, the rest of dest's n bytes NUL.
strncpy(s, n) == IF Len(s) <= n THEN s ELSE SubSeq(s, 1, n)
(***************************************************************************)
(* The formatting functions, by the number of characters they write: the  *)
(* terminal only advances its cursor by what it prints.  A format is a    *)
(* sequence of items, Lit(n) for n plain characters and Conv(c) for '%'   *)
(* followed by c; the argument of %s is the length of the string passed,  *)
(* of %d, %u and %x the value (below 2^31 wherever it is used).           *)
(***************************************************************************)
Lit(n) == [lit |-> n, conv |-> ""]
Conv(c) == [lit |-> 0, conv |-> c]

\* int_to_str(num, str, base): nothing for a base outside 2..36; a '-'
\* for a negative number; one digit per turn of the loop dividing num by
\* base, and one for 0.  reverse only reorders them.
int_to_str(num, base) ==
  LET RECURSIVE Digits(_)
      Digits(n) == IF n < base THEN 1 ELSE 1 + Digits(n \div base)
  IN  IF base < 2 \/ base > 36 THEN 0
      ELSE (IF num < 0 THEN 1 ELSE 0) + Digits(IF num < 0 THEN -num ELSE num)

\* vsprintf: %d and %u through int_to_str in base 10 (%u converted to a
\* signed int), %x in base 16, %c one character, %s the string, and
\* every other conversion, "%%" included, the character after the '%'
\* with no argument taken.
RECURSIVE vsprintf(_, _)
vsprintf(fmt, args) ==
  IF fmt = <<>> THEN 0
  ELSE LET it == Head(fmt)
       IN  CASE it.conv = ""           -> it.lit + vsprintf(Tail(fmt), args)
             [] it.conv \in {"d", "u"} -> int_to_str(Head(args), 10) + vsprintf(Tail(fmt), Tail(args))
             [] it.conv = "x"          -> int_to_str(Head(args), 16) + vsprintf(Tail(fmt), Tail(args))
             [] it.conv = "s"          -> Head(args) + vsprintf(Tail(fmt), Tail(args))
             [] it.conv = "c"          -> 1 + vsprintf(Tail(fmt), Tail(args))
             [] OTHER                  -> 1 + vsprintf(Tail(fmt), args)

\* vsnprintf(str, size, ..): vsprintf formats in full, then a result of
\* size or more is cut to size - 1 characters.
vsnprintf(size, fmt, args) ==
  LET r == vsprintf(fmt, args) IN IF r >= size THEN size - 1 ELSE r
====
