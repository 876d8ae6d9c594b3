----------------------------- MODULE MCTerminal -----------------------------
(***************************************************************************)
(* Model-checking instances of Terminal.  The registered names are one    *)
(* letter long: "a" and "b" stand for two of the builtin commands.         *)
(***************************************************************************)
EXTENDS Terminal

\* The handlers of the first two names: "a" is help, "b" is clear.
BuiltinsHC == <<"help", "clear">>

\* "a" is exit: a line printed, then the screen cleared.
BuiltinsE == <<"exit">>

\* 'a' registered.
CommandsA == << <<97>> >>

\* 'a' and 'b' registered.
CommandsAB == << <<97>>, <<98>> >>
====
