------------------------------- MODULE MCLogger -------------------------------
(***************************************************************************)
(* Model-checking instances of Logger.                                    *)
(***************************************************************************)
EXTENDS Logger
====
