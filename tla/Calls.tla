------------------------------- MODULE Calls -------------------------------
(***************************************************************************)
(* Functions without state of their own.  One call is one step from a      *)
(* fresh caller: "last" is the call made, with its arguments and what it   *)
(* returned.  The modules of such functions share this variable, and their *)
(* properties are invariants about the call made.                          *)
(***************************************************************************)
EXTENDS Integers, Sequences

VARIABLE last

NoCall == [op |-> "none"]
CallInit == last = NoCall

Fresh == last = NoCall
Call(op, in, out) == last' = [op |-> op, in |-> in, out |-> out]

\* The property P(in, out) of the calls of op.
Of(op, P(_, _)) == last.op = op => P(last.in, last.out)
=============================================================================
