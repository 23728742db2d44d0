----------------------------- MODULE RpcChannel -----------------------------
(***************************************************************************)
(* What an analyzer may assume of its channel to the key manager: a        *)
(* channel is opened once, for one client; answers arrive only while it is *)
(* open; a closed channel never opens again.                               *)
(***************************************************************************)
EXTENDS Naturals

CONSTANTS
  Client,   \* those who call
  Chan,     \* names of channels
  NoChan    \* no channel

VARIABLES
  open,     \* the channel each client has open, if any
  used,     \* channels ever opened, whether or not they lasted
  answers   \* answers each client has received

vars == <<open, used, answers>>

TypeOK ==
  /\ open \in [Client -> Chan \cup {NoChan}]
  /\ used \subseteq Chan
  /\ answers \in [Client -> Nat]

Init ==
  /\ open = [c \in Client |-> NoChan]
  /\ used = {}
  /\ answers = [c \in Client |-> 0]

Open(c, k) ==
  /\ open[c] = NoChan
  /\ k \notin used
  /\ used' = used \cup {k}
  /\ open' \in {open, [open EXCEPT ![c] = k]}
  /\ UNCHANGED answers

\* An answer may be the last one of its channel.
Answer(c) ==
  /\ open[c] # NoChan
  /\ answers' = [answers EXCEPT ![c] = @ + 1]
  /\ open' \in {open, [open EXCEPT ![c] = NoChan]}
  /\ UNCHANGED used

\* Any number of channels close at once when the key manager is lost.
Close ==
  /\ open' \in {[c \in Client |-> IF c \in S THEN NoChan ELSE open[c]] :
                  S \in SUBSET Client}
  /\ UNCHANGED <<used, answers>>

Next ==
  \/ \E c \in Client, k \in Chan : Open(c, k)
  \/ \E c \in Client : Answer(c)
  \/ Close

Spec == Init /\ [][Next]_vars
=============================================================================
