---------------------------- MODULE MCKeyService ----------------------------
(* KeyService for TLC: two analyzers with different measurements and       *)
(* signers, a data owner's key, and the policies that tell them apart.     *)
EXTENDS KeyService, TLC

CONSTANTS a1, a2, h1, h2, s1, s2

MCBody == Request \X Dian
MCIdentity ==
  (a1 :> [mr_enclave |-> h1, mr_signer |-> s1, inited |-> TRUE]) @@
  (a2 :> [mr_enclave |-> h2, mr_signer |-> s2, inited |-> TRUE])

MCPolicies ==
  {EmptyPolicy,
   [tag |-> "whitelist",
    list |-> <<[type |-> "signer", data |-> s2],
               [type |-> "enclave", data |-> h1]>>],
   [tag |-> "blacklist", list |-> <<[type |-> "enclave", data |-> h2]>>]}
\* The key manager's keys are interchangeable: all are stored, no policy names them.  So
\* are the analyzers, each with its measurement, where their signer is the same and there
\* is no policy.
Swapped == (a1 :> a2) @@ (a2 :> a1) @@ (h1 :> h2) @@ (h2 :> h1)
Symmetry == {d @@ a : d \in Permutations(Dian), a \in {Swapped, [x \in DOMAIN Swapped |-> x]}}
=============================================================================
