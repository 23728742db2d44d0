------------------------------ MODULE KeyStore ------------------------------
(***************************************************************************)
(* The directory of sealed private keys: keymgr_tool creates, lists and    *)
(* removes key files while the key manager loads them by ocall.  A file    *)
(* is named by the first characters of its public key, is written in       *)
(* place, and holds the public key, the key sealed by the enclave and the  *)
(* user.  Every call of the tool is a process of its own that may die.     *)
(***************************************************************************)
EXTENDS Naturals, FiniteSets

CONSTANTS
  KsKeys,      \* bound: the keys a tool may generate
  KsName,      \* the name of a public key's file, its first characters
  MaxLoads     \* bound: the calls of list and of the key manager

NoKey == "no_key"     \* what an uninitialised buffer holds: no key and no sealed data
Pubs == KsKeys \cup {NoKey}
KsNames == {KsName[k] : k \in Pubs}

ASSUME KeyStoreAssumption == DOMAIN KsName = Pubs /\ NoKey \notin KsKeys /\ MaxLoads \in Nat

VARIABLES
  dir,       \* the files
  tool,      \* the tool that creates a key: where it is, and what it will write
  answered,  \* what load_and_check_key_pair answered last
  listed,    \* what list showed last, and whether it ended
  loads,     \* calls made so far
  made, gone \* keys generated and reported as created; the ones removed or written over since

kvars == <<dir, tool, answered, listed, loads, made, gone>>

NoFile == [st |-> "none", pkey |-> NoKey, sealed |-> NoKey]
Partial == [st |-> "partial", pkey |-> NoKey, sealed |-> NoKey]
Package(pkey, sealed) == [st |-> "whole", pkey |-> pkey, sealed |-> sealed]
NoAnswer == [asked |-> NoKey, ret |-> "none", skey |-> NoKey]
NoList == [ended |-> FALSE, shown |-> {}, failed |-> {}]

KeyStoreInit ==
  /\ dir = [n \in KsNames |-> NoFile]
  /\ tool = [pc |-> "idle", pair |-> NoFile, key |-> NoKey]
  /\ answered = NoAnswer
  /\ listed = NoList
  /\ loads = 0
  /\ made = {} /\ gone = {}

-----------------------------------------------------------------------------
\* generate_ecc_key_pair: the pair, or what is in the buffers when drawing or sealing
\* failed.  create_key does not look at what the call returns.
Generated(k) == {Package(k, k), Package(k, NoKey), Package(NoKey, NoKey)}
Generate(k) ==
  /\ tool.pc = "idle" /\ k \notin made
  /\ \E pair \in Generated(k) : tool' = [pc |-> "named", pair |-> pair, key |-> k]
  /\ UNCHANGED <<dir, answered, listed, loads, made, gone>>
\* is_user_id_valid refuses: the new key is dropped.
RefuseUser ==
  /\ tool.pc = "named"
  /\ tool' = [pc |-> "idle", pair |-> NoFile, key |-> NoKey]
  /\ UNCHANGED <<dir, answered, listed, loads, made, gone>>

FileName(pkey) == KsName[pkey]
\* write_json opens the file, which empties it, and writes it.
BeginWrite ==
  /\ tool.pc = "named"
  /\ dir' = [dir EXCEPT ![FileName(tool.pair.pkey)] = Partial]
  /\ gone' = gone \cup {k \in made : FileName(k) = FileName(tool.pair.pkey)}
  /\ tool' = [tool EXCEPT !.pc = "writing"]
  /\ UNCHANGED <<answered, listed, loads, made>>
Reported == IF tool.pair = Package(tool.key, tool.key) THEN made \cup {tool.key} ELSE made
write_key_pair_to_file ==
  /\ tool.pc = "writing"
  /\ dir' = [dir EXCEPT ![FileName(tool.pair.pkey)] = tool.pair]
  /\ made' = Reported
  /\ tool' = [pc |-> "idle", pair |-> NoFile, key |-> NoKey]
  /\ UNCHANGED <<answered, listed, loads, gone>>
\* The process dies, or the disk is full: what was written of the file stays.
ToolDies ==
  /\ tool.pc # "idle"
  /\ tool' = [pc |-> "idle", pair |-> NoFile, key |-> NoKey]
  /\ UNCHANGED <<dir, answered, listed, loads, made, gone>>

remove_key(n) ==
  /\ dir[n].st # "none"
  /\ dir' = [dir EXCEPT ![n] = NoFile]
  /\ gone' = gone \cup {k \in made : FileName(k) = n}
  /\ UNCHANGED <<tool, answered, listed, loads, made>>

-----------------------------------------------------------------------------
\* read_key_pair_from_file throws for a file that is not whole.
WholeFile(n) == dir[n].st = "whole"
CanDecrypt(f) == f.pkey # NoKey /\ f.sealed = f.pkey

\* list_keys, in the order of the directory, "backup" left out: every file is shown and
\* tried, until one cannot be read, which ends the program.
Present == {n \in KsNames : dir[n].st # "none"}
ListedFirst(seen) == seen \subseteq Present /\ Cardinality(seen) <= 1
ListedAll(seen) == seen = Present
list_keys ==
  /\ loads < MaxLoads /\ loads' = loads + 1
  /\ \E seen \in SUBSET Present :
       LET shown == {n \in seen : WholeFile(n)}
           ended == seen = shown
       IN  /\ IF ended THEN ListedAll(seen) ELSE Cardinality(seen \ shown) = 1
           /\ listed' = [ended |-> ended, shown |-> {dir[n].pkey : n \in shown},
                         failed |-> {dir[n].pkey : n \in {m \in shown : ~CanDecrypt(dir[m])}}]
  /\ UNCHANGED <<dir, tool, answered, made, gone>>

\* The host looks for the file that has the name of the key, and gives its sealed key.
ocall_load_key_pair(pkey) ==
  LET n == FileName(pkey)
  IN  CASE dir[n].st = "none" -> [ret |-> "not_found", sealed |-> NoKey]
        [] dir[n].st # "none" /\ ~WholeFile(n) -> [ret |-> "read_failed", sealed |-> NoKey]
        [] OTHER -> [ret |-> "success", sealed |-> dir[n].sealed]
load_key_pair_if_not_exist(pkey) ==
  LET r == ocall_load_key_pair(pkey)
  IN  IF r.ret = "success" /\ r.sealed = NoKey THEN [ret |-> "unseal_failed", sealed |-> NoKey] ELSE r
\* The public key of the key unsealed is made again and compared.
SamePublic(skey, pkey) == skey = pkey
AnyPublic(skey, pkey) == TRUE
PublicMatches(skey, pkey) == SamePublic(skey, pkey)
LoadResult(pkey) ==
  LET r == load_key_pair_if_not_exist(pkey)
  IN  CASE r.ret # "success" -> [asked |-> pkey, ret |-> r.ret, skey |-> NoKey]
        [] r.ret = "success" /\ ~PublicMatches(r.sealed, pkey) ->
             [asked |-> pkey, ret |-> "kmgr_pkey_skey_mismatch", skey |-> NoKey]
        [] OTHER -> [asked |-> pkey, ret |-> "success", skey |-> r.sealed]
load_and_check_key_pair(pkey) ==
  /\ loads < MaxLoads /\ loads' = loads + 1
  /\ answered' = LoadResult(pkey)
  /\ UNCHANGED <<dir, tool, listed, made, gone>>

KeyStoreNext ==
  \/ \E k \in KsKeys : Generate(k) \/ load_and_check_key_pair(k)
  \/ RefuseUser \/ BeginWrite \/ write_key_pair_to_file \/ ToolDies
  \/ \E n \in KsNames : remove_key(n)
  \/ list_keys

KeyStoreSpec == KeyStoreInit /\ [][KeyStoreNext]_kvars

-----------------------------------------------------------------------------
(* Properties.                                                             *)

\* load_and_check_key_pair: the private key given for a public key is that key's, though
\* the file was found by a part of the key and written by another process, and though
\* create_key writes whatever the enclave left in the buffers.
LoadedIsAsked == answered.ret = "success" => answered.skey = answered.asked

\* create_key generated and reported the key and nobody removed its file or wrote over it: whatever
\* other tools did, or failed to do, the key manager loads it.
ReportedLoads == \A k \in made \ gone : LoadResult(k).ret = "success"

\* list_keys ends only when it could read every file; then it showed every key that is
\* reported and still there, and a key it reports as failed cannot be loaded.
ListIsComplete ==
  [][listed' # listed /\ listed'.ended =>
       /\ made \ gone \subseteq listed'.shown
       /\ \A k \in listed'.failed \ {NoKey} : LoadResult(k).ret # "success"]_kvars

\* load_and_check_key_pair: the key asked for or none, and every key that is reported and
\* still there (the two parts above).
KeysLoad ==
  LoadedIsAsked /\ ReportedLoads
=============================================================================
