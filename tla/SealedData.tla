----------------------------- MODULE SealedData -----------------------------
(***************************************************************************)
(* From the owner's data to the enclave that computes on it: seal_file of  *)
(* the data hub cuts the items a plugin reads into encrypted batches, one  *)
(* per item of a block file, and publishes the chained hash of the items;  *)
(* the analyzer's host reads the batches back (next_data_batch) and the    *)
(* data provider in the enclave decrypts them, chains the same hash, and   *)
(* gives the items to the engine one by one.                               *)
(*                                                                         *)
(* hash_256 has no collisions: the chained hash is the sequence of the     *)
(* items hashed.  A batch decrypts only under the key it was sealed with.  *)
(***************************************************************************)
EXTENDS BlockFile

CONSTANTS
  Size,           \* items (payload words) and their sizes
  MaxItemSize,    \* ypc::utc::max_item_size
  MaxData,        \* bound: items of the owner's data
  MaxProviders    \* bound: providers of the same data; they share one sealed_file

ASSUME SealedAssumption ==
  /\ MaxItemSize \in Nat \ {0}
  /\ MaxData \in Nat /\ MaxProviders \in Nat
  /\ \A i \in DOMAIN Size : i \in Int /\ i < 0 /\ i # Magic /\ Size[i] \in Nat \ {0}

VARIABLES
  src,       \* what the plugin reads from the data file
  seal,      \* locals of seal_file; cut (history): a read failed
  meta,      \* the data hash in the output of the data hub
  damaged,   \* the sealed file is not what was written any more
  prov,      \* members of the providers
  out,       \* history: the items each provider gave to the engine
  verdict    \* what check_actual_data_hash said

svars == <<src, seal, meta, damaged, prov, out, verdict>>
vars == <<fvars, svars>>

NoItem == 0            \* read_item_data returned no bytes
None == <<NoItem>>     \* no hash
Foreign == -900        \* a batch that the provider's key does not decrypt

Init ==
  /\ FileInit
  /\ src \in BoundedSeq(DOMAIN Size, MaxData)
  /\ seal = [pc |-> "start", item |-> NoItem, counter |-> 0, batch |-> <<>>,
             size |-> 0, hash |-> <<>>, cut |-> FALSE]
  /\ meta = None
  /\ damaged = FALSE
  /\ \E n \in 1..MaxProviders :
       /\ prov = [p \in 1..n |-> [end |-> FALSE, items |-> <<>>, index |-> 0, hash |-> <<>>]]
       /\ out = [p \in 1..n |-> <<>>]
  /\ verdict = "none"

-----------------------------------------------------------------------------
(* The data hub.                                                           *)

\* read_item_data for the k-th time: the item, or no bytes at the end and
\* whenever the plugin reports an error.  The plugin's get_item_number leaves
\* its position alone.
ItemData(k) == IF k <= Len(src) THEN {src[k], NoItem} ELSE {NoItem}
Cut(k, item) == item = NoItem /\ k <= Len(src)
TooBig(i) == i # NoItem /\ Size[i] > MaxItemSize

\* seal_file up to its loop.
SealStart ==
  /\ seal.pc = "start"
  /\ OpenForWrite
  /\ \E first \in ItemData(1) :
       seal' = [seal EXCEPT !.item = first, !.cut = Cut(1, first),
                  !.pc = IF TooBig(first) THEN "return1" ELSE "loop"]
  /\ UNCHANGED <<src, meta, damaged, prov, out, verdict>>

InLoop == seal.item # NoItem /\ seal.counter < Len(src)

\* One round of the loop: the batch is written when it is large enough, the
\* item is hashed, and the next one is read.
SealItem ==
  /\ seal.pc = "loop" /\ InLoop
  /\ \E next \in ItemData(seal.counter + 2) :
     LET batch == Append(seal.batch, seal.item)
         size == seal.size + Size[seal.item]
         full == size >= MaxItemSize
     IN /\ IF full THEN AppendItem(batch) ELSE UNCHANGED fvars
        /\ seal' = [pc |-> IF TooBig(next) THEN "return1" ELSE "loop",
                    item |-> next,
                    counter |-> seal.counter + 1,
                    batch |-> IF full THEN <<>> ELSE batch,
                    size |-> IF full THEN 0 ELSE size,
                    hash |-> Append(seal.hash, seal.item),
                    cut |-> Cut(seal.counter + 2, next)]
  /\ UNCHANGED <<src, meta, damaged, prov, out, verdict>>

\* After the loop: the rest is written as a last batch.
SealRest ==
  /\ seal.pc = "loop" /\ ~InLoop
  /\ IF seal.batch # <<>> THEN AppendItem(seal.batch) ELSE UNCHANGED fvars
  /\ seal' = [seal EXCEPT !.pc = "return0", !.batch = <<>>, !.size = 0]
  /\ UNCHANGED <<src, meta, damaged, prov, out, verdict>>

\* The sealed_file is destroyed when seal_file returns.
SealReturn ==
  /\ seal.pc \in {"return0", "return1"}
  /\ CloseFile
  /\ seal' = [seal EXCEPT !.pc = IF @ = "return0" THEN "sealed" ELSE "failed"]
  /\ UNCHANGED <<src, meta, damaged, prov, out, verdict>>

\* write_batch exits when a batch does not encrypt, close() does not survive
\* a file without items, and the process may be killed at any time.
SealDies ==
  /\ WriterDies
  /\ seal' = [seal EXCEPT !.pc = "died"]
  /\ UNCHANGED <<src, meta, damaged, prov, out, verdict>>

\* main writes the output only after seal_file returned 0.
PublishAlways ==
  /\ seal.pc \in {"sealed", "failed"}
  /\ meta' = seal.hash
  /\ seal' = [seal EXCEPT !.pc = "done"]
  /\ UNCHANGED <<fvars, src, damaged, prov, out, verdict>>
Publish ==
  /\ seal.pc = "sealed"
  /\ meta' = seal.hash
  /\ seal' = [seal EXCEPT !.pc = "done"]
  /\ UNCHANGED <<fvars, src, damaged, prov, out, verdict>>

-----------------------------------------------------------------------------
(* The sealed file is kept by the host: a batch may be lost, repeated, out *)
(* of place or another file's.                                             *)

Damages(l) ==
  {RemoveAt(l, k) : k \in DOMAIN l}
  \cup {InsertAt(l, k, l[k]) : k \in DOMAIN l}
  \cup {[l EXCEPT ![j] = l[k], ![k] = l[j]] : j, k \in DOMAIN l}
  \cup {[l EXCEPT ![k] = <<Foreign>>] : k \in DOMAIN l}

Damage ==
  /\ mode = "closed" /\ meta # None /\ ~damaged
  /\ damaged' = TRUE
  /\ \E l \in Damages(log) :
       disk' = Frames(l) \o SubSeq(disk, Len(Frames(log)) + 1, Len(disk))
  /\ UNCHANGED <<mode, header, infos, pos, eof, log, got>>
  /\ UNCHANGED <<src, seal, meta, prov, out, verdict>>

-----------------------------------------------------------------------------
(* The analyzer.                                                           *)

\* feed_datasource opens the file for the published hash.
FeedDatasource ==
  /\ meta # None
  /\ OpenForRead
  /\ UNCHANGED svars

\* next_data_batch: the status and what the enclave copies.  The first word
\* after the last batch reads as an item of length 0: it is the end.
NextDataBatch ==
  LET r == NextItem(BufSize).res
  IN [ok |-> r.st = "succ" /\ r.data # <<>>, data |-> r.data]

\* The hash after a batch of a provider.
ChainWithLength(h, items) == h \o items \o <<Len(items)>>
Chain(h, items) == h \o items

\* process() of a provider that has an item left in its batch.
NextInBatch(p) ==
  /\ mode = "in" /\ verdict = "none"
  /\ ~prov[p].end
  /\ prov[p].index < Len(prov[p].items)
  /\ prov' = [prov EXCEPT ![p].index = @ + 1]
  /\ out' = [out EXCEPT ![p] = Append(@, prov[p].items[prov[p].index + 1])]
  /\ UNCHANGED <<fvars, src, seal, meta, damaged, verdict>>

\* process() of a provider that needs a batch: an end, an error and a batch
\* that does not decrypt all end its data.
NextBatch(p) ==
  /\ mode = "in" /\ verdict = "none"
  /\ ~prov[p].end
  /\ prov[p].index >= Len(prov[p].items)
  /\ CallNextItem(BufSize)
  /\ LET b == NextDataBatch
         ok == b.ok /\ b.data # <<Foreign>>
     IN /\ prov' = [prov EXCEPT ![p] =
              IF ok THEN [end |-> FALSE, items |-> b.data, index |-> 1,
                          hash |-> Chain(@.hash, b.data)]
              ELSE [@ EXCEPT !.end = TRUE]]
        /\ out' = IF ok THEN [out EXCEPT ![p] = Append(@, Head(b.data))] ELSE out
  /\ UNCHANGED <<src, seal, meta, damaged, verdict>>

\* check_actual_data_hash of end_parse_data_item, once the engine has
\* stopped: after the end of the data, or before it (an intersection stops
\* with its shortest stream).
AllRead == \A p \in DOMAIN prov : prov[p].end
CheckAnyOnly ==
  /\ mode = "in" /\ verdict = "none"
  /\ verdict' = IF \E p \in DOMAIN prov : prov[p].hash = meta
                THEN "ok" ELSE "refused"
  /\ UNCHANGED <<fvars, src, seal, meta, damaged, prov, out>>
CheckActualDataHash ==
  /\ mode = "in" /\ verdict = "none"
  /\ verdict' = IF \A p \in DOMAIN prov : prov[p].hash = meta
                THEN "ok" ELSE "refused"
  /\ UNCHANGED <<fvars, src, seal, meta, damaged, prov, out>>

EndParse == AllRead /\ CheckActualDataHash
StopEarly == ~AllRead /\ CheckActualDataHash

Provide == \E p \in DOMAIN prov : NextInBatch(p) \/ NextBatch(p)

Next ==
  \/ SealStart \/ SealItem \/ SealRest \/ SealReturn \/ SealDies \/ Publish
  \/ Damage
  \/ FeedDatasource \/ Provide \/ EndParse \/ StopEarly

\* The enclave's single thread reads on while the engine asks, and ends.
Spec == Init /\ [][Next]_vars /\ WF_vars(Provide) /\ WF_vars(EndParse)

-----------------------------------------------------------------------------
(* Properties.                                                             *)

\* The type invariant.
TypeOK ==
  /\ FileTypeOK
  /\ seal.pc \in {"start", "loop", "return0", "return1", "sealed", "failed",
                  "died", "done"}
  /\ seal.item \in DOMAIN Size \cup {NoItem}
  /\ seal.size \in 0 .. MaxItemSize - 1
  /\ verdict \in {"none", "ok", "refused"}
  /\ \A p \in DOMAIN prov : prov[p].index \in 0 .. Len(prov[p].items)

\* SealedComplete: a published hash is that of the owner's data up to the
\* first read that failed, of all of it if none did, and the file that was
\* closed for it holds exactly that data, in order, however it was cut into
\* batches.
SealedComplete ==
  meta # None =>
    /\ IsPrefix(meta, src) /\ (~seal.cut => meta = src)
    /\ FlattenSeq(log) = meta
    /\ mode \in {"closed", "in"}

\* VerifiedIsSealed: when the hash check lets a result pass, what the engine
\* was given came from the sealed data, in order, and was all of it if the
\* engine read to the end, whatever happened to the file in between.
VerifiedIsSealed ==
  verdict = "ok" => \A p \in DOMAIN prov :
    /\ IsPrefix(out[p], meta)
    /\ prov[p].end => out[p] = meta

\* IntactIsVerified: an intact file that a single provider reads is read to its
\* end and passes the check, unless the engine stops before that: the words
\* after the last batch are never taken for data.
IntactIsVerified ==
  (mode = "in" /\ ~damaged /\ Len(prov) = 1) ~> (verdict = "ok" \/ (verdict # "none" /\ ~AllRead))

\* The batches and counters of seal_file are well formed whatever fails, and a hash is
\* published only for a complete file (the two parts above).
SealingSound ==
  TypeOK /\ SealedComplete
=============================================================================
