------------------------------ MODULE ParseJob ------------------------------
(***************************************************************************)
(* One job of the host analyzer: parser::parse() calls the analyzer        *)
(* enclave step by step (data sources, model, begin, parse, end, result),  *)
(* and main writes what it got.  The analyzer enclave may be lost at any   *)
(* time: sgx_module::ecall then repeats the call it was in on a new one,   *)
(* which remembers nothing.  So may the key manager enclave.               *)
(*                                                                         *)
(* An ecall is one action: what it does on the way is seen by nobody else, *)
(* and a loss inside it ends in the same states as a loss before it.  Any  *)
(* step may fail for a reason outside of this model (StepFails).  The data *)
(* is what SealedData delivers, the key manager what KeyService promises.  *)
(***************************************************************************)
EXTENDS Integers, FiniteSets, Sequences, SequencesExt

CONSTANTS
  Jobs,        \* jobs: kind of enclave, inputs, request; see JobType
  Param, Hash, Pkey, Model,     \* parameters, data hashes, keys, models
  None,        \* nothing: no key, no model, no signature, no result
  Other,       \* the hash of data that is not what was sealed
  MaxLoss      \* bound: losses of an enclave

\* A signature, by the key that made it, over a parameter and a data (or
\* model) hash for the enclave of the job; None is an empty one.
Signature == [by : Pkey, param : Param, hash : Hash \cup Model] \cup {None}

\* src, res, checkD and checkM are the template arguments of the enclave's
\* algo_wrapper.  skey is the key that is forwarded with an input, pkey the
\* one that names it; released the keys whose owners released them to this
\* enclave.
JobType ==
  [src : {"noinput", "raw", "single", "multi"},
   res : {"onchain", "offchain", "local", "forward"},
   checkD : BOOLEAN, checkM : BOOLEAN,
   model : Model \cup {None}, modelKey : Pkey \cup {None},
   inputs : Seq([hash : Hash, pkey : Pkey \cup {None}, skey : Pkey \cup {None}]),
   param : Param, pkey : Pkey, forwards : BOOLEAN, released : SUBSET Pkey,
   allowances : Seq([pkey : Pkey \cup {None}, hash : Hash \cup Model,
                     sig : Signature]),
   target : BOOLEAN,     \* the requester signed the forward target
   expected : BOOLEAN]   \* the enclave has the hash the job expects

\* What an enclave makes: a data hash, a result, the package it leaves in.
DataHashes == UNION {[S -> Nat] : S \in SUBSET (Hash \cup {Other})}
Results == [param : Param, model : Model \cup {None}, data : DataHashes]
Packages ==
  [result : Results, target : BOOLEAN,
   sig : [by : Pkey, param : Param, data : DataHashes] \cup {None}]

ASSUME JobAssumption ==
  /\ Jobs \subseteq JobType
  /\ None \notin Param \cup Hash \cup Pkey \cup Model
  /\ None \notin Results \cup Packages
  /\ Other \notin Hash
  /\ MaxLoss \in Nat
  \* What two inputs of the same name read is a question for SealedData.
  /\ \A j \in Jobs : \A k, l \in DOMAIN j.inputs :
       /\ j.inputs[k].hash = j.inputs[l].hash
       /\ j.inputs[k].pkey = j.inputs[l].pkey
       => k = l

VARIABLES
  job,     \* m_param, and the enclave it names
  pc,      \* the call parse() makes next, or how it ended
  fed,     \* how many inputs feed_datasource has taken
  km,      \* the key manager: its epoch, and the keys it has for this enclave
  enc,     \* members of the enclave's algo_wrapper
  size,    \* what get_analyze_result_size returned
  res,     \* what get_analyze_result returned
  output,  \* the file main writes
  lost     \* history: where the analyzer, where the key manager was lost

vars == <<job, pc, fed, km, enc, size, res, output, lost>>

\* session is the epoch of the key manager that has the session, 0 for none.
Fresh == [session |-> 0, sources |-> <<>>, model |-> None, modelKey |-> None,
          parser |-> FALSE, result |-> None, hash |-> None,
          target |-> FALSE, pkg |-> None]

Init ==
  /\ job \in Jobs
  /\ pc = "start" /\ fed = 0
  /\ km = [epoch |-> 1, keys |-> {}]
  /\ enc = Fresh
  /\ size = None /\ res = None /\ output = None
  /\ lost = [analyzer |-> <<>>, keymgr |-> <<>>]

-----------------------------------------------------------------------------
(* What the calls have in common.                                          *)

\* forward_private_key of keys K: those that were not released to this
\* enclave are of no use to it.
Forwarded(K) == [km EXCEPT !.keys = @ \cup (K \cap job.released)]

\* init_keymgr_session, and the requests for keys K that follow it.
SessionOf == IF enc.session = 0 THEN km.epoch ELSE enc.session
Granted(K) == SessionOf = km.epoch /\ K \subseteq km.keys

Goto(label) == pc' = label
Unmoved == UNCHANGED <<job, fed, size, res, output, lost>>

-----------------------------------------------------------------------------
(* parse(): keys, data sources and model.                                  *)

ForwardRequestKey ==
  /\ pc = "start"
  /\ km' = Forwarded(IF job.forwards THEN {job.pkey} ELSE {})
  /\ Goto("hash")
  /\ Unmoved /\ UNCHANGED enc

CheckParser ==
  /\ pc = "hash"
  /\ Goto(IF job.expected THEN "feed" ELSE "err")
  /\ Unmoved /\ UNCHANGED <<km, enc>>

\* The next input's file is opened and its key forwarded, whatever the kind
\* of the input.  Raw data without an input is read from an empty vector.
FeedDatasource ==
  /\ pc = "feed"
  /\ \/ /\ job.src = "noinput"
        /\ Goto("model") /\ UNCHANGED <<km, fed>>
     \/ /\ job.src # "noinput" /\ job.inputs = <<>>
        /\ Goto(IF job.src = "raw" THEN "thrown" ELSE "err")
        /\ UNCHANGED <<km, fed>>
     \/ /\ job.src # "noinput" /\ fed < Len(job.inputs)
        /\ job.inputs[fed + 1].skey # None
        /\ km' = Forwarded({job.inputs[fed + 1].skey})
        /\ fed' = fed + 1 /\ UNCHANGED pc
     \/ /\ job.src # "noinput" /\ job.inputs # <<>> /\ fed = Len(job.inputs)
        /\ Goto("source") /\ UNCHANGED <<km, fed>>
  /\ UNCHANGED <<job, enc, size, res, output, lost>>

\* Only a multi_data_stream uses more than the first input.
Used == IF job.src = "multi" THEN job.inputs ELSE <<Head(job.inputs)>>

\* A provider: sealed data has a key that names it.
Provider(i) ==
  [expect |-> i.hash, actual |-> None,
   use |-> IF job.src = "raw" THEN None ELSE i.pkey]

InitDataSource ==
  /\ pc = "source"
  /\ LET K == {Used[k].pkey : k \in DOMAIN Used}
         need == CASE job.src = "raw" -> {} [] job.src = "single" -> K
                   [] OTHER -> K \ {None}
     IN /\ Granted(need)
        /\ enc' = [enc EXCEPT
             !.session = IF job.src = "raw" THEN @ ELSE SessionOf,
             !.sources = [k \in DOMAIN Used |-> Provider(Used[k])]]
  /\ Goto("model")
  /\ Unmoved /\ UNCHANGED km

FeedModel ==
  /\ pc = "model"
  /\ IF job.model = None THEN UNCHANGED enc
     ELSE /\ Granted({job.modelKey})
          /\ enc' = [enc EXCEPT !.session = SessionOf, !.model = job.model,
                                !.modelKey = job.modelKey]
  /\ Goto("begin")
  /\ Unmoved /\ UNCHANGED km

\* begin_parse_data_item; create_parser needs the data source, never the
\* model.
SourceSet == job.src = "noinput" \/ enc.sources # <<>>

BeginParse ==
  /\ pc = "begin"
  /\ enc' = [enc EXCEPT !.session = SessionOf, !.parser = SourceSet]
  /\ Goto(IF SourceSet THEN "parse" ELSE "err")
  /\ Unmoved /\ UNCHANGED km

-----------------------------------------------------------------------------
(* parse(): the computation.                                               *)

\* allowance::check of an allowance over this job's parameter.
Valid(a) == a.sig = [by |-> a.pkey, param |-> job.param, hash |-> a.hash]

\* checked_pkey of check_allowance; allowances without a key are skipped,
\* those without or with a wrong signature ignored.
Checked ==
  {<<a.pkey, a.hash>> : a \in {b \in ToSet(job.allowances) :
                                 b.pkey # None /\ Valid(b)}}

\* The policies: check_model_allowance, and check_data_allowance for the
\* sealed data of a single or multi data stream.
ModelAllowed ==
  job.checkM /\ job.model # None => <<enc.modelKey, enc.model>> \in Checked
AnyDataAllowed ==
  job.checkD /\ job.src \in {"single", "multi"} =>
    \E s \in ToSet(enc.sources) : s.use = None \/ <<s.use, s.expect>> \in Checked
DataAllowed ==
  job.checkD /\ job.src \in {"single", "multi"} =>
    \A s \in ToSet(enc.sources) : s.use # None => <<s.use, s.expect>> \in Checked

\* The keys parse_data_item asks for: the requester's unless the parameter is
\* not encrypted, and that of every allowance.
ParseKeys ==
  (IF job.res = "local" THEN {} ELSE {job.pkey})
    \cup ({a.pkey : a \in ToSet(job.allowances)} \ {None})

\* What a provider may read.  The host keeps a file under hash and key; a
\* provider of raw data asks with the hash alone.
Readable(k) ==
  IF enc.sources[k].use = None /\ Used[k].pkey # None THEN {Other}
  ELSE {enc.sources[k].expect, Other}

\* m_data_hash: the hashes the providers arrived at, sorted and hashed.
DataHash(sources) ==
  [h \in {s.actual : s \in ToSet(sources)} |->
     Cardinality({k \in DOMAIN sources : sources[k].actual = h})]

\* do_parse, m_encrypted_param and set_data_hash.
Parsed(actual) ==
  LET read == [k \in DOMAIN enc.sources |->
                 [enc.sources[k] EXCEPT !.actual = actual[k]]]
  IN [enc EXCEPT !.sources = read, !.hash = DataHash(read),
        !.target = job.res = "forward",
        !.result = [param |-> job.param, model |-> enc.model,
                    data |-> DataHash(read)]]

\* set_forward_target_info.
TargetSigned == job.res = "forward" => job.target

\* parse_data_item: without a parser it does not survive, and the ecall
\* throws.
ParseDataItem ==
  /\ pc = "parse"
  /\ IF ~enc.parser THEN Goto("thrown") /\ UNCHANGED enc
     ELSE IF /\ Granted(ParseKeys) /\ ModelAllowed /\ DataAllowed
             /\ TargetSigned
     THEN /\ \E actual \in [DOMAIN enc.sources -> Hash \cup {Other}] :
               /\ \A k \in DOMAIN actual : actual[k] \in Readable(k)
               /\ enc' = Parsed(actual)
          /\ Goto("end")
     ELSE Goto("err") /\ UNCHANGED enc
  /\ Unmoved /\ UNCHANGED km

\* check_actual_data_hash: of one source, of all, or of none.
LastHashOnly ==
  enc.sources = <<>> \/ Last(enc.sources).actual = Last(enc.sources).expect
HashesMatch == \A s \in ToSet(enc.sources) : s.actual = s.expect

\* generate_result: an on-chain or off-chain result is signed with the
\* requester's key, over the parameter and the data hash (an off-chain one
\* with the key it is encrypted with); a forwarded one is encrypted for its
\* target and not signed; a local one is the result itself.
OnchainResult ==
  [result |-> enc.result, target |-> FALSE,
   sig |-> [by |-> job.pkey, param |-> enc.result.param, data |-> enc.hash]]
OffchainResult == OnchainResult
ForwardResult == [result |-> enc.result, target |-> enc.target, sig |-> None]
LocalResult == [result |-> enc.result, target |-> FALSE, sig |-> None]

Package ==
  CASE job.res = "onchain" -> OnchainResult
    [] job.res = "offchain" -> OffchainResult
    [] job.res = "forward" -> ForwardResult
    [] OTHER -> LocalResult

\* end_parse_data_item.  On an enclave that has not parsed it fails, or
\* meets the null pointer of a data source or of the key manager session.
EndAnyway ==
  /\ pc = "end"
  /\ enc' = [enc EXCEPT !.pkg = IF enc.result # None /\ HashesMatch
                                THEN Package ELSE None]
  /\ Goto("size")
  /\ Unmoved /\ UNCHANGED km
EndParse ==
  /\ pc = "end"
  /\ IF enc.result = None
     THEN (Goto("thrown") \/ Goto("err")) /\ UNCHANGED enc
     ELSE IF HashesMatch
     THEN enc' = [enc EXCEPT !.pkg = Package] /\ Goto("size")
     ELSE Goto("err") /\ UNCHANGED enc
  /\ Unmoved /\ UNCHANGED km

-----------------------------------------------------------------------------
(* parse(): the result.                                                    *)

\* The two ecalls of parser_sgx_module::get_analyze_result.  The sizes of a
\* full and of an empty package differ.
GetResultSize ==
  /\ pc = "size"
  /\ size' = IF enc.pkg = None THEN "empty" ELSE "full"
  /\ Goto("result")
  /\ UNCHANGED <<job, fed, km, enc, res, output, lost>>

\* A forward_result does not look at the size; on an enclave that has no
\* result the buffer stays empty.
SizeMatches ==
  job.res = "forward" \/ (size = "empty") = (enc.pkg = None)

GetResult ==
  /\ pc = "result"
  /\ IF SizeMatches
     THEN /\ res' = IF size = "full" /\ enc.pkg # None THEN enc.pkg ELSE None
          /\ Goto("dump")
     ELSE Goto("err") /\ UNCHANGED res
  /\ UNCHANGED <<job, fed, km, enc, size, output, lost>>

\* dump_result: an empty package, or an empty local result, is dumped as one;
\* a forwarded result of no bytes, or of zeros, may not unpack.
DumpResult ==
  /\ pc = "dump"
  /\ \/ Goto("ok")
     \/ res = None /\ job.res = "forward" /\ Goto("thrown")
  /\ UNCHANGED <<job, fed, km, enc, size, res, output, lost>>

\* main ignores what parse() returned and writes m_result_str.  An exception
\* is not caught: nothing is written.
WriteOutput ==
  /\ pc \in {"ok", "err"}
  /\ output' = IF pc = "ok" THEN res ELSE None
  /\ Goto("exit")
  /\ UNCHANGED <<job, fed, km, enc, size, res, lost>>

-----------------------------------------------------------------------------
(* Failures.                                                               *)

Calls == {"start", "feed", "source", "model", "begin", "parse", "end"}

\* A key, a session, a decryption or a signature is not had: the call
\* returns an error, and so does parse().
StepFails ==
  /\ pc \in Calls
  /\ Goto("err")
  /\ Unmoved /\ UNCHANGED <<km, enc>>

Running == pc \notin {"dump", "ok", "err", "thrown", "exit"}

AnalyzerLost ==
  /\ Running /\ Len(lost.analyzer) < MaxLoss
  /\ lost' = [lost EXCEPT !.analyzer = Append(@, pc)]
  /\ enc' = Fresh
  /\ UNCHANGED <<job, pc, fed, km, size, res, output>>

KeymgrLost ==
  /\ Running /\ Len(lost.keymgr) < MaxLoss
  /\ lost' = [lost EXCEPT !.keymgr = Append(@, pc)]
  /\ km' = [epoch |-> km.epoch + 1, keys |-> {}]
  /\ UNCHANGED <<job, pc, fed, enc, size, res, output>>

Ended == pc \in {"thrown", "exit"} /\ UNCHANGED vars

Next ==
  \/ ForwardRequestKey \/ CheckParser \/ FeedDatasource \/ InitDataSource
  \/ FeedModel \/ BeginParse \/ ParseDataItem \/ EndParse
  \/ GetResultSize \/ GetResult \/ DumpResult \/ WriteOutput
  \/ StepFails \/ AnalyzerLost \/ KeymgrLost \/ Ended

Spec == Init /\ [][Next]_vars

-----------------------------------------------------------------------------
(* Properties.                                                             *)

Labels == Calls \cup {"hash", "size", "result", "dump", "ok", "err", "thrown",
                      "exit"}

\* The state parse() and the enclave are in: the label, the inputs fed, the
\* epochs of key manager and session, and packages only of what was parsed.
JobTypeOK ==
  /\ job \in Jobs /\ pc \in Labels
  /\ fed \in 0 .. Len(job.inputs)
  /\ km.epoch \in 1 .. MaxLoss + 1 /\ km.keys \subseteq job.released
  /\ enc.session \in 0 .. km.epoch
  /\ enc.model \in {None, job.model} /\ enc.modelKey \in {None, job.modelKey}
  /\ Len(enc.sources) \in {0, 1, Len(job.inputs)}
  /\ enc.pkg # None => enc.pkg.result = enc.result
  /\ size \in {None, "empty", "full"}

\* ResultIsOfJob: a result that reaches the output file was computed from the
\* job's parameter and from all of the data the job names, with every hash
\* checked, is signed over just these, goes to a target the requester signed,
\* and used the job's model: with losses of either enclave between any two
\* calls.  The exception is the model of an enclave without input whose
\* policy ignores the model: begin_parse does not notice that it was lost.
ResultIsOfJob ==
  output # None =>
    LET data == IF job.src = "noinput" THEN <<>>
                ELSE [k \in DOMAIN Used |-> [actual |-> Used[k].hash]]
    IN /\ output.result.param = job.param
       /\ output.result.data = DataHash(data)
       /\ job.res \in {"onchain", "offchain"} =>
            output.sig = [by |-> job.pkey, param |-> job.param,
                          data |-> DataHash(data)]
       /\ output.target => job.target
       /\ output.target = (job.res = "forward")
       /\ \/ output.result.model = job.model
          \/ /\ job.src = "noinput" /\ ~job.checkM
             /\ "begin" \in ToSet(lost.analyzer)

\* ConsentedUse: an enclave has computed a result only if the owners agreed:
\* they released the keys of the sealed data and of the model to this enclave
\* and, where its policies check, signed this use of each of them.
ConsentedUse ==
  enc.result # None =>
    LET agreed(p, h) == \E a \in ToSet(job.allowances) :
                          a.sig = [by |-> p, param |-> job.param, hash |-> h]
    IN /\ job.src \in {"single", "multi"} =>
            \A i \in ToSet(Used) : i.pkey # None =>
              i.pkey \in job.released /\ (job.checkD => agreed(i.pkey, i.hash))
       /\ enc.model # None => job.modelKey \in job.released
       /\ job.model # None /\ job.checkM => agreed(job.modelKey, job.model)

\* EmptyOnlyIfLost: parse() succeeds without a result only if the analyzer
\* enclave was lost between end_parse_data_item and the size of the result;
\* a failure of any call before that, or a loss at any other time, is seen.
EmptyOnlyIfLost ==
  pc = "ok" /\ res = None =>
    \/ "size" \in ToSet(lost.analyzer)
    \/ job.res = "forward" /\ "result" \in ToSet(lost.analyzer)

\* The members of host and enclave are well formed after any loss, and parse() succeeds
\* without a result only after one (the two parts above).
SuccessSound ==
  JobTypeOK /\ EmptyOnlyIfLost
=============================================================================
