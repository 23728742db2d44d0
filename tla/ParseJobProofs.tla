--------------------------- MODULE ParseJobProofs ---------------------------
(***************************************************************************)
(* What TLAPS proves of a job (ParseJob): for every set of jobs, of inputs *)
(* and allowances of any number, and for any number of losses of either    *)
(* enclave, a result that reaches the output file is one of the job's      *)
(* parameter, data and model, the owners agreed to its use, and a success  *)
(* without a result needs a loss at one of two calls.                      *)
(***************************************************************************)
EXTENDS ParseJob, FiniteSetTheorems, TLAPS

-----------------------------------------------------------------------------
(* The inductive invariant.                                                *)

Source ==
  [expect : Hash, actual : Hash \cup {None, Other}, use : Pkey \cup {None}]

Enclave ==
  [session : Nat, sources : Seq(Source), model : Model \cup {None},
   modelKey : Pkey \cup {None}, parser : BOOLEAN, result : Results \cup {None},
   hash : DataHashes \cup {None}, target : BOOLEAN, pkg : Packages \cup {None}]

\* The members' sets, the epochs and the losses that are counted.
Typed ==
  /\ job \in Jobs /\ pc \in Labels
  /\ fed \in Nat /\ fed <= Len(job.inputs)
  /\ km \in [epoch : Nat, keys : SUBSET job.released]
  /\ enc \in Enclave
  /\ size \in {None, "empty", "full"}
  /\ lost \in [analyzer : Seq(Labels), keymgr : Seq(Labels)]
  /\ km.epoch = Len(lost.keymgr) + 1 /\ Len(lost.keymgr) <= MaxLoss
  /\ enc.session <= km.epoch
  /\ enc.model \in {None, job.model} /\ enc.modelKey \in {None, job.modelKey}

HasInput == job.src # "noinput" /\ job.inputs # <<>>

\* The data sources are those of the job or none, and the owners of the sealed
\* ones released their keys.
SourcesNamed ==
  enc.sources # <<>> =>
    /\ HasInput
    /\ DOMAIN enc.sources = DOMAIN Used
    /\ \A k \in DOMAIN Used :
         /\ enc.sources[k].expect = Used[k].hash
         /\ job.src # "raw" => enc.sources[k].use = Used[k].pkey
         /\ job.src # "raw" /\ Used[k].pkey # None =>
              Used[k].pkey \in job.released

LostAt(label) == label \in ToSet(lost.analyzer)

\* The model is the job's, with its key released; that it was lost is noticed
\* unless the enclave has no input.
ModelFed ==
  /\ enc.model # None =>
       enc.modelKey = job.modelKey /\ job.modelKey \in job.released
  /\ enc.parser =>
       /\ SourceSet
       /\ enc.model = job.model \/ (job.src = "noinput" /\ LostAt("begin"))

\* A result is of the job's parameter, this enclave's model and data, and
\* was allowed.
ResultComputed ==
  enc.result # None =>
    /\ enc.parser
    /\ enc.hash = DataHash(enc.sources)
    /\ enc.result = [param |-> job.param, model |-> enc.model,
                     data |-> enc.hash]
    /\ enc.target = (job.res = "forward")
    /\ TargetSigned /\ ModelAllowed /\ DataAllowed

\* A package is of the result, and every hash was compared.
PackageMade ==
  enc.pkg # None =>
    enc.result # None /\ HashesMatch /\ enc.pkg = Package

EnclaveInv == SourcesNamed /\ ModelFed /\ ResultComputed /\ PackageMade

BeforeEnd == {"start", "hash", "feed", "source", "model", "begin", "parse"}

\* What parse() can rely on at a call: inputs to make a source of, no result
\* before parse_data_item, and at begin_parse_data_item the model, unless it
\* was lost with the sources.
CallOrder ==
  /\ pc = "source" => HasInput
  /\ pc = "begin" =>
       enc.model = job.model \/ (enc.sources = <<>> /\ LostAt("begin"))
  /\ pc \in BeforeEnd => enc.result = None

JobData ==
  IF job.src = "noinput" THEN <<>>
  ELSE [k \in DOMAIN Used |-> [actual |-> Used[k].hash]]

\* ResultIsOfJob of any package.
IsOfJob(p) ==
  /\ p.result.param = job.param
  /\ p.result.data = DataHash(JobData)
  /\ job.res \in {"onchain", "offchain"} =>
       p.sig = [by |-> job.pkey, param |-> job.param, data |-> DataHash(JobData)]
  /\ p.target => job.target
  /\ p.target = (job.res = "forward")
  /\ \/ p.result.model = job.model
     \/ job.src = "noinput" /\ ~job.checkM /\ LostAt("begin")

ResultsOfJob ==
  (res # None => IsOfJob(res)) /\ (output # None => IsOfJob(output))

\* Why a result is missing, call by call.
MissingLost ==
  /\ pc = "size" => enc.pkg # None \/ LostAt("size")
  /\ pc = "result" =>
       /\ size \in {"empty", "full"}
       /\ size = "empty" => LostAt("size")
       /\ size = "full" => enc.pkg # None \/ LostAt("result")
  /\ pc \in {"dump", "ok"} =>
       \/ res # None
       \/ LostAt("size")
       \/ job.res = "forward" /\ LostAt("result")

JobInv ==
  Typed /\ EnclaveInv /\ CallOrder /\ ResultsOfJob /\ MissingLost

-----------------------------------------------------------------------------
(* Jobs and the operators on their lists.                                  *)

InputType == [hash : Hash, pkey : Pkey \cup {None}, skey : Pkey \cup {None}]
AllowanceType ==
  [pkey : Pkey \cup {None}, hash : Hash \cup Model, sig : Signature]

\* The fields of a job that the proofs use.
LEMMA JobFields ==
  ASSUME Typed
  PROVE  /\ job \in JobType
         /\ job.inputs \in Seq(InputType)
         /\ job.allowances \in Seq(AllowanceType)
         /\ job.param \in Param /\ job.pkey \in Pkey
         /\ job.model \in Model \cup {None} /\ job.modelKey \in Pkey \cup {None}
         /\ job.released \subseteq Pkey
         /\ job.res \in {"onchain", "offchain", "local", "forward"}
<1>1. job \in JobType
  BY JobAssumption DEF Typed
<1> QED
  BY <1>1 DEF JobType, InputType, AllowanceType

\* The inputs a data source uses are a list of one or of all inputs.
LEMMA UsedInputs ==
  ASSUME Typed, HasInput
  PROVE  /\ Used \in Seq(InputType)
         /\ Len(Used) \in {1, Len(job.inputs)} /\ Len(Used) # 0
         /\ DOMAIN Used = 1 .. Len(Used)
         /\ Used # <<>>
<1>1. job.inputs \in Seq(InputType) /\ job.inputs # <<>>
  BY JobFields DEF HasInput
<1>2. Head(job.inputs) \in InputType
  BY <1>1
<1>3. CASE job.src = "multi"
  BY <1>1, <1>3 DEF Used
<1>4. CASE job.src # "multi"
  BY <1>1, <1>2, <1>4 DEF Used
<1> QED
  BY <1>3, <1>4

\* The losses after one more.
LEMMA AppendedSet ==
  ASSUME NEW S, NEW s \in Seq(S), NEW x \in S
  PROVE  ToSet(Append(s, x)) = ToSet(s) \cup {x}
<1>1. /\ DOMAIN Append(s, x) = 1 .. Len(s) + 1
      /\ \A k \in 1 .. Len(s) : Append(s, x)[k] = s[k]
      /\ Append(s, x)[Len(s) + 1] = x
      /\ DOMAIN s = 1 .. Len(s) /\ Len(s) \in Nat
  OBVIOUS
<1> QED
  BY <1>1 DEF ToSet

\* A data hash depends on the hashes that were read and on nothing else.
LEMMA DataHashEq ==
  ASSUME NEW s, NEW t, DOMAIN s = DOMAIN t,
         \A k \in DOMAIN s : s[k].actual = t[k].actual
  PROVE  DataHash(s) = DataHash(t)
<1>1. {x.actual : x \in ToSet(s)} = {x.actual : x \in ToSet(t)}
  BY DEF ToSet
<1>2. \A h : {k \in DOMAIN s : s[k].actual = h} = {k \in DOMAIN t : t[k].actual = h}
  OBVIOUS
<1> QED
  BY <1>1, <1>2 DEF DataHash

LEMMA DataHashTyped ==
  ASSUME NEW n \in Nat, NEW s, DOMAIN s = 1 .. n,
         \A k \in DOMAIN s : s[k].actual \in Hash \cup {Other}
  PROVE  DataHash(s) \in DataHashes
<1> DEFINE S == {x.actual : x \in ToSet(s)}
<1>1. S \in SUBSET (Hash \cup {Other})
  BY DEF ToSet
<1>2. ASSUME NEW h \in S
      PROVE  Cardinality({k \in DOMAIN s : s[k].actual = h}) \in Nat
  <2>1. IsFiniteSet(1 .. n)
    BY FS_Interval
  <2>2. IsFiniteSet({k \in DOMAIN s : s[k].actual = h})
    BY <2>1, FS_Subset
  <2> QED
    BY <2>2, FS_CardinalityType
<1>3. DataHash(s) \in [S -> Nat]
  BY <1>2 DEF DataHash
<1> QED
  BY <1>1, <1>3 DEF DataHashes

-----------------------------------------------------------------------------
(* Facts of one state.                                                     *)

\* A package an enclave has made is of the job.
LEMMA PackageIsOfJob ==
  ASSUME Typed, EnclaveInv, enc.pkg # None
  PROVE  IsOfJob(enc.pkg)
<1>1. /\ enc.result # None /\ HashesMatch /\ enc.pkg = Package
      /\ enc.parser /\ SourceSet
      /\ enc.hash = DataHash(enc.sources)
      /\ enc.result = [param |-> job.param, model |-> enc.model, data |-> enc.hash]
      /\ enc.target = (job.res = "forward")
      /\ TargetSigned /\ ModelAllowed
  BY DEF EnclaveInv, PackageMade, ResultComputed, ModelFed
<1>2. DataHash(enc.sources) = DataHash(JobData)
  <2>1. CASE enc.sources = <<>>
    BY <1>1, <2>1 DEF SourceSet, JobData
  <2>2. CASE enc.sources # <<>>
    <3>1. /\ job.src # "noinput" /\ DOMAIN enc.sources = DOMAIN Used
          /\ \A k \in DOMAIN Used : enc.sources[k].expect = Used[k].hash
      BY <2>2 DEF EnclaveInv, SourcesNamed, HasInput
    <3>2. \A k \in DOMAIN enc.sources :
            enc.sources[k].actual = enc.sources[k].expect
      BY <1>1 DEF HashesMatch, ToSet
    <3>3. /\ DOMAIN JobData = DOMAIN Used
          /\ \A k \in DOMAIN Used : JobData[k].actual = Used[k].hash
      BY <3>1 DEF JobData
    <3> QED
      BY <3>1, <3>2, <3>3, DataHashEq
  <2> QED
    BY <2>1, <2>2
<1>3. \/ enc.model = job.model
      \/ job.src = "noinput" /\ ~job.checkM /\ LostAt("begin")
  <2>1. \/ enc.model = job.model
        \/ job.src = "noinput" /\ LostAt("begin")
    BY <1>1 DEF EnclaveInv, ModelFed
  <2>2. enc.model \in {None, job.model}
    BY DEF Typed
  <2>3. job.checkM /\ job.model # None => enc.model # None
    <3> SUFFICES ASSUME job.checkM, job.model # None, enc.model = None
                 PROVE  FALSE
      OBVIOUS
    <3>1. PICK a \in ToSet(job.allowances) :
             <<enc.modelKey, enc.model>> = <<a.pkey, a.hash>>
      BY <1>1 DEF ModelAllowed, Checked
    <3>2. a.hash \in Hash \cup Model
      <4>1. PICK k \in DOMAIN job.allowances : a = job.allowances[k]
        BY <3>1 DEF ToSet
      <4>2. job.allowances \in Seq(AllowanceType)
        BY JobFields
      <4>3. a \in AllowanceType
        BY <4>1, <4>2
      <4> QED
        BY <4>3 DEF AllowanceType
    <3> QED
      BY <3>1, <3>2, JobAssumption
  <2>4. job.checkM \in BOOLEAN
    BY JobFields DEF JobType
  <2> QED
    BY <2>1, <2>2, <2>3, <2>4
<1>4. job.res \in {"onchain", "offchain", "local", "forward"}
  BY JobFields
<1>5. CASE job.res \in {"onchain", "offchain"}
  <2>1. enc.pkg = [result |-> enc.result, target |-> FALSE,
                   sig |-> [by |-> job.pkey, param |-> enc.result.param,
                            data |-> enc.hash]]
    BY <1>1, <1>5 DEF Package, OnchainResult, OffchainResult
  <2>2. /\ enc.pkg.result = enc.result /\ enc.pkg.target = FALSE
        /\ enc.pkg.sig = [by |-> job.pkey, param |-> enc.result.param,
                          data |-> enc.hash]
    BY <2>1
  <2>3. /\ enc.result.param = job.param /\ enc.result.data = enc.hash
        /\ enc.result.model = enc.model
    BY <1>1
  <2> QED
    BY <1>1, <1>2, <1>3, <1>5, <2>2, <2>3 DEF IsOfJob
<1>6. CASE job.res = "forward"
  BY <1>1, <1>2, <1>3, <1>6 DEF IsOfJob, Package, ForwardResult, TargetSigned
<1>7. CASE job.res = "local"
  <2>1. enc.pkg = [result |-> enc.result, target |-> FALSE, sig |-> None]
    BY <1>1, <1>7 DEF Package, LocalResult
  <2>2. enc.pkg.result = enc.result /\ enc.pkg.target = FALSE
    BY <2>1
  <2>3. /\ enc.result.param = job.param /\ enc.result.data = enc.hash
        /\ enc.result.model = enc.model
    BY <1>1
  <2> QED
    BY <1>1, <1>2, <1>3, <1>7, <2>2, <2>3 DEF IsOfJob
<1> QED
  BY <1>4, <1>5, <1>6, <1>7

\* A package of a result is one.
LEMMA PackageTyped ==
  ASSUME Typed, ResultComputed, enc.result # None
  PROVE  Package \in Packages /\ Package # None
<1>1. /\ enc.result \in Results /\ enc.target \in BOOLEAN
      /\ enc.result = [param |-> job.param, model |-> enc.model, data |-> enc.hash]
      /\ job.pkey \in Pkey /\ job.param \in Param
      /\ job.res \in {"onchain", "offchain", "local", "forward"}
  BY JobFields DEF Typed, Enclave, ResultComputed
<1>2. enc.hash \in DataHashes /\ enc.result.param = job.param
  BY <1>1 DEF Results
<1>3. Package \in Packages
  <2>1. CASE job.res \in {"onchain", "offchain"}
    BY <1>1, <1>2, <2>1
    DEF Package, OnchainResult, OffchainResult, Packages
  <2>2. CASE job.res = "forward"
    BY <1>1, <2>2 DEF Package, ForwardResult, Packages
  <2>3. CASE job.res = "local"
    BY <1>1, <2>3 DEF Package, LocalResult, Packages
  <2> QED
    BY <1>1, <2>1, <2>2, <2>3
<1> QED
  BY <1>3, JobAssumption

-----------------------------------------------------------------------------
(* Steps that leave the enclave alone.                                     *)

\* Without a change of the enclave its invariant stays.
LEMMA EnclaveKept ==
  ASSUME EnclaveInv, job' = job, enc' = enc, lost.analyzer' = lost.analyzer
  PROVE  EnclaveInv'
<1>1. SourcesNamed'
  BY DEF EnclaveInv, SourcesNamed, HasInput, Used
<1>2. ModelFed'
  BY DEF EnclaveInv, ModelFed, SourceSet, LostAt
<1>3. ResultComputed'
  BY DEF EnclaveInv, ResultComputed, TargetSigned, ModelAllowed, DataAllowed,
         Checked, Valid
<1>4. PackageMade'
  BY DEF EnclaveInv, PackageMade, HashesMatch, Package, OnchainResult,
         OffchainResult, ForwardResult, LocalResult
<1> QED
  BY <1>1, <1>2, <1>3, <1>4 DEF EnclaveInv

\* A package of the job stays one: losses are never forgotten.
LEMMA IsOfJobKept ==
  ASSUME NEW p, IsOfJob(p), job' = job, LostAt("begin") => LostAt("begin")'
  PROVE  IsOfJob(p)'
BY DEF IsOfJob, JobData, Used

\* So does the result, and the output, while they are not written.
LEMMA ResultsKept ==
  ASSUME ResultsOfJob, job' = job, res' = res, output' = output,
         LostAt("begin") => LostAt("begin")'
  PROVE  ResultsOfJob'
<1>1. PICK r : r = res
  OBVIOUS
<1>2. PICK o : o = output
  OBVIOUS
<1>3. r # None => IsOfJob(r)'
  BY <1>1, IsOfJobKept DEF ResultsOfJob
<1>4. o # None => IsOfJob(o)'
  BY <1>2, IsOfJobKept DEF ResultsOfJob
<1> QED
  BY <1>1, <1>2, <1>3, <1>4 DEF ResultsOfJob

\* Keys are forwarded only as their owners released them.
LEMMA ForwardedTyped ==
  ASSUME Typed, NEW K
  PROVE  /\ Forwarded(K) \in [epoch : Nat, keys : SUBSET job.released]
         /\ Forwarded(K).epoch = km.epoch
BY DEF Typed, Forwarded

\* The steps of parse() and main that do not enter the enclave, those that
\* only read it, and the loss of the key manager.
LEMMA HostStep ==
  ASSUME JobInv,
         \/ ForwardRequestKey \/ CheckParser \/ FeedDatasource
         \/ GetResultSize \/ GetResult \/ DumpResult \/ WriteOutput
         \/ StepFails \/ KeymgrLost \/ Ended \/ UNCHANGED vars
  PROVE  JobInv'
<1> USE DEF Goto, Unmoved
<1> USE DEF JobInv
<1>0. Typed /\ pc \in Labels /\ Len(lost.keymgr) \in Nat /\ MaxLoss \in Nat
  BY JobAssumption DEF Typed
<1>a. ASSUME job' = job, enc' = enc, lost' = lost, km' = km, fed' = fed,
             size' = size, pc' \in Labels
      PROVE  Typed'
  BY <1>0, <1>a DEF Typed
<1>1. CASE ForwardRequestKey
  <2> USE <1>1 DEF ForwardRequestKey
  <2>0. PICK K : km' = Forwarded(K)
    OBVIOUS
  <2>1. Typed'
    BY <1>0, <2>0, ForwardedTyped DEF Typed, Labels
  <2>2. EnclaveInv'
    BY EnclaveKept
  <2>3. CallOrder'
    BY DEF CallOrder, BeforeEnd
  <2>4. ResultsOfJob'
    BY ResultsKept DEF LostAt
  <2>5. MissingLost'
    BY DEF MissingLost
  <2> QED
    BY <2>1, <2>2, <2>3, <2>4, <2>5
<1>2. CASE CheckParser
  <2> USE <1>2 DEF CheckParser
  <2>1. Typed'
    BY <1>a DEF Labels, Calls
  <2>2. EnclaveInv'
    BY EnclaveKept
  <2>3. CallOrder'
    BY DEF CallOrder, BeforeEnd
  <2>4. ResultsOfJob'
    BY ResultsKept DEF LostAt
  <2>5. MissingLost'
    BY DEF MissingLost
  <2> QED
    BY <2>1, <2>2, <2>3, <2>4, <2>5
<1>3. CASE FeedDatasource
  <2> USE <1>3 DEF FeedDatasource
  <2>0. (\E K : km' = Forwarded(K)) \/ km' = km
    OBVIOUS
  <2>1. Typed'
    <3>1. /\ km' \in [epoch : Nat, keys : SUBSET job.released]
          /\ km'.epoch = km.epoch
      BY <1>0, <2>0, ForwardedTyped DEF Typed
    <3>2. fed' \in Nat /\ fed' <= Len(job.inputs)
      BY JobFields DEF Typed
    <3> QED
      BY <1>0, <3>1, <3>2 DEF Typed, Labels, Calls
  <2>2. EnclaveInv'
    BY EnclaveKept
  <2>3. CallOrder'
    BY DEF CallOrder, BeforeEnd, HasInput
  <2>4. ResultsOfJob'
    BY ResultsKept DEF LostAt
  <2>5. MissingLost'
    BY DEF MissingLost
  <2> QED
    BY <2>1, <2>2, <2>3, <2>4, <2>5
<1>4. CASE GetResultSize
  <2> USE <1>4 DEF GetResultSize
  <2>1. Typed'
    BY <1>0 DEF Typed, Labels, Calls
  <2>2. EnclaveInv'
    BY EnclaveKept
  <2>3. CallOrder'
    BY DEF CallOrder, BeforeEnd
  <2>4. ResultsOfJob'
    BY ResultsKept DEF LostAt
  <2>5. MissingLost'
    BY DEF MissingLost, LostAt
  <2> QED
    BY <2>1, <2>2, <2>3, <2>4, <2>5
<1>5. CASE GetResult
  <2> USE <1>5 DEF GetResult
  <2>1. Typed'
    BY <1>0, <1>a DEF Labels, Calls
  <2>2. EnclaveInv'
    BY EnclaveKept
  <2>3. CallOrder'
    BY DEF CallOrder, BeforeEnd
  <2>4. ResultsOfJob'
    <3>1. PICK p : p = enc.pkg
      OBVIOUS
    <3>2. PICK r : r = res
      OBVIOUS
    <3>3. PICK o : o = output
      OBVIOUS
    <3>4. p # None => IsOfJob(p)
      BY <3>1, PackageIsOfJob
    <3>5. p # None => IsOfJob(p)'
      BY <3>4, IsOfJobKept DEF LostAt
    <3>6. (r # None => IsOfJob(r)') /\ (o # None => IsOfJob(o)')
      BY <3>2, <3>3, IsOfJobKept DEF ResultsOfJob, LostAt
    <3>7. res' \in {r, p, None} /\ output' = o
      BY <3>1, <3>2, <3>3
    <3> QED
      BY <3>5, <3>6, <3>7 DEF ResultsOfJob
  <2>5. MissingLost'
    BY DEF MissingLost, LostAt, SizeMatches
  <2> QED
    BY <2>1, <2>2, <2>3, <2>4, <2>5
<1>6. CASE DumpResult
  <2> USE <1>6 DEF DumpResult
  <2>1. Typed'
    BY <1>a DEF Labels, Calls
  <2>2. EnclaveInv'
    BY EnclaveKept
  <2>3. CallOrder'
    BY DEF CallOrder, BeforeEnd
  <2>4. ResultsOfJob'
    BY ResultsKept DEF LostAt
  <2>5. MissingLost'
    BY DEF MissingLost, LostAt
  <2> QED
    BY <2>1, <2>2, <2>3, <2>4, <2>5
<1>7. CASE WriteOutput
  <2> USE <1>7 DEF WriteOutput
  <2>1. Typed'
    BY <1>a DEF Labels
  <2>2. EnclaveInv'
    BY EnclaveKept
  <2>3. CallOrder'
    BY DEF CallOrder, BeforeEnd
  <2>4. ResultsOfJob'
    <3>1. PICK r : r = res
      OBVIOUS
    <3>2. r # None => IsOfJob(r)'
      BY <3>1, IsOfJobKept DEF ResultsOfJob, LostAt
    <3>3. res' = r /\ output' \in {r, None}
      BY <3>1
    <3> QED
      BY <3>2, <3>3 DEF ResultsOfJob
  <2>5. MissingLost'
    BY DEF MissingLost
  <2> QED
    BY <2>1, <2>2, <2>3, <2>4, <2>5
<1>8. CASE StepFails
  <2> USE <1>8 DEF StepFails
  <2>1. Typed'
    BY <1>a DEF Labels
  <2>2. EnclaveInv'
    BY EnclaveKept
  <2>3. CallOrder'
    BY DEF CallOrder, BeforeEnd
  <2>4. ResultsOfJob'
    BY ResultsKept DEF LostAt
  <2>5. MissingLost'
    BY DEF MissingLost
  <2> QED
    BY <2>1, <2>2, <2>3, <2>4, <2>5
<1>9. CASE KeymgrLost
  <2> USE <1>9 DEF KeymgrLost
  <2>0. /\ lost.keymgr' = Append(lost.keymgr, pc)
        /\ lost' \in [analyzer : Seq(Labels), keymgr : Seq(Labels)]
        /\ lost.analyzer' = lost.analyzer
        /\ lost.keymgr \in Seq(Labels)
    <3>1. /\ lost \in [analyzer : Seq(Labels), keymgr : Seq(Labels)]
          /\ lost.keymgr \in Seq(Labels)
      BY <1>0 DEF Typed
    <3>2. Append(lost.keymgr, pc) \in Seq(Labels)
      BY <1>0, <3>1
    <3> QED
      BY <3>1, <3>2
  <2>a. Len(lost.keymgr') = Len(lost.keymgr) + 1
    BY <1>0, <2>0
  <2>1. Typed'
    BY <1>0, <2>0, <2>a DEF Typed, Enclave
  <2>2. EnclaveInv'
    BY <2>0, EnclaveKept
  <2>3. CallOrder'
    BY <2>0 DEF CallOrder, BeforeEnd, HasInput, LostAt
  <2>4. ResultsOfJob'
    BY <2>0, ResultsKept DEF LostAt
  <2>5. MissingLost'
    BY <2>0 DEF MissingLost, LostAt
  <2> QED
    BY <2>1, <2>2, <2>3, <2>4, <2>5
<1>10. CASE Ended \/ UNCHANGED vars
  <2> USE <1>10 DEF Ended, vars
  <2>1. Typed'
    BY <1>0, <1>a
  <2>2. EnclaveInv'
    BY EnclaveKept
  <2>3. CallOrder'
    BY DEF CallOrder, HasInput, LostAt
  <2>4. ResultsOfJob'
    BY ResultsKept DEF LostAt
  <2>5. MissingLost'
    BY DEF MissingLost, LostAt
  <2> QED
    BY <2>1, <2>2, <2>3, <2>4, <2>5
<1> QED
  BY <1>1, <1>2, <1>3, <1>4, <1>5, <1>6, <1>7, <1>8, <1>9, <1>10

-----------------------------------------------------------------------------
(* Steps of the enclave.                                                   *)

\* A call into the enclave: only the label and the enclave change.
EnclaveCall ==
  UNCHANGED <<job, fed, km, size, res, output, lost>>

\* The session a call opens is one of the key manager's.
LEMMA SessionTyped ==
  ASSUME Typed
  PROVE  SessionOf \in Nat /\ SessionOf <= km.epoch
<1>1. /\ km.epoch \in Nat /\ enc.session \in Nat /\ enc.session <= km.epoch
  BY DEF Typed, Enclave
<1> QED
  BY <1>1 DEF SessionOf

\* What is granted was released by its owner.
LEMMA GrantedReleased ==
  ASSUME Typed, NEW K, Granted(K)
  PROVE  K \subseteq job.released
BY DEF Typed, Granted

LEMMA SourceStep ==
  ASSUME JobInv, InitDataSource
  PROVE  JobInv'
<1> USE DEF JobInv
<1>0. /\ Typed /\ HasInput /\ pc = "source" /\ pc' = "model" /\ EnclaveCall
      /\ enc.result = None
  BY DEF InitDataSource, Goto, Unmoved, EnclaveCall, CallOrder, BeforeEnd
<1>1. /\ Used \in Seq(InputType) /\ Used # <<>>
      /\ Len(Used) \in Nat /\ DOMAIN Used = 1 .. Len(Used)
  BY <1>0, UsedInputs
<1> DEFINE src == [k \in DOMAIN Used |-> Provider(Used[k])]
           ses == IF job.src = "raw" THEN enc.session ELSE SessionOf
           K == {Used[k].pkey : k \in DOMAIN Used}
<1>2. enc' = [enc EXCEPT !.session = ses, !.sources = src]
  BY DEF InitDataSource
<1>3. job.src # "raw" => K \ {None} \subseteq job.released
  <2>1. job.src # "raw" => Granted(K) \/ Granted(K \ {None})
    BY DEF InitDataSource
  <2> QED
    BY <1>0, <2>1, GrantedReleased
<1>4. src \in Seq(Source) /\ src # <<>> /\ DOMAIN src = DOMAIN Used
  <2>1. \A k \in 1 .. Len(Used) : Provider(Used[k]) \in Source
    <3> TAKE k \in 1 .. Len(Used)
    <3>1. Used[k] \in InputType
      BY <1>1
    <3>2. Used[k].hash \in Hash /\ Used[k].pkey \in Pkey \cup {None}
      BY <3>1 DEF InputType
    <3> QED
      BY <3>2 DEF Provider, Source
  <2>2. src \in Seq(Source) /\ DOMAIN src = 1 .. Len(Used)
    BY <1>1, <2>1
  <2> QED
    BY <1>1, <2>2
<1>5. \A k \in DOMAIN Used :
        /\ src[k].expect = Used[k].hash
        /\ job.src # "raw" => src[k].use = Used[k].pkey
  BY DEF Provider
<1>6. ses \in Nat /\ ses <= km.epoch
  BY <1>0, SessionTyped DEF Typed, Enclave
<1> HIDE DEF src, ses
<1>7. /\ enc' \in Enclave
      /\ enc'.sources = src /\ enc'.session = ses
      /\ enc'.model = enc.model /\ enc'.modelKey = enc.modelKey
      /\ enc'.parser = enc.parser /\ enc'.result = None
      /\ enc'.pkg = enc.pkg
  <2>1. enc \in Enclave
    BY DEF Typed
  <2> QED
    BY <1>0, <1>2, <1>4, <1>6, <2>1 DEF Enclave
<1>8. Typed'
  BY <1>0, <1>6, <1>7 DEF Typed, EnclaveCall, Labels, Calls
<1>9. SourcesNamed'
  <2>1. Used' = Used /\ HasInput' /\ job' = job
    BY <1>0 DEF Used, HasInput, EnclaveCall
  <2>2. \A k \in DOMAIN Used : job.src # "raw" /\ Used[k].pkey # None =>
          Used[k].pkey \in job.released
    BY <1>3
  <2> QED
    BY <1>4, <1>5, <1>7, <2>1, <2>2 DEF SourcesNamed
<1>10. ModelFed'
  BY <1>0, <1>4, <1>7 DEF EnclaveInv, ModelFed, EnclaveCall, SourceSet, LostAt
<1>11. ResultComputed' /\ PackageMade'
  BY <1>0, <1>7 DEF EnclaveInv, ResultComputed, PackageMade
<1>12. CallOrder'
  BY <1>0, <1>7 DEF CallOrder
<1>13. ResultsOfJob'
  BY <1>0, ResultsKept DEF EnclaveCall, LostAt
<1>14. MissingLost'
  BY <1>0 DEF MissingLost
<1> QED
  BY <1>8, <1>9, <1>10, <1>11, <1>12, <1>13, <1>14 DEF EnclaveInv

LEMMA ModelStep ==
  ASSUME JobInv, FeedModel
  PROVE  JobInv'
<1> USE DEF JobInv
<1>0. /\ Typed /\ pc = "model" /\ pc' = "begin" /\ EnclaveCall
      /\ enc.result = None
  BY DEF FeedModel, Goto, Unmoved, EnclaveCall, CallOrder, BeforeEnd
<1>a. ResultsOfJob'
  BY <1>0, ResultsKept DEF EnclaveCall, LostAt
<1>b. MissingLost'
  BY <1>0 DEF MissingLost
<1>1. CASE job.model = None
  <2>1. enc' = enc /\ enc.model = job.model
    BY <1>1 DEF FeedModel, Typed
  <2>2. Typed'
    BY <1>0, <2>1 DEF Typed, EnclaveCall, Labels, Calls
  <2>3. EnclaveInv'
    BY <1>0, <2>1, EnclaveKept DEF EnclaveCall
  <2>4. CallOrder'
    BY <1>0, <2>1 DEF CallOrder, EnclaveCall
  <2> QED
    BY <1>a, <1>b, <2>2, <2>3, <2>4
<1>2. CASE job.model # None
  <2>1. /\ Granted({job.modelKey})
        /\ enc' = [enc EXCEPT !.session = SessionOf, !.model = job.model,
                              !.modelKey = job.modelKey]
    BY <1>2 DEF FeedModel
  <2>2. job.modelKey \in job.released
    BY <1>0, <2>1, GrantedReleased
  <2>3. enc \in Enclave
    BY DEF Typed
  <2>4. /\ SessionOf \in Nat /\ SessionOf <= km.epoch
        /\ job.model \in Model \cup {None} /\ job.modelKey \in Pkey \cup {None}
    BY <1>0, SessionTyped, JobFields
  <2>5. /\ enc' \in Enclave
        /\ enc'.session = SessionOf /\ enc'.model = job.model
        /\ enc'.modelKey = job.modelKey /\ enc'.sources = enc.sources
        /\ enc'.parser = enc.parser /\ enc'.result = None
        /\ enc'.pkg = enc.pkg
    BY <1>0, <2>1, <2>3, <2>4 DEF Enclave
  <2>6. Typed'
    BY <1>0, <2>4, <2>5 DEF Typed, EnclaveCall, Labels, Calls
  <2>7. SourcesNamed'
    BY <1>0, <2>5 DEF EnclaveInv, SourcesNamed, EnclaveCall, Used, HasInput
  <2>8. ModelFed'
    BY <1>0, <2>2, <2>5 DEF EnclaveInv, ModelFed, EnclaveCall, SourceSet
  <2>9. ResultComputed' /\ PackageMade'
    BY <1>0, <2>5 DEF EnclaveInv, ResultComputed, PackageMade
  <2>10. CallOrder'
    BY <1>0, <2>5 DEF CallOrder, EnclaveCall
  <2> QED
    BY <1>a, <1>b, <2>6, <2>7, <2>8, <2>9, <2>10 DEF EnclaveInv
<1> QED
  BY <1>1, <1>2

LEMMA BeginStep ==
  ASSUME JobInv, BeginParse
  PROVE  JobInv'
<1> USE DEF JobInv
<1>0. /\ Typed /\ pc = "begin" /\ EnclaveCall /\ enc.result = None
      /\ pc' = IF SourceSet THEN "parse" ELSE "err"
      /\ enc.model = job.model \/ (enc.sources = <<>> /\ LostAt("begin"))
  BY DEF BeginParse, Goto, Unmoved, EnclaveCall, CallOrder, BeforeEnd
<1> DEFINE set == SourceSet
<1>1. enc' = [enc EXCEPT !.session = SessionOf, !.parser = set] /\ set \in BOOLEAN
  BY DEF BeginParse, SourceSet
<1>2. enc \in Enclave /\ SessionOf \in Nat /\ SessionOf <= km.epoch
  BY <1>0, SessionTyped DEF Typed
<1> HIDE DEF set
<1>3. /\ enc' \in Enclave
      /\ enc'.session = SessionOf /\ enc'.parser = set
      /\ enc'.sources = enc.sources /\ enc'.model = enc.model
      /\ enc'.modelKey = enc.modelKey
      /\ enc'.result = None /\ enc'.pkg = enc.pkg
  BY <1>0, <1>1, <1>2 DEF Enclave
<1>4. Typed'
  BY <1>0, <1>2, <1>3 DEF Typed, EnclaveCall, Labels, Calls
<1>5. SourcesNamed'
  BY <1>0, <1>3 DEF EnclaveInv, SourcesNamed, EnclaveCall, Used, HasInput
<1>6. ModelFed'
  BY <1>0, <1>3 DEF EnclaveInv, ModelFed, EnclaveCall, SourceSet, LostAt, set
<1>7. ResultComputed' /\ PackageMade'
  BY <1>0, <1>3 DEF EnclaveInv, ResultComputed, PackageMade
<1>8. CallOrder'
  BY <1>0, <1>3 DEF CallOrder
<1>9. ResultsOfJob'
  BY <1>0, ResultsKept DEF EnclaveCall, LostAt
<1>10. MissingLost'
  BY <1>0 DEF MissingLost
<1> QED
  BY <1>4, <1>5, <1>6, <1>7, <1>8, <1>9, <1>10 DEF EnclaveInv

LEMMA ParseStep ==
  ASSUME JobInv, ParseDataItem
  PROVE  JobInv'
<1> USE DEF JobInv
<1>0. /\ Typed /\ pc = "parse" /\ EnclaveCall /\ enc.result = None
  BY DEF ParseDataItem, Goto, Unmoved, EnclaveCall, CallOrder, BeforeEnd
<1>1. CASE enc' = enc /\ pc' \in {"thrown", "err"}
  <2>1. Typed'
    BY <1>0, <1>1 DEF Typed, EnclaveCall, Labels
  <2>2. EnclaveInv'
    BY <1>0, <1>1, EnclaveKept DEF EnclaveCall
  <2>3. CallOrder'
    BY <1>1 DEF CallOrder, BeforeEnd
  <2>4. ResultsOfJob'
    BY <1>0, ResultsKept DEF EnclaveCall, LostAt
  <2>5. MissingLost'
    BY <1>1 DEF MissingLost
  <2> QED
    BY <2>1, <2>2, <2>3, <2>4, <2>5
<1>2. CASE /\ enc.parser /\ ModelAllowed /\ DataAllowed /\ TargetSigned
           /\ pc' = "end"
           /\ \E actual \in [DOMAIN enc.sources -> Hash \cup {Other}] :
                enc' = Parsed(actual)
  <2>1. PICK actual \in [DOMAIN enc.sources -> Hash \cup {Other}] :
           enc' = Parsed(actual)
    BY <1>2
  <2> DEFINE read == [k \in DOMAIN enc.sources |->
                        [enc.sources[k] EXCEPT !.actual = actual[k]]]
             forward == job.res = "forward"
             result == [param |-> job.param, model |-> enc.model,
                        data |-> DataHash(read)]
  <2>2. /\ enc' = [enc EXCEPT !.sources = read, !.hash = DataHash(read),
                              !.target = forward, !.result = result]
        /\ forward \in BOOLEAN
    BY <2>1 DEF Parsed
  <2>3. /\ enc \in Enclave /\ enc.sources \in Seq(Source)
        /\ Len(enc.sources) \in Nat
        /\ DOMAIN enc.sources = 1 .. Len(enc.sources)
        /\ enc.model \in Model \cup {None}
    BY DEF Typed, Enclave
  <2>4. /\ read \in Seq(Source) /\ DOMAIN read = 1 .. Len(enc.sources)
        /\ DOMAIN read = DOMAIN enc.sources
        /\ \A k \in DOMAIN read :
             /\ read[k].actual \in Hash \cup {Other}
             /\ read[k].expect = enc.sources[k].expect
             /\ read[k].use = enc.sources[k].use
    <3>1. ASSUME NEW k \in DOMAIN enc.sources
          PROVE  /\ read[k] \in Source
                 /\ read[k].actual \in Hash \cup {Other}
                 /\ read[k].expect = enc.sources[k].expect
                 /\ read[k].use = enc.sources[k].use
      <4>1. enc.sources[k] \in Source /\ actual[k] \in Hash \cup {Other}
        BY <2>3
      <4>2. read[k] = [enc.sources[k] EXCEPT !.actual = actual[k]]
        OBVIOUS
      <4> HIDE DEF read
      <4> QED
        BY <4>1, <4>2 DEF Source
    <3>2. DOMAIN read = DOMAIN enc.sources
      OBVIOUS
    <3>3. read \in Seq(Source)
      <4>1. read = [k \in DOMAIN enc.sources |-> read[k]]
        OBVIOUS
      <4> HIDE DEF read
      <4>2. read \in [DOMAIN enc.sources -> Source]
        BY <3>1, <4>1
      <4> QED
        BY <2>3, <4>2
    <3> QED
      BY <2>3, <3>1, <3>2, <3>3
  <2>5. DataHash(read) \in DataHashes
    BY <2>3, <2>4, DataHashTyped
  <2> HIDE DEF read, forward
  <2>6. result \in Results /\ result # None
    BY <1>0, <2>3, <2>5, JobFields, JobAssumption DEF Results
  <2> HIDE DEF result
  <2>7. /\ enc' \in Enclave
        /\ enc'.sources = read /\ enc'.hash = DataHash(read)
        /\ enc'.target = forward /\ enc'.result = result
        /\ enc'.session = enc.session /\ enc'.model = enc.model
        /\ enc'.modelKey = enc.modelKey /\ enc'.parser = enc.parser
        /\ enc'.pkg = enc.pkg
    BY <2>2, <2>3, <2>4, <2>5, <2>6 DEF Enclave
  <2>8. enc.pkg = None
    BY <1>0 DEF EnclaveInv, PackageMade
  <2>9. (read = <<>>) = (enc.sources = <<>>)
    BY <2>3, <2>4
  <2>10. Typed'
    BY <1>0, <1>2, <2>7 DEF Typed, EnclaveCall, Labels, Calls
  <2>11. SourcesNamed'
    <3>1. Used' = Used /\ HasInput' = HasInput /\ job' = job
      BY <1>0 DEF Used, HasInput, EnclaveCall
    <3> QED
      BY <2>4, <2>7, <2>9, <3>1 DEF EnclaveInv, SourcesNamed
  <2>12. ModelFed'
    BY <1>0, <2>7, <2>9 DEF EnclaveInv, ModelFed, EnclaveCall, SourceSet, LostAt
  <2>13. ResultComputed'
    <3>1. TargetSigned' /\ ModelAllowed'
      BY <1>0, <1>2, <2>7
      DEF EnclaveCall, TargetSigned, ModelAllowed, Checked, Valid
    <3>2. DataAllowed'
      <4>1. Checked' = Checked /\ job' = job
        BY <1>0 DEF EnclaveCall, Checked, Valid
      <4>2. ASSUME NEW t \in ToSet(read)
            PROVE  \E s \in ToSet(enc.sources) :
                     t.use = s.use /\ t.expect = s.expect
        BY <2>4 DEF ToSet
      <4> QED
        BY <1>2, <2>7, <4>1, <4>2 DEF DataAllowed
    <3>3. enc'.target = (job'.res = "forward")
      BY <1>0, <2>7 DEF EnclaveCall, forward
    <3>4. enc'.result = [param |-> job'.param, model |-> enc'.model,
                         data |-> enc'.hash]
      BY <1>0, <2>7 DEF EnclaveCall, result
    <3> QED
      BY <1>2, <2>7, <3>1, <3>2, <3>3, <3>4 DEF ResultComputed
  <2>14. PackageMade'
    BY <2>7, <2>8 DEF PackageMade
  <2>15. CallOrder'
    BY <1>2 DEF CallOrder, BeforeEnd
  <2>16. ResultsOfJob'
    BY <1>0, ResultsKept DEF EnclaveCall, LostAt
  <2>17. MissingLost'
    BY <1>2 DEF MissingLost
  <2> QED
    BY <2>10, <2>11, <2>12, <2>13, <2>14, <2>15, <2>16, <2>17 DEF EnclaveInv
<1> QED
  BY <1>1, <1>2 DEF ParseDataItem, Goto

LEMMA EndStep ==
  ASSUME JobInv, EndParse
  PROVE  JobInv'
<1> USE DEF JobInv
<1>0. /\ Typed /\ pc = "end" /\ EnclaveCall
  BY DEF EndParse, Goto, Unmoved, EnclaveCall
<1>1. CASE enc' = enc /\ pc' \in {"thrown", "err"}
  <2>1. Typed'
    BY <1>0, <1>1 DEF Typed, EnclaveCall, Labels
  <2>2. EnclaveInv'
    BY <1>0, <1>1, EnclaveKept DEF EnclaveCall
  <2>3. CallOrder'
    BY <1>1 DEF CallOrder, BeforeEnd
  <2>4. ResultsOfJob'
    BY <1>0, ResultsKept DEF EnclaveCall, LostAt
  <2>5. MissingLost'
    BY <1>1 DEF MissingLost
  <2> QED
    BY <2>1, <2>2, <2>3, <2>4, <2>5
<1>2. CASE /\ enc.result # None /\ HashesMatch /\ pc' = "size"
           /\ enc' = [enc EXCEPT !.pkg = Package]
  <2> DEFINE pkg == Package
  <2>1. pkg \in Packages /\ pkg # None
    BY <1>0, <1>2, PackageTyped DEF EnclaveInv
  <2>2. enc' = [enc EXCEPT !.pkg = pkg] /\ enc \in Enclave
    BY <1>2 DEF Typed
  <2> HIDE DEF pkg
  <2>3. /\ enc' \in Enclave /\ enc'.pkg = pkg
        /\ enc'.sources = enc.sources /\ enc'.hash = enc.hash
        /\ enc'.target = enc.target /\ enc'.result = enc.result
        /\ enc'.session = enc.session /\ enc'.model = enc.model
        /\ enc'.modelKey = enc.modelKey /\ enc'.parser = enc.parser
    BY <2>1, <2>2 DEF Enclave
  <2>4. Typed'
    BY <1>0, <1>2, <2>3 DEF Typed, EnclaveCall, Labels, Calls
  <2>5. SourcesNamed'
    BY <1>0, <2>3 DEF EnclaveInv, SourcesNamed, EnclaveCall, Used, HasInput
  <2>6. ModelFed'
    BY <1>0, <2>3 DEF EnclaveInv, ModelFed, EnclaveCall, SourceSet, LostAt
  <2>7. ResultComputed'
    BY <1>0, <2>3 DEF EnclaveInv, ResultComputed, EnclaveCall, TargetSigned,
                      ModelAllowed, DataAllowed, Checked, Valid
  <2>8. PackageMade'
    <3>1. Package' = Package /\ HashesMatch'
      BY <1>0, <1>2, <2>3
      DEF EnclaveCall, HashesMatch, Package, OnchainResult, OffchainResult,
          ForwardResult, LocalResult
    <3> QED
      BY <1>2, <2>3, <3>1 DEF PackageMade, pkg
  <2>9. CallOrder'
    BY <1>2 DEF CallOrder, BeforeEnd
  <2>10. ResultsOfJob'
    BY <1>0, ResultsKept DEF EnclaveCall, LostAt
  <2>11. MissingLost'
    BY <1>2, <2>1, <2>3 DEF MissingLost
  <2> QED
    BY <2>4, <2>5, <2>6, <2>7, <2>8, <2>9, <2>10, <2>11 DEF EnclaveInv
<1> QED
  BY <1>1, <1>2 DEF EndParse, Goto

\* A lost analyzer remembers nothing; where it was lost is remembered.
LEMMA LossStep ==
  ASSUME JobInv, AnalyzerLost
  PROVE  JobInv'
<1> USE DEF JobInv
<1>0. /\ Typed /\ enc' = Fresh /\ Running
      /\ UNCHANGED <<job, pc, fed, km, size, res, output>>
      /\ lost' = [lost EXCEPT !.analyzer = Append(lost.analyzer, pc)]
  BY DEF AnalyzerLost
<1>1. /\ lost \in [analyzer : Seq(Labels), keymgr : Seq(Labels)]
      /\ lost.analyzer \in Seq(Labels) /\ pc \in Labels
  BY DEF Typed
<1>2. /\ Append(lost.analyzer, pc) \in Seq(Labels)
      /\ ToSet(Append(lost.analyzer, pc)) = ToSet(lost.analyzer) \cup {pc}
  BY <1>1, AppendedSet
<1>3. /\ lost' \in [analyzer : Seq(Labels), keymgr : Seq(Labels)]
      /\ lost'.analyzer = Append(lost.analyzer, pc)
      /\ lost'.keymgr = lost.keymgr
  BY <1>0, <1>1, <1>2
<1>4. LostAt(pc)' /\ \A label : LostAt(label) => LostAt(label)'
  BY <1>0, <1>2, <1>3 DEF LostAt
<1>5. /\ enc' \in Enclave
      /\ enc'.session = 0 /\ enc'.sources = <<>> /\ enc'.model = None
      /\ enc'.modelKey = None /\ enc'.parser = FALSE /\ enc'.result = None
      /\ enc'.pkg = None
  BY <1>0 DEF Fresh, Enclave
<1>6. Typed'
  BY <1>0, <1>3, <1>5 DEF Typed
<1>7. EnclaveInv'
  BY <1>5 DEF EnclaveInv, SourcesNamed, ModelFed, ResultComputed, PackageMade
<1>8. CallOrder'
  BY <1>0, <1>4, <1>5 DEF CallOrder, HasInput
<1>9. ResultsOfJob'
  BY <1>0, <1>4, ResultsKept
<1>10. MissingLost'
  BY <1>0, <1>4 DEF MissingLost, Running
<1> QED
  BY <1>6, <1>7, <1>8, <1>9, <1>10

-----------------------------------------------------------------------------
(* The theorems.                                                           *)

LEMMA JobInit ==
  ASSUME Init
  PROVE  JobInv
<1> USE DEF Init
<1>1. job \in JobType /\ MaxLoss \in Nat
  BY JobAssumption
<1>2. /\ job.inputs \in Seq(InputType) /\ Len(job.inputs) \in Nat
      /\ job.released \subseteq Pkey
  BY <1>1 DEF JobType, InputType
<1>3. /\ enc \in Enclave
      /\ enc.session = 0 /\ enc.sources = <<>> /\ enc.model = None
      /\ enc.modelKey = None /\ enc.parser = FALSE /\ enc.result = None
      /\ enc.pkg = None
  BY DEF Fresh, Enclave
<1>4. /\ km \in [epoch : Nat, keys : SUBSET job.released] /\ km.epoch = 1
      /\ lost \in [analyzer : Seq(Labels), keymgr : Seq(Labels)]
      /\ lost.keymgr = <<>>
  OBVIOUS
<1>5. Typed
  BY <1>1, <1>2, <1>3, <1>4 DEF Typed, Labels, Calls
<1>6. EnclaveInv
  BY <1>3 DEF EnclaveInv, SourcesNamed, ModelFed, ResultComputed, PackageMade
<1>7. CallOrder /\ ResultsOfJob /\ MissingLost
  BY <1>3 DEF CallOrder, ResultsOfJob, MissingLost
<1> QED
  BY <1>5, <1>6, <1>7 DEF JobInv

LEMMA JobStep ==
  ASSUME JobInv, [Next]_vars
  PROVE  JobInv'
BY HostStep, SourceStep, ModelStep, BeginStep, ParseStep, EndStep, LossStep
DEF Next

\* The inductive invariant holds in every state of every job.
THEOREM JobInvariant == Spec => []JobInv
<1>1. Init => JobInv
  BY JobInit
<1>2. JobInv /\ [Next]_vars => JobInv'
  BY JobStep
<1> QED
  BY <1>1, <1>2, PTL DEF Spec

\* A result that reaches the output file was computed from the parameter and
\* all of the data of the job, is signed over these, goes to a signed target
\* and used the job's model, however often either enclave was lost.
THEOREM ResultIsOfJobHolds == Spec => []ResultIsOfJob
<1>1. JobInv => ResultIsOfJob
  BY DEF JobInv, ResultsOfJob, IsOfJob, ResultIsOfJob, JobData, LostAt
<1> QED
  BY <1>1, JobInvariant, PTL

\* An enclave computes only with what its owners released to it and, where
\* its policies check, only for uses they signed.
THEOREM ConsentedUseHolds == Spec => []ConsentedUse
<1>1. ASSUME JobInv PROVE ConsentedUse
  <2> USE <1>1 DEF JobInv
  <2> DEFINE agreed(p, h) == \E a \in ToSet(job.allowances) :
                   a.sig = [by |-> p, param |-> job.param, hash |-> h]
  <2> SUFFICES ASSUME enc.result # None
               PROVE  /\ job.src \in {"single", "multi"} =>
                           \A i \in ToSet(Used) : i.pkey # None =>
                             /\ i.pkey \in job.released
                             /\ job.checkD => agreed(i.pkey, i.hash)
                      /\ enc.model # None => job.modelKey \in job.released
                      /\ job.model # None /\ job.checkM =>
                           agreed(job.modelKey, job.model)
    BY DEF ConsentedUse
  <2>1. ModelAllowed /\ DataAllowed /\ SourceSet
    BY DEF EnclaveInv, ResultComputed, ModelFed
  <2>2. ASSUME NEW p, NEW h, <<p, h>> \in Checked
        PROVE  agreed(p, h) /\ h # None
    <3>1. PICK a \in ToSet(job.allowances) :
             <<p, h>> = <<a.pkey, a.hash>> /\ Valid(a)
      BY <2>2 DEF Checked
    <3>2. p = a.pkey /\ h = a.hash
      BY <3>1
    <3>3. PICK k \in DOMAIN job.allowances : a = job.allowances[k]
      BY <3>1 DEF ToSet
    <3>4. job.allowances \in Seq(AllowanceType)
      BY JobFields
    <3>5. a \in AllowanceType
      BY <3>3, <3>4
    <3> QED
      BY <3>1, <3>2, <3>5, JobAssumption DEF Valid, AllowanceType
  <2>3. ASSUME job.src \in {"single", "multi"}, NEW i \in ToSet(Used),
               i.pkey # None
        PROVE  i.pkey \in job.released /\ (job.checkD => agreed(i.pkey, i.hash))
    <3>1. PICK k \in DOMAIN Used : i = Used[k]
      BY <2>3 DEF ToSet
    <3>2. enc.sources # <<>>
      BY <2>1, <2>3 DEF SourceSet
    <3>3. /\ DOMAIN enc.sources = DOMAIN Used
          /\ enc.sources[k].expect = i.hash /\ enc.sources[k].use = i.pkey
          /\ i.pkey \in job.released
      BY <2>3, <3>1, <3>2 DEF EnclaveInv, SourcesNamed
    <3>4. enc.sources[k] \in ToSet(enc.sources)
      BY <3>1, <3>3 DEF ToSet
    <3>5. job.checkD => <<i.pkey, i.hash>> \in Checked
      BY <2>1, <2>3, <3>3, <3>4 DEF DataAllowed
    <3> QED
      BY <2>2, <3>3, <3>5
  <2>4. enc.model # None => job.modelKey \in job.released
    BY DEF EnclaveInv, ModelFed
  <2>5. ASSUME job.model # None, job.checkM
        PROVE  agreed(job.modelKey, job.model)
    <3>1. <<enc.modelKey, enc.model>> \in Checked
      BY <2>1, <2>5 DEF ModelAllowed
    <3>2. agreed(enc.modelKey, enc.model) /\ enc.model # None
      BY <2>2, <3>1
    <3>3. enc.model = job.model /\ enc.modelKey = job.modelKey
      BY <3>2 DEF Typed, EnclaveInv, ModelFed
    <3> QED
      BY <3>2, <3>3
  <2> QED
    BY <2>3, <2>4, <2>5
<1> QED
  BY <1>1, JobInvariant, PTL

\* The members are well formed after any loss, and parse() succeeds without a
\* result only if the analyzer was lost when the host asked for the size or,
\* for a forwarded result, for the result itself.
THEOREM SuccessSoundHolds == Spec => []SuccessSound
<1>1. ASSUME JobInv PROVE SuccessSound
  <2> USE <1>1 DEF JobInv
  <2>1. JobTypeOK
    <3>1. /\ job \in Jobs /\ pc \in Labels /\ size \in {None, "empty", "full"}
          /\ enc.model \in {None, job.model}
          /\ enc.modelKey \in {None, job.modelKey}
          /\ km.keys \subseteq job.released
      BY DEF Typed
    <3>2. fed \in 0 .. Len(job.inputs)
      BY JobFields DEF Typed
    <3>3. /\ km.epoch \in 1 .. MaxLoss + 1
          /\ enc.session \in 0 .. km.epoch
      BY JobAssumption DEF Typed, Enclave
    <3>4. Len(enc.sources) \in {0, 1, Len(job.inputs)}
      <4>1. CASE enc.sources = <<>>
        BY <4>1
      <4>2. CASE enc.sources # <<>>
        <5>1. HasInput /\ DOMAIN enc.sources = DOMAIN Used
          BY <4>2 DEF EnclaveInv, SourcesNamed
        <5>2. /\ Used \in Seq(InputType) /\ enc.sources \in Seq(Source)
              /\ Len(Used) \in {1, Len(job.inputs)}
          BY <5>1, UsedInputs DEF Typed, Enclave
        <5> QED
          BY <5>1, <5>2
      <4> QED
        BY <4>1, <4>2
    <3>5. enc.pkg # None => enc.pkg.result = enc.result
      <4>1. job.res \in {"onchain", "offchain", "local", "forward"}
        BY JobFields
      <4> QED
        BY <4>1 DEF EnclaveInv, PackageMade, Package, OnchainResult,
                    OffchainResult, ForwardResult, LocalResult
    <3> QED
      BY <3>1, <3>2, <3>3, <3>4, <3>5 DEF JobTypeOK
  <2>2. EmptyOnlyIfLost
    BY DEF MissingLost, LostAt, EmptyOnlyIfLost
  <2> QED
    BY <2>1, <2>2 DEF SuccessSound
<1> QED
  BY <1>1, JobInvariant, PTL
=============================================================================
