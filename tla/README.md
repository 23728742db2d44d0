# YeeZ Privacy Computing in TLA+

A verification project for the repository under `src/`: a privacy computing
system in which data owners seal their data, release the key to one enclave
measurement, and a requester gets the result of an algorithm that ran on the
data inside that enclave. The modules here are translated from the code; each
definition's source lines are in `PROJECT.json` under `map`.

## The system

| Component | State it keeps | Operations | Modules |
|---|---|---|---|
| attested channel (`ypc/stbox/src/tsgx/channel`, `keymgr_session.cpp`) | per analyzer a session object (id, key, counter, status); in the key manager the session table, the next id and the responder object with its verifier | create_session (three calls), send_request_recv_response, close_session; session_request, exchange_report, generate_response, end_session | `DhChannel`, `RpcChannel`, `KeyServiceProofs` |
| enclave module (`usgx/sgx_module.h`) | the enclave's id | an ecall, repeated on a new enclave when the old one is lost | losses in `DhChannel`, `KeyService`, `ParseJob` |
| key manager enclave (`ekeymgr.ipp`, `signer_verify.cpp`) | access policy, table of forwarded private keys | set policy, forward key, answer a request for a key | `KeyService` |
| key files (`ypc/keymgr/common/util.cpp`, `ypc/keymgr/default`) | a directory of sealed key pairs | create, list, remove; load by ocall and check | `KeyStore` |
| block file, sealed file (`blockfile_base_r.h`, `sealed_file.cpp`) | file, block infos, header, read position | open, append, close, next, reset | `BlockFile` |
| data hub (`toolkit/datahub/main.cpp`) | batch, hash, counters of `seal_file` | seal, publish the hash | `SealedData` |
| CSV plugin (`include/toolkit/plugins/csv`) | stream, three blocks of the file, a thread that reads ahead | create, next line, count, reset, close; cut a line, match the header, convert | `CsvReader`, `CsvReaderProofs`, `CsvColumns` |
| data providers (`sealed_data_provider.h`, `data_interface.h`) | current batch, index, chained hash, end flag | process, check_actual_data_hash | `SealedData` |
| dataflow engine and functors (`hpda`) | queue, stack, status and value flag of each functor, each functor's own members | run; process of each functor | `Dataflow` |
| host analyzer (`toolkit/analyzer`) | open data files, modules, result | parse(), main; carries the ocalls of the enclaves | `ParseJob`; its file reading in `SealedData`, its bridge in `DhChannel` |
| analyzer enclave interfaces and results (`core_t/analyzer`) | session, data sources, model, parser, hash, result, package | init_data_source, init_model, begin, parse, end, get result; allowances | `ParseJob` |
| file bridge (`cxxfile_bridge.cpp`, `cxxfile.cpp`) | streams of the host by number, the number in each file object of the enclave | open, close, read, write, seek, start, shutdown | `FileBridge` |
| cryptography and terminus (`core*/crypto`, `toolkit/terminus`) | none | seal with a purpose, open, sign, verify; requests, allowances, forwarded keys, results | `CryptoPack` |
| byte encodings (`ypc/common/byte`, `gmssl/asn1.c`, `gmssl/hex.c`) | none | hexadecimal, base64, base58, DER | `Encodings`, `Asn1` |
| secp256k1 library (`tsgx/secp256k1`) | a context with a blinding; otherwise none | field, scalar, group, multiplication, keys, tweaks, signatures, recovery, ECDH | `Limbs`, `Field`, `Scalar`, `Powers`, `Group`, `Ecmult`, `Ecdsa`, `SigDer` |
| gmssl library (`gmssl`) | contexts of digests and ciphers | SM2, SM3, SHA-256, SM4, AES, their modes | `SmNumbers`, `Sm2`, `Hashes`, `BlockCiphers`, `CipherModes`, `Asn1` |

How they interact. The host analyzer loads the key manager enclave and one
analyzer enclave per job. An owner's key goes host → `forward_private_key` →
table. The analyzer asks for it over the attested channel: it calls out of its
enclave, the host calls into the key manager, and both return. Then the
analyzer's engine pulls items; its extractor is a data provider that calls out
for the next batch of the sealed file. When the engine has stopped, the
analyzer compares the hash chained over the batches with the expected one
before it makes a result. The data hub made that file earlier, from what a
plugin read. Keys, requests and allowances are made outside by terminus and
checked inside by the enclaves' own copies of the same cryptography.

What is hard in it:

* calls of several analyzers interleave between the steps of a handshake and of
  a request, while session ids wrap around and stale ids stay in objects;
* either enclave can be lost at any call, and the call is then silently repeated
  on a new enclave that remembers nothing;
* the two ends of a session count messages separately, and a lost response puts
  them out of step;
* policies and forwarded keys are checked at one time and used at another;
* writers die between items or inside `close()`; batches can be lost, repeated
  or moved by the storage that keeps them, and only a hash over all of them tells;
* a thread fills a part of the buffer whose other parts are being read, and is
  replaced, with the stream it reads from, while it runs;
* the engine decides by flags alone when a functor is asked again and when it
  has ended;
* limbs carry more than their width until they are normalised; carries, borrows
  and exceptional points are met by one input in 2^30, 2^128 or fewer;
* a message's purpose and an allowance's meaning are positions in byte strings
  that two programs put together separately.

`PROJECT.json` lists these hazards at their lines, with the properties meant to
catch them.

## Modules and how they correspond to the code

### Protocols and processes

**RpcChannel** is the abstract specification: a channel is opened once, for one
client, answers arrive only while it is open, a closed one never opens again.

**DhChannel** has one action per call into the key manager and one per local
continuation; `ini[i].pc` says in which call analyzer `i` is, so calls of
different analyzers interleave wherever the code leaves an enclave. A call into
the key manager is atomic: the host process holds one key manager module and
makes one ecall at a time. The SDK's key exchange and AES-GCM are external: two
ends have the same key exactly when message 2 answers the message 1 of the
instance that processes it, and a message decrypts only under the key it was
encrypted with. `KeymgrLost` and `AnalyzerLost` are the losses that
`sgx_module::ecall` repairs. The host fails but does not forge or replay
messages.

**KeyService** EXTENDS DhChannel by the policy, the key table and the body of
the key request; its actions are DhChannel's, extended, so that KeyUse is checked
over sessions that really are created, closed and lost. A signature is modelled
by the set of statements the owners signed. A `package` that was never filled is
taken to have tag 0 (`EmptyPolicy`).

**KeyStore** is the directory of key files. A key is created in three steps
(generate, open the file, which empties it, and write it), and the tool may die
between any two. `create_key` does not look at what the enclave returned, so a
file may hold what was in the buffers. A file is named by the beginning of the
public key: `KsName` gives two of the keys the same name.

**BlockFile** writes the file as words: items behind their length, then block
infos, then the header. What `next_item` returns after the last item follows
from the words it finds there. **SealedData** EXTENDS it by `seal_file`, the
storage, `next_data_batch` and the data providers. The chained hash is the
sequence hashed (no collisions); a foreign batch does not decrypt. A read of the
plugin may fail at any item; its `get_item_number` leaves the position alone.

**CsvReader** is `LineReader` and its `AsynchronousReader`. A section under the
mutex is one step, and a thread in a condition variable is blocked until it is
notified, so a notification that is not sent shows as a call that never returns.
Bytes are kept in blocks as in the code, with the position of each byte, so that
a line handed out can be compared with the file and with what the thread writes.
**CsvColumns** is what happens to one line.

**Dataflow** has one action per branch of `engine::run()` and one operator per
`process()`. `Meaning` is the reference definition: what each functor should
make of what its predecessors should. The order of the outputs is that of an
`unordered_map`, so every order is an initial state.

**ParseJob** is one job from `parser::parse()` to the file `main` writes, one
action per call into an enclave and one per local step. `enc` is the members of
the enclave's `algo_wrapper`, which `AnalyzerLost` resets while `pc`, the host's
place in the sequence, stays. It composes the others by what they promise: the
key manager has the keys that were released and forwarded since it was started
(KeyService), and a provider ends up with the expected hash or with another one
(SealedData). An ecall is one action because nobody else sees it half done.
`job` ranges over the kinds of enclave (data source, result, the two policies,
with and without a model) and over requests that fit them and that do not.
`StepFails` stands for every error of a step that does not depend on the state
here (a decryption, a key exchange, a signature). Which bytes an empty package
unpacks to is external; where it may throw, it may.

**FileBridge** keeps for every file object of the enclave which file it opened
and where its own calls left it, beside the host's table, so that the two can be
compared after numbers wrap and after the bridge is started again. The contents
of files are left out.

### Functions

`Calls` has the one variable of the modules about functions without state: the
call made, its arguments and its result. A call is an action from a fresh caller,
and a property says of the call made what its result must be. The reference
definitions are arithmetic on numbers, the padded message, the group of points
found by counting, the text that was encoded. Sizes are parameters: the same
operators are the code's with its widths.

* **Limbs**: numbers in limbs, their sums and products modulo small primes
  (TLC's integers have 32 bits; values of several words are compared by their
  residues modulo coprime factors).
* **Field**: late reduction, magnitudes, the interleaved products of
  `field_10x26_impl.h` and, for the limbs F52, of `field_5x52_int128_impl.h`.
  **Scalar**: the folds of a product modulo the order, in eight limbs or (S64)
  in four.
  **Powers**: the chains of squarings with their real lengths, by the exponent
  they make; inversion of many at once.
* **Group**: a register that the point operations are applied to in any order,
  with the multiple of G it should be and the magnitudes of its coordinates.
  **Ecmult**: digit expansions, tables, Strauss, Pippenger,
  multiplication without branches, the blinded one, batch sizes.
  **Ecdsa**: the interface of the library and the classes above it, with a key
  pair whose halves are tweaked one after the other. **SigDer**: DER and
  compact signatures.
* **SmNumbers**, **Sm2**: limbs and Barrett reduction; points, signatures,
  encryption, key agreement, octets.
* **Hashes**: buffering and padding of SHA-256, SM3 and Keccak, HMAC and the
  nonces of RFC 6979, over symbolic compression functions.
* **BlockCiphers** (AES and SM4 rounds and key schedules), **CipherModes** (CBC,
  CTR, GCM, contexts fed piece by piece).
* **Encodings**, **Asn1**: text encodings and DER.
* **CryptoPack**: the two packs (secp256k1/Keccak/AES and SM2/SM3/SM4), on the
  host and in the enclave, with symbolic bytes; and what terminus and the
  enclaves make of them.

The `MC*` modules give the constants their values. MCBlockFile bounds the
callers of the block file, a library. MCFiles, MCCurve and MCAlgorithms put
parts that share nothing into one run, one part moving at a time; MCAlgorithms
also states the properties that take their parts from several modules.

A property such as `LinesSound` or `ArithmeticSound` is a conjunction of named
parts, each stated and commented on its own where its definitions are.

## Runs

| Run | Asks | Bounds |
|---|---|---|
| `channel` | Do sessions agree, do counters stay in step, are only verified peers let in, is RpcChannel implemented? | 3 analyzers, one of which the verifier refuses; 2 ids, so that ids wrap onto sessions in use; 2 handshakes; 2 messages per session; 1 loss of the key manager, any number of losses of analyzers; the trusted analyzers are symmetric |
| `key_service` | Is a key ever given to a measurement it was not released to, and is what was forwarded with success served? | 2 analyzers with different measurements, 2 key manager keys, 2 releases, 2 handshakes, 1 loss; symmetric in the key manager keys and in the analyzers with their measurements |
| `key_policy` | Did every active session's peer pass a policy of this enclave's life? | 2 analyzers of different signers; white, black and broken policies |
| `blockfile_end` | *violation*: next_item should fail after the last item | 5 items of 1 or 2 words, 2 items per block |
| `sealed_data` | Is a hash published only for a complete file, does the check pass exactly the sealed data? | 4 items of 4 sizes (batches of one to three items; one size too large), one damage, 1 or 2 providers on one file position |
| `dataflow` | Does every functor make exactly what it stands for, and does run() return? | 15 shapes of graph up to 10 functors; every input of up to 3 items over 3 keys |
| `parse_job` | Is a result that is written of this job, with its owners' consent; when is success empty? | 1698 jobs with up to 2 inputs and 3 allowances; each enclave is lost once, between any two calls |
| `files` | Are the lines those of the CSV file, what is read from a block file what was written, the key loaded the one asked for, a stream its file object's? Do calls return? | CSV blocks of 3 bytes and every file of up to 8 bytes of two kinds, plus carriage returns, byte order marks and lines too long; 1 reset and 1 count; a block file of 5 items over three blocks, 6 reads with 2 buffer sizes; 3 keys, two with one file name; stream numbers of 2 bits, 5 opens, 1 restart |
| `curve` | Does every sequence of point operations, every way to multiply, every key operation and signature give what the group says? | y² = x³ + 3 over 19 elements, order 13; all points in several representations; keys, tweaks and nonces below and above the order; expansions of scalars of 9 bits |
| `algorithms` | Do parsers, encoders, arithmetic, hashes, ciphers, SM2 and the packs do what their definitions say? | short texts; limbs of 4 to 8 bits at their edges; hash blocks of 8 bytes; SM2 of order 29 over 31 elements; cipher blocks of 2 bytes; messages with fields of 2 to 4 bytes |
| `illegal_argument` | *violation*: an illegal argument should not return | the curve of `curve`, two keys |
| `barrett` | *violation*: the Barrett quotient should be the quotient | words of 4 bits, numbers with limbs at their edges |

Why the bounds are enough to be interesting: every branch of every action is
taken; ids, stream numbers and counters wrap; blocks and batches both fill
exactly and stay open; a field of 19 elements has the cube roots of one, points
with x ≥ n and scalars at which an expansion turns over that a random test of
the real curve never meets; a limb of a few bits carries and borrows in most
pairs; and each property is violated by a small change of the code it is about
(`mutants`).

What the violation runs show.

* `next_item` never compares with `item_number`: after the last item it reads
  the first block info's zero index as an item of length 0 and returns `succ`,
  where the block file test expects a failure; `next_data_batch` tests for
  length 0, and that test is what ends the data (IntactIsVerified).
* The header of secp256k1 says that the default handler of an illegal argument
  aborts. The one here prints and returns, and callers that do not look at the
  result of `pubkey_load` (ecdh, combine) go on with a key of zeros and report
  success.
* The top word of `mu` in `sm2_fn_mul` takes 33 bits. A column of the product
  then exceeds 64 bits when an upper word of the number reduced is all ones, and
  the quotient is not the one the comment gives. `ArithmeticSound` is therefore
  stated for the products whose columns fit.

### Fairness

The channel, key manager and job properties are safety properties and need none:
a host may stop calling. `Dataflow` assumes weak fairness of the engine's step:
`run()` is one thread that nothing blocks. `SealedData` assumes it of the
provider's process() and of the end of parsing, which are the same thread of
the enclave; nothing is assumed of the data hub or of the storage. `CsvReader`
assumes it of the thread inside a call and of each reading thread that can move:
the operating system runs both. Nothing is assumed of the data hub making a call,
and a thread blocked in a condition variable is not helped by fairness.

Deadlock is checked except where a writer that died, a job that ended or a
function that returned really is the end (block file, sealed data, files and the
runs about functions).

## Proofs

The theorems hold for every value of the constants: any number of analyzers,
keys, jobs, items, batches, providers or functors, and any bounds, which are
arbitrary naturals. TLC evaluates the assumptions in every run. What they ask of
the constants: the marker `None` is none of the values it stands beside; sets
that one module hands to another agree (`KeyServiceAssumption`); sizes and
bounds are naturals; two blocks of the CSV reader hold a byte order mark
(`CsvAssumption`: the code's are of a mebibyte); a sealed text has a size in
uint32_t, as the code has no other type for it (`CryptoPackAssumption`); the bits
of a message are counted by two words, as the format of the padding has it, and
the arguments of a nonce have the lengths of the code (`HashAssumption`, which also
states what the prover cannot compute about powers of two); a job's
fields have their types; a graph has a functor, and a functor's inputs were made
before it (`GraphAssumption`).

No property of a component with state is inductive alone. Its proof module states
the strengthening as a conjunction of named parts, which TLC checked as an
invariant first, and proves it action by action. `CryptoPack` is about single
calls: there the work is in the lemmas about what the functions return.

| Module | Theorems | Inductive invariant, and what makes it inductive |
| --- | --- | --- |
| `KeyServiceProofs`, the channel | `ChannelTyped`, `AgreementHolds`, `CountersHold`, `AnswersHold`, `PeersVerifiedHolds`, `RpcImplemented` | `Coherent`: keys and handshakes are numbered below `eph`, and distinct; between `exchange_report` and the return of `create_session` the session is already the analyzer's (`HalfOpen`, the state in which only the responder knows of the session: Agreement needs it); a session that lost a response stays ahead for good (`Ahead`: AnswersInStep needs it) |
| `KeyServiceProofs`, the service | `KeyUseHolds`, `ForwardedServedHolds`, `SessionsCertifiedHolds`, `KeyServiceAgreement` | `KeyInv` over `Coherent`: an entry of the table was signed for its enclave (`TableSigned`), an acknowledged forward has its entry (`AckedStored`), and a response in flight carries a key released to its receiver (`RepliesReleased`, which needs the channel's Agreement: the session a request arrives on is the one of the analyzer that receives the response) |
| `SealedDataProofs`, the key files and the enclave's files | `KeysLoadHolds`, `ListIsCompleteHolds`, `StreamsSoundHolds` | `KeyStoreInv`: a file is where its public key says, a reported key has its file, and a tool that is writing has already spoilt the keys it writes over (`WritingSpoils`); `BridgeInv`: until the numbers wrap, the numbers in use are below the next one and distinct |
| `CsvReaderProofs` | `LinesSoundHolds` | `CsvInv`: no field says which bytes of the file a buffer holds, so the invariant names the offset of its first byte; from it and from the place the thread has reached in `next_line` (its phase) follow where the data ends (`InBuffer`) and how far the block ahead has come (`Ahead`). The reader stands at the beginning of a line and every line before it fits (`AtLine`), and a line that fits never ends with the second block: that is why the end of the data is the end of the file |
| `ParseJobProofs` | `ResultIsOfJobHolds`, `ConsentedUseHolds`, `SuccessSoundHolds` | `JobInv`: what the members of an enclave are, relative to the job, in whatever order it was lost and filled again (`SourcesNamed`, `ModelFed`, `ResultComputed`, `PackageMade`), what `parse()` can rely on at each call (`CallOrder`), and why a result is missing (`MissingLost`) |
| `SealedDataProofs`, the block file | `FileSoundHolds`, `OpenedIsCompleteHolds` | `BlockFileInv`: while it is written the file is the frames of the items and the block infos cut them into blocks (`WriterRight`, `BlocksRight`); once closed it is those words, the infos and the header (`Complete`); a torn file is refused or empty; a reader that has settled n calls, up to the number of items, stands behind the n-th frame (`ReaderRight`) |
| `SealedDataProofs`, the data in it | `SealingSoundHolds`, `VerifiedIsSealedHolds` | `SealedInv`: the hash is of the data read so far (`HubRead`), which is in the file's batches or still in the current one (`HubKept`); in the loop the item is the next one unless its read failed (`HubLoop`); a provider's hash is of what it gave away and of the rest of its batch (`ProvidersInv`), whatever the file holds |
| `CryptoPackProofs` | `ConsentExactHolds`, `MessagesSoundHolds` | none: what is signed has no lengths or separators, and it is the kinds of its first and last bytes that tell the purposes apart and the known sizes, counted from the end, that tell the fields apart (`DataOne`). The host's and the enclave's derivation buffers are the same bytes (`SidesAgree`), the shared keys agree exactly when the sealer had the opener's public key (`KeysAgree`), and the tag covers key, iv, purpose and text, so a message that opens is byte for byte one that was sealed (`WholeOpens`, `ChangedRefused`); the sizes wrap exactly for messages shorter than the overhead (`DataSize`) |
| `HashesProofs` | `HashesSoundHolds` | `HashInv`: a context that was fed n bytes has compressed the message block by block (`Blocks`) and its buffer begins with the rest (`Begins`), whatever else the buffer still holds (`Holds` for secp256k1, `Sm` for gmssl); a sponge holds the words up to the next permutation, one layer for each permutation made, and the saved bytes of one word (`Sponged`). Every write keeps that (`WriteHolds`, `UpdateHolds`, `UpdateSponged`), and from it the end of each digest is the padded message (`SecpDigest`, `SmDigest`, `SpongeDigest`). A nonce is unfolded to the seed inside it (`NonceShape`), which the hashes keep apart (`NonceOne`) |
| `DataflowProofs` | `QueueSoundHolds` | `FlowInv`: QueuedOnce with the shape of the functors; every `process()` leaves functors. Its lemmas say what `Ask` returns for any list of inputs |
| `ListLemmas` | lemmas only | induction over the naturals, stated with a set so that provers can apply it, and from it what `FlattenSeq` computes: it keeps types, and appending a batch appends its items |

The block file's theorems are about `BlockFileSpec`, in which the callers choose any items
of `Payload` and any buffer size; MCBlockFile takes the same step with bounded
ones. `Payload` leaves out one word, the magic number: OpenedIsComplete needs that,
because `read_header()` would take a file torn in the right place for a closed one
if the data held the magic number there. The theorems about the sealed data use
the block file's lemmas.

In `CryptoPack` and `Hashes` the primitives are symbolic: that a digest, a shared
key or a tag is that of one input is how a byte or a hash is written there, not
something proved. What is proved is what the code makes of them.

A proof attempt has corrected the model: arms of a CASE that overlapped, where
TLA+ promises no order and TLC takes the first, are now conditionals in the
order of the code (`CryptoPack`, `CsvColumns`) or disjuncts (`CsvReader`). The cells of a hash's
padding were numbers that long messages have too; they are negative now.

`RpcImplemented` is the refinement: initial states map to initial states, and
every step of the enclaves to a step of the abstract channel or to a stutter
(`ImplementsRpc` has no fairness).

Only model-checked, and why:

* RunEnds, IntactIsVerified and CallReturns: liveness under fairness is outside
  the prover's reach.
* EndedComplete and InOrder: they compare with `Meaning`, which is recursive over
  the graph and uses `SelectSeq`, an operator the prover cannot unfold.
* The other functions (numbers, curves, encodings, ciphers): their
  properties are about what recursive definitions compute on numbers and bytes.

## Observations

Facts met while modelling that a reader of the code should know.

Channel, key manager, jobs:

* The `session_id` of a response is the responder's member, which nothing
  assigns: it is 0 in every response although the comment in `dh_cdef.h` says it
  identifies the session. The initiator does not look at it.
* The nonce's wrap at 2^32 is not modelled (`NonceLimit` stands below it).
* An analyzer enclave lost after `end_parse_data_item` makes `parse()` succeed
  with an empty package (EmptyOnlyIfLost says that nothing else does);
  `main` ignores the result of `parse()` and writes an empty file with exit code
  0 for a job that failed, too.
* `begin_parse_data_item` checks for a data source and not for the model: an
  enclave without input that ignores model allowances and is lost after
  `init_model` computes with a default model (the exception in ResultIsOfJob).
* The host forwards the requester's key and the inputs' keys, never the model's:
  a model needs an owner who is one of them.
* A key is forwarded for every input, raw ones included, and raw data is looked
  up by its hash alone although it is kept under hash and key: a raw input has
  to come with a private key and without a public one. A job with a raw source
  and no inputs takes the first element of an empty vector.
* `create_key` ignores the result of generating the pair and reports it as
  created; a file name is the beginning of a public key, so two keys may share a
  file; `ocall_load_key_pair` throws across the ocall for a file that is not
  JSON, and copies as many bytes as the file says.

Data:

* `groupby` writes the key of the next group into the row it is about to return
  (the last row has its own); `GroupSums` states this. An aggregate of minima
  starts at 0.
* A record that does not convert ends the stream in `to_type` without an error.
* An intersection or difference stops with its shortest stream, so whether the
  data hash then matches depends on whether the other stream's last batch had
  been fetched.
* The same data given twice as input shares one file position; such a job is
  refused at the hash check.
* `get_item_number` is called after the first item was read; the plugin of the
  iris example rewinds there.
* `reset_for_read` of the CSV plugin replaces the stream before the reader whose
  thread reads from it. The message about a line that is too long gives 2^24-1;
  the limit is 2^20-1. `parse_float` negates an exponent that may be the smallest
  integer.
* The file bridge keeps an entry for a file that could not be opened; a file
  object opened again leaves its old stream open; after the numbers wrap, or the
  bridge starts again, two objects may have one stream. The open mode is built
  from an uninitialised value, and `trunc` is dropped.

Cryptography:

* An element of exactly the maximal magnitude may wrap in `fe_normalize`;
  `FieldNormalForm` is stated below it. `scratch_alloc` is used unchecked in
  places; a secret key wiped by a failed tweak becomes valid again by the next.
  A `va_list` is used uninitialised where secp256k1 prints.
* `aes_impl.h` subtracts the sizes of the parts of a message from its size
  before it looks whether the message is as long as they are. `cterminus` reports
  a failure for a text that is empty.
* `gcm_decrypt` of `gcm.c` always returns -1; AES in `block_cipher.c` decrypts with
  the function that encrypts; `gf128.c` does not reflect the bits as GCM does;
  `ctr_incr` never touches byte 0; a piece given to the CBC decryption while a
  whole block is held loses that block.
* SM2: e + x is reduced once; s = 0 is not retried; n - 1 may be drawn as a key;
  `get_xy` without y does nothing when Z is 1; the test of a point on the curve
  is negated in a way that is never true, so x ≥ p is accepted; numbers read from
  DER are compared as bytes in memory; `compute_z` takes the default name whatever
  length is given; a multiple of P that is infinite is added as (0, 0). An object
  identifier of more than 32 nodes is counted to its end.

## Not modelled

* Branches that are not built: assembler, endomorphism and GMP of secp256k1.
  Generated tables (`ecmult_static_context.h`) and the substitution boxes' real
  values. The compression functions of the hashes: symbolic.
* k-means and regression (floating point), the https extractors (network),
  aggregators other than the sum, the MySQL plugin (a cursor of its client
  library), the xgboost headers and examples.
* Marshalling of packages (ff::net), JSON, options and printing of the command
  line tools, the JavaScript binding.
* The block file variant with the header in front, which has no user; the
  key-value bridge, which no enclave uses; backup and restore of key files
  (copies); DCAP quotes; results written to a file by the user's parser
  (`offchain_file_result`) and the enclave's internal key; contents and open
  modes behind the file bridge.

## Plan

Done: the modules and the theorems above. Next, in this order:

1. Theorems: the carries of the limb arithmetic.
2. The internal key and results in files, if the enclaves come to use them.
