----------------------------- MODULE FileBridge -----------------------------
(***************************************************************************)
(* The files of an enclave: a cxxfile in the enclave holds the number of a *)
(* stream, the host keeps the streams in g_cxx_files.  Numbers are handed  *)
(* out by a counter of fixed width; the host may start the bridge again    *)
(* while files of the enclave are open.                                    *)
(***************************************************************************)
EXTENDS Naturals, FiniteSets

CONSTANTS
  BrHandles,  \* the cxxfile objects of the enclave
  BrFiles,    \* the files that exist
  IdBits,     \* width of a stream number (32 in the code)
  MaxOpens,   \* bound: calls of open
  MaxStarts,  \* bound: calls of init after the first
  MaxPos      \* bound: the position in a file

ASSUME FileBridgeAssumption ==
  /\ IdBits \in Nat \ {0} /\ 2^IdBits \in Nat \ {0, 1}   \* the second follows from the first
  /\ MaxOpens \in Nat /\ MaxStarts \in Nat /\ MaxPos \in Nat

Ids == 0..(2^IdBits - 1)

VARIABLES
  nextId,    \* g_cxxfile_stream_id
  streams,   \* g_cxx_files
  handle,    \* m_stream_id of each cxxfile; where its own calls have left it
  epoch,     \* opens since the last init and in all; whether no cxxfile was open at init
  orphans    \* streams whose cxxfile was opened again without a close

bvars == <<nextId, streams, handle, epoch, orphans>>

NoStream == [st |-> "absent", file |-> "none", pos |-> 0]
Unopened == [st |-> "closed", file |-> "none", pos |-> 0]
Stream(f, p) == [st |-> "open", file |-> f, pos |-> p]
Closed == [id |-> 0, file |-> "none", pos |-> 0]

FileBridgeInit ==
  /\ nextId = 1
  /\ streams = [i \in Ids |-> NoStream]
  /\ handle = [h \in BrHandles |-> Closed]
  /\ epoch = [opens |-> 0, started |-> 0, all |-> 0, clean |-> TRUE]
  /\ orphans = {}

-----------------------------------------------------------------------------
\* init_sgx_cxxfile numbers streams from one again; shutdown_sgx_cxxfile does not.
init_sgx_cxxfile ==
  /\ epoch.started < MaxStarts
  /\ nextId' = 1
  /\ streams' = [i \in Ids |-> NoStream]
  /\ epoch' = [epoch EXCEPT !.opens = 0, !.started = @ + 1, !.clean = \A h \in BrHandles : handle[h].id = 0]
  /\ orphans' = {}
  /\ UNCHANGED handle
shutdown_sgx_cxxfile ==
  /\ \E i \in Ids : streams[i].st # "absent"
  /\ streams' = [i \in Ids |-> NoStream]
  /\ orphans' = {}
  /\ UNCHANGED <<nextId, handle, epoch>>

\* insert keeps a stream that has the number already, and open of an open stream leaves
\* it as it is, which is_open then takes for success.
KeepOld(old, new) == IF old.st = "open" THEN old ELSE new
fopen_ocall(f, works) ==
  [streams EXCEPT ![nextId] = KeepOld(@, IF works THEN Stream(f, 0) ELSE Unopened)]
ShortNumber == (nextId + 1) % 2^(IdBits - 1)
AfterOpen == (nextId + 1) % 2^IdBits

\* open throws when the number is zero: the file could not be opened (the mode starts
\* from an uninitialised value), or its number is zero.  The cxxfile keeps what it had.
open(h, f) ==
  /\ epoch.all < MaxOpens
  /\ \E works \in BOOLEAN :
       /\ streams' = fopen_ocall(f, works)
       /\ IF streams'[nextId].st = "open" /\ nextId # 0
          THEN /\ handle' = [handle EXCEPT ![h] =
                               [id |-> nextId, file |-> f, pos |-> 0]]
               /\ orphans' = IF handle[h].id = 0 THEN orphans ELSE orphans \cup {handle[h].id}
          ELSE /\ UNCHANGED handle
               /\ orphans' = IF streams'[nextId].st = "open" THEN orphans \cup {0} ELSE orphans
  /\ nextId' = AfterOpen
  /\ epoch' = [epoch EXCEPT !.opens = @ + 1, !.all = @ + 1]

fclose_ocall(i) == [streams EXCEPT ![i] = NoStream]
close(h) ==
  /\ handle[h].id # 0
  /\ streams' = fclose_ocall(handle[h].id)
  /\ orphans' = orphans \ {handle[h].id}
  /\ handle' = [handle EXCEPT ![h] = Closed]
  /\ UNCHANGED <<nextId, epoch>>

\* read and write move the stream with this number; without one the call does nothing
\* and the cxxfile is not told.
Moved(i, p) == [streams EXCEPT ![i] = IF @.st = "open" THEN [@ EXCEPT !.pos = p] ELSE @]
read(h) ==
  LET i == handle[h].id
  IN  /\ i # 0 /\ streams[i].pos < MaxPos /\ handle[h].pos < MaxPos
      /\ streams' = Moved(i, streams[i].pos + 1)
      /\ handle' = [handle EXCEPT ![h].pos = IF streams[i].st = "open" THEN @ + 1 ELSE @]
      /\ UNCHANGED <<nextId, epoch, orphans>>
seekg(h, p) ==
  LET i == handle[h].id
  IN  /\ i # 0
      /\ streams' = Moved(i, p)
      /\ handle' = [handle EXCEPT ![h].pos = IF streams[i].st = "open" THEN p ELSE @]
      /\ UNCHANGED <<nextId, epoch, orphans>>
HasStream(h) == handle[h].id # 0 /\ streams[handle[h].id].st = "open"

FileBridgeNext ==
  \/ init_sgx_cxxfile \/ shutdown_sgx_cxxfile
  \/ \E h \in BrHandles : close(h) \/ read(h) \/ (\E f \in BrFiles : open(h, f)) \/ seekg(h, 0)

FileBridgeSpec == FileBridgeInit /\ [][FileBridgeNext]_bvars

-----------------------------------------------------------------------------
(* Properties.                                                             *)

\* cxxfile and g_cxx_files: until the numbers run out, and unless the bridge was started
\* again under an open cxxfile, a cxxfile that finds a stream finds the file it opened,
\* where its own calls left it, whatever the others do, and though opens fail and the
\* host may have shut the bridge down.
OwnStream ==
  epoch.clean /\ epoch.opens <= 2^IdBits =>
    \A h \in BrHandles :
      HasStream(h) => streams[handle[h].id] = Stream(handle[h].file, handle[h].pos)

\* fclose_ocall: an open stream of the host belongs to a cxxfile, or to one that was
\* opened again without a close.  Nothing else keeps a file open.
StreamsHeld ==
  \A i \in Ids : streams[i].st = "open" => i \in orphans \/ \E h \in BrHandles : i # 0 /\ handle[h].id = i

\* g_cxx_files: each cxxfile has its own stream, and each stream its cxxfile (the two
\* parts above).
StreamsSound ==
  OwnStream /\ StreamsHeld
=============================================================================
