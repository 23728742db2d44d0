----------------------------- MODULE BlockFile -----------------------------
(***************************************************************************)
(* blockfile_impl_r: items one after the other, then the block infos, then *)
(* the header.  The file is a sequence of 8-byte words; an item is a       *)
(* sequence of payload words behind a word that holds its length (counted  *)
(* in words).  Payload words and the magic number are negative, so that    *)
(* they are told apart from the numbers the file itself keeps.             *)
(*                                                                         *)
(* One object writes the file, once, and another one reads it, as the      *)
(* sealing and the analyzing process do.                                   *)
(***************************************************************************)
EXTENDS Integers, SequencesExt, FiniteSets

CONSTANTS
  PerBlock,    \* ItemNumPerBlockLimit
  BufSize      \* in_size of a reader that asks with a large buffer

ASSUME BlockFileAssumption == PerBlock \in Nat \ {0} /\ BufSize \in Nat

VARIABLES
  disk,     \* the words of the file
  mode,     \* "none", "out" (being written), "closed", "torn" (the writer
            \* died) or "in" (being read)
  header,   \* m_header of the writer: item_number and block_number
  infos,    \* m_block_infos of the writer
  pos,      \* the reader's position: words read
  eof,      \* the reader's eofbit
  log,      \* history: the items appended
  got       \* history: what next_item returned, per call

fvars == <<disk, mode, header, infos, pos, eof, log, got>>

Magic == -1000
Payload == {w \in Int : w < 0 /\ w # Magic}
HeaderWords == 8        \* four numbers and 32 bytes of data_hash

BlockInfo(si, ei, sp, ep) ==
  [start_item |-> si, end_item |-> ei, start_pos |-> sp, end_pos |-> ep]
InfoWords(b) == <<b.start_item, b.end_item, b.start_pos, b.end_pos>>
HeaderOf(h) ==
  <<Magic, 2, h.block_number, h.item_number, 0, 0, 0, 0>>

\* The items as they lie in the file, each behind its length, and the block
\* infos behind them.
Frames(l) == FlattenSeq([k \in DOMAIN l |-> <<Len(l[k])>> \o l[k]])
Index(bs) == FlattenSeq([k \in DOMAIN bs |-> InfoWords(bs[k])])

FileInit ==
  /\ disk = <<>>
  /\ mode = "none"
  /\ header = [item_number |-> 0, block_number |-> 0]
  /\ infos = <<>>
  /\ pos = 0
  /\ eof = FALSE
  /\ log = <<>>
  /\ got = <<>>

-----------------------------------------------------------------------------
(* Writing.                                                                *)

OpenForWrite ==
  /\ mode = "none"
  /\ disk' = <<>>
  /\ mode' = "out"
  /\ UNCHANGED <<header, infos, pos, eof, log, got>>

\* The block infos after an item of n words, in a new block or in the last.
AddToInfos(bs, n) ==
  IF bs = <<>> THEN <<BlockInfo(0, 1, 0, n + 1)>>
  ELSE LET b == Last(bs)
       IN IF b.end_item - b.start_item >= PerBlock
          THEN Append(bs, BlockInfo(b.end_item, b.end_item + 1,
                                    b.end_pos, b.end_pos + n + 1))
          ELSE Append(Front(bs), [b EXCEPT !.end_item = @ + 1,
                                           !.end_pos = @ + n + 1])

\* write() of words w at position p: it overwrites, and grows the file.
WriteAt(d, p, w) ==
  [k \in 1 .. (IF p + Len(w) > Len(d) THEN p + Len(w) ELSE Len(d)) |->
     IF k > p /\ k <= p + Len(w) THEN w[k - p] ELSE d[k]]

AppendItem(item) ==
  /\ mode = "out"
  /\ infos' = AddToInfos(infos, Len(item))
  /\ header' = [item_number |-> header.item_number + 1,
                block_number |-> Len(infos')]
  /\ disk' = WriteAt(disk, Last(infos').end_pos - 1 - Len(item),
                     <<Len(item)>> \o item)
  /\ log' = Append(log, item)
  /\ UNCHANGED <<mode, pos, eof, got>>

\* What close() leaves: the block infos and the header after the last item.
ClosedDisk ==
  WriteAt(disk, Last(infos).end_pos, Index(infos) \o HeaderOf(header))

\* close() takes back() of the block infos: with none it does not survive.
CloseFile ==
  /\ mode = "out"
  /\ infos # <<>>
  /\ disk' = ClosedDisk
  /\ mode' = "closed"
  /\ infos' = <<>>
  /\ UNCHANGED <<header, pos, eof, log, got>>

\* The writer dies, between two items or inside close(): what the stream had
\* not flushed is not in the file.
WriterDies ==
  /\ mode = "out"
  /\ LET w == IF infos = <<>> THEN disk ELSE ClosedDisk
     IN \E k \in 0 .. Len(w) - 1 : disk' = SubSeq(w, 1, k)
  /\ mode' = "torn"
  /\ UNCHANGED <<header, infos, pos, eof, log, got>>

-----------------------------------------------------------------------------
(* Reading.                                                                *)

\* read_header(): an empty file is accepted, any other needs the magic
\* number where the header should be.
HeaderAnyMagic(d) == TRUE
HeaderAccepted(d) ==
  \/ d = <<>>
  \/ Len(d) >= HeaderWords /\ d[Len(d) - HeaderWords + 1] = Magic

\* The constructor of sealed_file_base: open_for_read and reset_read_item.
OpenForRead ==
  /\ mode \in {"closed", "torn"}
  /\ HeaderAccepted(disk)
  /\ mode' = "in"
  /\ pos' = 0
  /\ eof' = FALSE
  /\ UNCHANGED <<disk, header, infos, log, got>>

\* A word taken as a length; a negative one is a huge unsigned number.
TooLarge(w, size) == w < 0 \/ w > size

Read(st, data) == [st |-> st, data |-> data]
NoData == <<>>

\* next_item(buf, size): the result, and the reader's position and eofbit
\* after it.  read(buf, len) at the end of the file sets eofbit and is not
\* checked.
NextItemLosesPlace(size) ==
  LET w == disk[pos + 1]
      end == Min({pos + 1 + w, Len(disk)})
  IN CASE eof \/ pos >= Len(disk) ->
            [res |-> Read("eof", NoData), pos |-> pos, eof |-> TRUE]
       [] ~eof /\ pos < Len(disk) /\ TooLarge(w, size) ->
            [res |-> Read("small_buf", NoData), pos |-> pos + 1, eof |-> FALSE]
       [] OTHER ->
            [res |-> Read("succ", SubSeq(disk, pos + 2, end)), pos |-> end,
             eof |-> pos + 1 + w > Len(disk)]
NextItem(size) ==
  LET w == disk[pos + 1]
      end == Min({pos + 1 + w, Len(disk)})
  IN CASE eof \/ pos >= Len(disk) ->
            [res |-> Read("eof", NoData), pos |-> pos, eof |-> TRUE]
       [] ~eof /\ pos < Len(disk) /\ TooLarge(w, size) ->
            [res |-> Read("small_buf", NoData), pos |-> pos, eof |-> FALSE]
       [] OTHER ->
            [res |-> Read("succ", SubSeq(disk, pos + 2, end)), pos |-> end,
             eof |-> pos + 1 + w > Len(disk)]

CallNextItem(size) ==
  /\ mode = "in"
  /\ LET r == NextItem(size)
     IN /\ got' = Append(got, r.res)
        /\ pos' = r.pos
        /\ eof' = r.eof
  /\ UNCHANGED <<disk, mode, header, infos, log>>

\* reset_read_item() once the header and the block infos are known.
ResetReadItem ==
  /\ mode = "in"
  /\ pos' = 0
  /\ eof' = FALSE
  /\ got' = <<>>
  /\ UNCHANGED <<disk, mode, header, infos, log>>

\* The file with the items and buffer sizes that its callers may choose.
FileStep(items, sizes) ==
  \/ OpenForWrite
  \/ \E i \in items : AppendItem(i)
  \/ CloseFile
  \/ WriterDies
  \/ OpenForRead
  \/ ResetReadItem
  \/ \E s \in sizes : CallNextItem(s)

\* Callers of every kind: any items of payload, any buffers.
BlockFileSpec == FileInit /\ [][FileStep(Seq(Payload), Nat)]_fvars

-----------------------------------------------------------------------------
(* Properties.                                                             *)

\* The type invariant.
FileTypeOK ==
  /\ mode \in {"none", "out", "closed", "torn", "in"}
  /\ \A k \in DOMAIN disk : disk[k] \in Int
  /\ header.item_number \in Nat /\ header.block_number \in Nat
  /\ pos \in 0 .. Len(disk)
  /\ eof \in BOOLEAN
  /\ \A k \in DOMAIN got : got[k].st \in {"succ", "small_buf", "eof"}

\* Calls of next_item up to the j-th that did not ask for a larger buffer, and
\* where the item after the first i begins.
SettledBy(j) == Cardinality({i \in 1 .. j : got[i].st # "small_buf"})
ItemPos(i) == Len(Frames(SubSeq(log, 1, i)))

\* ReadsBack: the n-th item read is the n-th item appended, whatever
\* buffer sizes next_item was called with on the way.
ReadsBack ==
  mode = "in" /\ disk # <<>> =>
    \A j \in DOMAIN got :
      got[j].st # "small_buf" /\ SettledBy(j) <= Len(log) =>
        got[j] = Read("succ", log[SettledBy(j)])

\* OpenedIsComplete: a file that opens has been closed by its writer, or
\* holds nothing: a writer that died leaves nothing that passes for data.
OpenedIsComplete ==
  mode = "in" /\ disk # <<>> =>
    Len(disk) = Len(Frames(log)) + 4 * header.block_number + HeaderWords

\* The block infos and the header that a reader finds in a closed file.
StoredHeader ==
  LET h == Len(disk) - HeaderWords
  IN [block_number |-> disk[h + 3], item_number |-> disk[h + 4]]
StoredInfo(k) ==
  LET b == Len(disk) - HeaderWords - 4 * (StoredHeader.block_number - k + 1)
  IN BlockInfo(disk[b + 1], disk[b + 2], disk[b + 3], disk[b + 4])

\* IndexRight: in a closed file the header counts the items, and the block
\* infos cut them, in order and without a gap, into blocks that are full
\* except for the last and begin where their first item is stored.
IndexRight ==
  mode = "closed" =>
    LET n == StoredHeader.block_number
        B == [k \in 1 .. n |-> StoredInfo(k)]
    IN /\ StoredHeader.item_number = Len(log)
       /\ B[1].start_item = 0
       /\ B[n].end_item = Len(log)
       /\ \A k \in 1 .. n :
            /\ B[k].start_pos = ItemPos(B[k].start_item)
            /\ B[k].end_pos = ItemPos(B[k].end_item)
            /\ k < n => /\ B[k].end_item = B[k + 1].start_item
                        /\ B[k].end_item - B[k].start_item = PerBlock

\* EndIsReported: next_item does not succeed after the last item.
EndIsReported ==
  \A j \in DOMAIN got : SettledBy(j) > Len(log) => got[j].st # "succ"

\* next_item returns what was appended, in order, and the block infos point where the
\* blocks are (the parts above).
FileSound ==
  FileTypeOK /\ ReadsBack /\ IndexRight
=============================================================================
