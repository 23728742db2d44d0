----------------------------- MODULE CsvReader -----------------------------
(***************************************************************************)
(* The line reader of the csv plugin.  The data hub's thread asks for the  *)
(* lines of a file one by one; a LineReader keeps three blocks of the      *)
(* file: two that hold the line being cut out and a third that a worker    *)
(* thread fills ahead (AsynchronousReader).  The two threads meet in one   *)
(* mutex and two condition variables.  reset_for_read replaces the stream  *)
(* and the reader while the worker of the old reader is still running;     *)
(* get_item_number counts the lines with a reader of its own.              *)
(*                                                                         *)
(* A section under the mutex is one step.  A thread that waits on a        *)
(* condition variable is "blocked" until it is notified: a notification    *)
(* that is not sent is not made up for.                                    *)
(***************************************************************************)
EXTENDS Integers, Sequences, SequencesExt, FiniteSets

CONSTANTS
  BlockLen,    \* block_len
  Files,       \* contents of the data file: sequences of bytes, which are strings here
  Disturbed,   \* bound: the files on which reset and count are exercised
  MaxReset,    \* bound: calls of reset_for_read
  MaxCount,    \* bound: calls of get_item_number
  MaxAgain     \* bound: lines asked for beyond the bytes of the file

ASSUME CsvAssumption ==
  /\ BlockLen \in Nat \ {0, 1}    \* two blocks hold a byte order mark
  /\ Files \subseteq Seq(STRING)
  /\ Disturbed \subseteq Files
  /\ MaxReset \in Nat /\ MaxCount \in Nat /\ MaxAgain \in Nat

VARIABLES
  file,      \* the bytes of the data file
  rd,        \* the readers: m_reader, the one it replaces, the counting one
  thread,    \* where the data hub's thread is: pc, the reader it is in, its call
  out,       \* history: lines returned since the file was last opened
  result,    \* how the last call of read_item_data or reset_for_read ended
  number,    \* what get_item_number returned
  budget     \* calls of reset_for_read and get_item_number made so far

cvars == <<file, rd, thread, out, result, number, budget>>

Role == {"main", "old", "count"}
NL == "nl"
CR == "cr"
Unset == "unset"                  \* a byte of the buffer never written
Bom == <<"ef", "bb", "bf">>
Absent == [worker |-> "none"]     \* no such reader
NoNumber == -1
Smaller(a, b) == IF a < b THEN a ELSE b

-----------------------------------------------------------------------------
(* Byte sources and the line reader's construction.                        *)

\* ByteSource::read: the bytes wanted, fewer only at the end of the source.
ReadCount(pos, want) == Smaller(want, Len(file) - pos)

\* What a read of n bytes at pos leaves in the buffer from index "at" on.
Filled(buffer, at, pos, n) ==
  [i \in DOMAIN buffer |->
     IF i \in at..(at + n - 1) THEN file[pos + i - at + 1] ELSE buffer[i]]

\* LineReader::init: two blocks are read, a byte order mark is skipped, and
\* only a file that fills both blocks gets a worker thread.
NewReader ==
  LET n == ReadCount(0, 2 * BlockLen)
      blank == [i \in 0..(3 * BlockLen - 1) |-> Unset]
      full == n = 2 * BlockLen
  IN  [buffer |-> Filled(blank, 0, 0, n),
       data_begin |-> IF n >= 3 /\ SubSeq(file, 1, 3) = Bom THEN 3 ELSE 0,
       data_end |-> n,
       file_line |-> 0,
       desired |-> -1,
       got |-> -1,
       term |-> FALSE,
       worker |-> IF full THEN "check" ELSE "none",
       pos |-> n,
       stream |-> "open"]

Valid(r) == r.worker # "none"

At(pc) == thread' = [thread EXCEPT !.pc = pc]
Idle == [pc |-> "idle", who |-> "main", call |-> "none"]

\* typed_csv_reader's constructor, on a file that can be opened.
CsvInit ==
  /\ file \in Files
  /\ rd = [r \in Role |-> IF r = "main" THEN NewReader ELSE Absent]
  /\ thread = [pc |-> IF Valid(NewReader) THEN "init" ELSE "idle",
               who |-> "main", call |-> "open"]
  /\ out = <<>>
  /\ result = "none"
  /\ number = NoNumber
  /\ budget = [reset |-> 0, count |-> 0]

-----------------------------------------------------------------------------
(* AsynchronousReader.                                                     *)

Woken(state) == IF state = "blocked" THEN "check" ELSE state

\* A worker that ends without telling: the second notify_one left out.
NotifiedBeforeEnd(r, n) ==
  IF n # 0 /\ thread.pc = "blocked" /\ thread.who = r
    THEN [thread EXCEPT !.pc = "finish"]
    ELSE thread

\* notify_one of read_finished_condition by the worker of reader r, after a
\* read of n bytes: in the loop, or behind it when n is 0.
FinishNotified(r, n) ==
  IF thread.pc = "blocked" /\ thread.who = r
    THEN [thread EXCEPT !.pc = "finish"]
    ELSE thread

\* The third block with the n bytes the worker has read.
Fetching(me, n) ==
  [me EXCEPT !.buffer = Filled(@, 2 * BlockLen, me.pos, n),
             !.pos = @ + n,
             !.got = n,
             !.desired = -1,
             !.worker = IF n = 0 THEN "ended" ELSE "check"]

\* The worker evaluates its wait predicate under the mutex: it waits, it
\* returns because the reader is being destroyed, or it reads.  A read of 0
\* bytes ends the thread.  A stream that was destroyed under the reader is
\* no stream to read from: nothing is known of the program after that.
WorkerStep(r) ==
  LET me == rd[r]
      n == ReadCount(me.pos, me.desired)
  IN  /\ me.worker = "check"
      /\ \/ /\ me.desired = -1 /\ ~me.term
            /\ rd' = [rd EXCEPT ![r].worker = "blocked"]
            /\ UNCHANGED thread
         \/ /\ me.term
            /\ rd' = [rd EXCEPT ![r].worker = "ended"]
            /\ UNCHANGED thread
         \/ /\ me.desired # -1 /\ ~me.term /\ me.stream = "open"
            /\ rd' = [rd EXCEPT ![r] = Fetching(me, n)]
            /\ thread' = FinishNotified(r, n)
         \/ /\ me.desired # -1 /\ ~me.term /\ me.stream = "destroyed"
            /\ At("undefined")
            /\ UNCHANGED rd
      /\ UNCHANGED <<file, out, result, number, budget>>

\* start_read, from the constructor or from next_line.
StartRead ==
  /\ thread.pc \in {"init", "start"}
  /\ rd' = [rd EXCEPT ![thread.who].desired = BlockLen,
                      ![thread.who].got = -1,
                      ![thread.who].worker = Woken(@)]
  /\ \/ thread.pc = "start" /\ At("scan")
     \/ thread.pc = "init" /\ thread.call = "open" /\ thread' = Idle
     \/ /\ thread.pc = "init" /\ thread.call = "reset"
        /\ thread' = [thread EXCEPT !.pc = "destroy", !.who = "old"]
     \/ thread.pc = "init" /\ thread.call = "count" /\ At("next")
  /\ UNCHANGED <<file, out, result, number, budget>>

\* The block after next requested before the last one is copied.
TakeOverLate(me) == [me EXCEPT !.data_end = @ + me.got, !.desired = BlockLen]

\* next_line takes over the block that was read ahead.
TakeOver(me) ==
  [me EXCEPT !.data_end = @ + me.got,
             !.buffer = [i \in DOMAIN @ |->
                           IF i \in BlockLen..(2 * BlockLen - 1)
                             THEN @[i + BlockLen] ELSE @[i]]]

\* finish_read in next_line: wait for the block, take it over.
FinishRead ==
  LET me == rd[thread.who] IN
  /\ thread.pc = "finish"
  /\ IF me.got # -1
       THEN /\ rd' = [rd EXCEPT ![thread.who] = TakeOver(me)]
            /\ At("start")
       ELSE At("blocked") /\ UNCHANGED rd
  /\ UNCHANGED <<file, out, result, number, budget>>

Terminated(me) == [me EXCEPT !.term = TRUE, !.worker = Woken(@)]

\* ~AsynchronousReader: ask the worker to end, wake it, join it.
Destroy ==
  /\ thread.pc = "destroy"
  /\ rd' = [rd EXCEPT ![thread.who] = IF Valid(@) THEN Terminated(@) ELSE @]
  /\ At("join")
  /\ UNCHANGED <<file, out, result, number, budget>>

Join ==
  /\ thread.pc = "join"
  /\ rd[thread.who].worker \in {"none", "ended"}
  /\ rd' = [rd EXCEPT ![thread.who] = Absent]
  /\ thread' = IF thread.call = "close" THEN [thread EXCEPT !.pc = "closed"] ELSE Idle
  /\ UNCHANGED <<file, out, result, number, budget>>

-----------------------------------------------------------------------------
(* LineReader::next_line.                                                  *)

\* A call that ended without a line: read_row is over, the count is known
\* and the counting reader is destroyed.
NoLine(why) ==
  \/ /\ thread.call = "read"
     /\ result' = why
     /\ thread' = Idle
     /\ UNCHANGED number
  \/ /\ thread.call = "count"
     /\ number' = IF why = "end" THEN rd["count"].file_line ELSE NoNumber
     /\ At("destroy")
     /\ UNCHANGED result

\* The second block becomes the first.
Shifted(me) ==
  [me EXCEPT !.buffer = [i \in DOMAIN @ |->
                           IF i < BlockLen THEN @[i + BlockLen] ELSE @[i]],
             !.data_begin = @ - BlockLen,
             !.data_end = @ - BlockLen]

OneMore(me) == [me EXCEPT !.file_line = @ + 1]

\* The head of next_line: the end of the data, or, once the first block is
\* used up, the blocks move and the one read ahead is waited for.
NextLine ==
  LET me == rd[thread.who] IN
  /\ thread.pc = "next"
  /\ IF me.data_begin = me.data_end
       THEN NoLine("end") /\ UNCHANGED rd
       ELSE /\ rd' = [rd EXCEPT ![thread.who] =
                        OneMore(IF me.data_begin < BlockLen THEN me ELSE Shifted(me))]
            /\ At(IF me.data_begin >= BlockLen /\ Valid(me) THEN "finish" ELSE "scan")
            /\ UNCHANGED <<result, number>>
  /\ UNCHANGED <<file, out, budget>>

\* The bytes of the buffer in [from, to).
Bytes(buffer, from, to) == [i \in 1..(to - from) |-> buffer[from + i - 1]]
WithoutCR(s) == IF s # <<>> /\ Last(s) = CR THEN Front(s) ELSE s

LineEnd(me) ==
  CHOOSE e \in me.data_begin..me.data_end :
    /\ e = me.data_end \/ me.buffer[e] = NL
    /\ \A i \in me.data_begin..(e - 1) : me.buffer[i] # NL

\* A line must fit in a block together with its newline.
TooLong(me) == LineEnd(me) - me.data_begin + 1 > BlockLen

\* data_end moves past a newline that is missing at the end of the data.
PastLine(me, e) ==
  [me EXCEPT !.data_begin = e + 1, !.data_end = IF e = @ THEN @ + 1 ELSE @]

\* The tail of next_line: the line ends at the next newline or at the end of
\* the data.
Scan ==
  LET me == rd[thread.who]
      e == LineEnd(me)
  IN  /\ thread.pc = "scan"
      /\ IF TooLong(me)
           THEN NoLine("line_length_limit_exceeded") /\ UNCHANGED <<rd, out>>
           ELSE /\ rd' = [rd EXCEPT ![thread.who] = PastLine(me, e)]
                /\ IF thread.call = "read"
                     THEN /\ out' = Append(out, WithoutCR(Bytes(me.buffer, me.data_begin, e)))
                          /\ result' = "line"
                          /\ thread' = Idle
                     ELSE /\ At("next")
                          /\ UNCHANGED <<out, result>>
                /\ UNCHANGED number
      /\ UNCHANGED <<file, budget>>

-----------------------------------------------------------------------------
(* typed_csv_reader.                                                       *)

\* read_row asks for the next line.  Bound: a reader that is stuck at a line
\* too long counts on at every call.
MaxLine == Len(file) + MaxAgain
ReadItem ==
  /\ thread.pc = "idle"
  /\ rd["main"].file_line < MaxLine
  /\ thread' = [pc |-> "next", who |-> "main", call |-> "read"]
  /\ UNCHANGED <<file, rd, out, result, number, budget>>

\* reset_for_read destroys the stream first.  When the file cannot be opened
\* again the old reader stays, on the stream that is gone.
ResetStream ==
  /\ thread.pc = "idle"
  /\ file \in Disturbed /\ budget.reset < MaxReset
  /\ budget' = [budget EXCEPT !.reset = @ + 1]
  /\ rd' = [rd EXCEPT !["main"].stream = "destroyed"]
  /\ \/ thread' = [pc |-> "reopen", who |-> "main", call |-> "reset"] /\ UNCHANGED result
     \/ thread' = Idle /\ result' = "reset_failed"
  /\ UNCHANGED <<file, out, number>>

\* The new reader is constructed before the old one is destroyed.
Reopen ==
  /\ thread.pc = "reopen"
  /\ rd' = [rd EXCEPT !["old"] = rd["main"], !["main"] = NewReader]
  /\ thread' = IF Valid(NewReader)
                 THEN [thread EXCEPT !.pc = "init"]
                 ELSE [thread EXCEPT !.pc = "destroy", !.who = "old"]
  /\ out' = <<>>
  /\ result' = "reset"
  /\ UNCHANGED <<file, number, budget>>

CountingReader == NewReader

\* get_item_number opens the file again and reads it to its end.
CountItems ==
  /\ thread.pc = "idle"
  /\ file \in Disturbed /\ budget.count < MaxCount
  /\ budget' = [budget EXCEPT !.count = @ + 1]
  /\ rd' = [rd EXCEPT !["count"] = CountingReader]
  /\ thread' = [pc |-> IF Valid(CountingReader) THEN "init" ELSE "next",
                who |-> "count", call |-> "count"]
  /\ UNCHANGED <<file, out, result, number>>

\* close_item_reader: the reader goes before the stream.
Close ==
  /\ thread.pc = "idle"
  /\ thread' = [pc |-> "destroy", who |-> "main", call |-> "close"]
  /\ UNCHANGED <<file, rd, out, result, number, budget>>

CsvNext ==
  \/ \E r \in Role : WorkerStep(r)
  \/ StartRead \/ FinishRead \/ Destroy \/ Join
  \/ NextLine \/ Scan
  \/ ReadItem \/ ResetStream \/ Reopen \/ CountItems \/ Close

\* The calls of a plugin are driven to their end, the worker threads run, and
\* the data hub closes its reader.
InCall == StartRead \/ FinishRead \/ Destroy \/ Join \/ NextLine \/ Scan \/ Reopen

CsvFairness == WF_cvars(InCall) /\ \A r \in Role : WF_cvars(WorkerStep(r))

CsvSpec == CsvInit /\ [][CsvNext]_cvars /\ CsvFairness

-----------------------------------------------------------------------------
(* Properties.                                                             *)

\* The types, and the asserts at the entry of next_line: the data ends within
\* the first two blocks, which a missing final newline must not push past.
CsvTypeOK ==
  /\ thread.pc \in {"idle", "init", "start", "finish", "blocked", "next", "scan",
                    "destroy", "join", "reopen", "closed", "undefined"}
  /\ thread.who \in Role
  /\ \A r \in Role :
       /\ rd[r].worker \in {"none", "check", "blocked", "ended"}
       /\ rd[r] # Absent =>
            /\ rd[r].data_begin \in 0..rd[r].data_end
            /\ rd[r].data_end \in 0..(2 * BlockLen)
            /\ rd[r].pos \in 0..Len(file)
  /\ number \in Nat \cup {NoNumber}

\* What the file f says, independently of blocks.  An offset is a number of bytes
\* before a byte; a line begins where the text does, behind the byte order mark,
\* and behind every newline that is not the last byte.
TextBegin(f) == IF Len(f) >= 3 /\ SubSeq(f, 1, 3) = Bom THEN 3 ELSE 0
LineStarts(f) ==
  {s \in TextBegin(f)..(Len(f) - 1) : s = TextBegin(f) \/ f[s] = NL}
EndOfLine(f, s) ==
  CHOOSE e \in s..Len(f) :
    /\ e = Len(f) \/ f[e + 1] = NL
    /\ \A i \in s..(e - 1) : f[i + 1] # NL
LineAt(f, s) == [i \in 1..(EndOfLine(f, s) - s) |-> f[s + i]]
Fits(f, s) == EndOfLine(f, s) - s < BlockLen
LinesBefore(f, c) == Cardinality({s \in LineStarts(f) : s < c})

\* Whatever the worker's timing, and whatever counting or reopening happens
\* in between, the lines returned are the lines of the file in order; the end
\* is reported after the last one and a line too long only where there is one.
LinesAreFile ==
  /\ \A k \in DOMAIN out : \E s \in LineStarts(file) :
       /\ LinesBefore(file, s) = k - 1
       /\ Fits(file, s)
       /\ out[k] = WithoutCR(LineAt(file, s))
  /\ result = "end" => Len(out) = Cardinality(LineStarts(file))
  /\ result = "line_length_limit_exceeded" =>
       \E s \in LineStarts(file) : LinesBefore(file, s) = Len(out) /\ ~Fits(file, s)

\* get_item_number agrees with what read_item_data returns until the end: the
\* data hub stops sealing at that number (datahub/main.cpp, seal_file).
CountIsLines ==
  number # NoNumber =>
    /\ number = Cardinality(LineStarts(file))
    /\ \A s \in LineStarts(file) : Fits(file, s)

\* The third block belongs to the worker while a read is requested, and to
\* the data hub's thread while it takes the block over: never to both.
BlockOwned ==
  \A r \in Role : Valid(rd[r]) /\ rd[r].desired # -1 =>
    ~(thread.who = r /\ thread.pc = "start")

\* Every call of the plugin returns (unless the program is undefined): no
\* wait for a worker that has ended or was never told.
CallReturns ==
  (thread.pc \notin {"idle", "closed", "undefined"})
    ~> (thread.pc \in {"idle", "closed", "undefined"})

\* The line reader and its thread: the lines handed out are those of the file, the count
\* is theirs, and the thread writes only bytes nobody reads (the parts above).
LinesSound ==
  CsvTypeOK /\ LinesAreFile /\ CountIsLines /\ BlockOwned
=============================================================================
