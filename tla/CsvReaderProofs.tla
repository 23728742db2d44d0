-------------------------- MODULE CsvReaderProofs --------------------------
(***************************************************************************)
(* LinesSound of CsvReader, for every file, every block length of which    *)
(* two hold a byte order mark, every timing of the worker threads and any  *)
(* number of reads, resets and counts.                                     *)
(*                                                                         *)
(* Nothing in a reader says which bytes of the file its buffer holds: the  *)
(* invariant names the offset "o" of the buffer's first byte.  Where the   *)
(* blocks and the block ahead end then follows from the place the data     *)
(* hub's thread has reached in next_line, its phase in that reader.        *)
(***************************************************************************)
EXTENDS CsvReader, ListLemmas, FiniteSetTheorems

\* A reader that is there; its buffer is set byte by byte.
Byte == STRING \cup {Unset}
Reader ==
  [buffer : [0..(3 * BlockLen - 1) -> Byte], data_begin : Nat, data_end : Nat,
   file_line : Nat, desired : {-1, BlockLen}, got : Nat \cup {-1}, term : BOOLEAN,
   worker : {"none", "check", "blocked", "ended"}, pos : Nat,
   stream : {"open", "destroyed"}]

\* What CsvTypeOK asks of a reader.
Bounded(m, f) ==
  /\ m.data_begin <= m.data_end /\ m.data_end <= 2 * BlockLen
  /\ m.pos <= Len(f)

\* How far the thread has come in the reader it is in.
PhaseAt(pc) ==
  CASE pc \in {"finish", "blocked"} -> "wait"
    [] pc \in {"init", "start", "scan"} -> pc
    [] pc \in {"destroy", "join"} -> "gone"
    [] OTHER -> "rest"
Within == {"wait", "start", "scan"}     \* between NextLine and the end of Scan

\* The offset at which the bytes in the first two blocks end, in the first one
\* while the third is waited for.
BlocksEnd(f, o, ph) ==
  Smaller(o + (IF ph = "wait" THEN BlockLen ELSE 2 * BlockLen), Len(f))

\* The unread bytes of the buffer are those of the file.  The second case is that of a
\* last line without a newline, which has been read.  A line never ends with the second
\* block, so that the end of the data is the end of the file.
InBuffer(m, f, o, ph) ==
  /\ m.data_begin <= m.data_end /\ m.data_end <= 2 * BlockLen
  /\ \/ m.data_end = BlocksEnd(f, o, ph) - o
     \/ /\ ph \notin Within
        /\ m.data_begin = m.data_end /\ o + m.data_end = Len(f) + 1
  /\ m.data_begin = m.data_end => o + m.data_end >= Len(f)
  /\ \A i \in m.data_begin..(BlocksEnd(f, o, ph) - o - 1) : m.buffer[i] = f[o + i + 1]
  /\ ph \in Within => m.data_begin < BlockLen /\ m.data_begin < m.data_end

\* The block ahead: not yet asked for, asked for, there, or taken over.
Ahead(m, f, end, ph) ==
  \/ ph = "init" /\ m.desired = -1 /\ m.got = -1 /\ m.pos = end
  \/ ph = "start" /\ m.desired = -1 /\ m.got # -1 /\ m.pos = end
  \/ ph \notin {"init", "start"} /\ m.desired = BlockLen /\ m.got = -1 /\ m.pos = end
  \/ /\ ph \notin {"init", "start"} /\ m.desired = -1
     /\ m.pos = Smaller(end + BlockLen, Len(f)) /\ m.got = m.pos - end
     /\ \A i \in 0..(m.got - 1) : m.buffer[2 * BlockLen + i] = f[end + i + 1]

\* A reader without a worker has the whole file in its buffer.
Fetched(m, f, o, ph) ==
  /\ m.pos <= Len(f)
  /\ IF Valid(m) THEN Ahead(m, f, BlocksEnd(f, o, ph), ph)
     ELSE ph \notin {"init", "wait", "start"} /\ Len(f) < 2 * BlockLen

\* The reader is at the beginning of a line, or behind the last; the lines before it fit.
AtLine(f, c) ==
  /\ c >= TextBegin(f) /\ (c < Len(f) => c \in LineStarts(f))
  /\ \A s \in LineStarts(f) : s < c => Fits(f, s)

\* Reader m of file f, whose buffer begins at o, in a phase.
ReaderAt(m, f, o, ph) ==
  m \in Reader /\ InBuffer(m, f, o, ph) /\ Fetched(m, f, o, ph) /\ AtLine(f, o + m.data_begin)

\* The phase of a reader the thread is not in is "rest".
Phase(r) == IF thread.who = r THEN PhaseAt(thread.pc) ELSE "rest"

\* The lines a reader has passed, of which the history keeps the main reader's and the
\* counting reader counts its own.
Passed(r, m, f, o, ph) ==
  /\ r = "main" => LinesBefore(f, o + m.data_begin) = Len(out)
  /\ r = "count" /\ ph # "gone" =>
       m.file_line = LinesBefore(f, o + m.data_begin) + IF ph \in Within THEN 1 ELSE 0

\* The invariant of one reader.
ReaderInv(r) ==
  \E o \in 0..Len(file) :
    ReaderAt(rd[r], file, o, Phase(r)) /\ Passed(r, rd[r], file, o, Phase(r))

\* Which reader the thread is in, and why.
ThreadInv ==
  /\ thread \in [pc : {"idle", "init", "start", "finish", "blocked", "next", "scan",
                       "destroy", "join", "reopen", "closed", "undefined"},
                 who : Role, call : {"none", "open", "read", "reset", "count", "close"}]
  /\ thread.pc \in {"next", "finish", "blocked", "start", "scan"} =>
       \/ thread.who = "main" /\ thread.call = "read"
       \/ thread.who = "count" /\ thread.call = "count"
  /\ thread.pc = "init" =>
       \/ thread.who = "main" /\ thread.call \in {"open", "reset"}
       \/ thread.who = "count" /\ thread.call = "count"
  /\ thread.pc \in {"destroy", "join"} =>
       \/ thread.who = "main" /\ thread.call = "close"
       \/ thread.who = "old" /\ thread.call = "reset"
       \/ thread.who = "count" /\ thread.call = "count"
  /\ thread.pc \in {"idle", "reopen"} => thread.who = "main"
  /\ thread.pc = "reopen" => thread.call = "reset"

Lines(f) == {WithoutCR(LineAt(f, s)) : s \in LineStarts(f)}

\* The history holds lines of the file.
CsvTyped ==
  /\ file \in Files
  /\ rd \in [Role -> Reader \cup {Absent}]
  /\ out \in Seq(Lines(file))
  /\ number \in Nat \cup {NoNumber}

\* After a read from a stream that is gone only the bounds are known.
ReadersInv ==
  \A r \in Role : rd[r] # Absent =>
    rd[r] \in Reader /\ IF thread.pc = "undefined" THEN Bounded(rd[r], file) ELSE ReaderInv(r)

\* The plugin has a reader, and the thread is in one, until they are destroyed.
ReadersThere ==
  thread.pc \notin {"closed", "undefined"} =>
    rd["main"] # Absent /\ (thread.pc \notin {"destroy", "join"} => rd[thread.who] # Absent)

CsvInv == CsvTyped /\ ThreadInv /\ ReadersInv /\ ReadersThere /\ LinesAreFile /\ CountIsLines

-----------------------------------------------------------------------------
(* The lines of a file.                                                    *)

\* An interval has a first element of a set, or none.
IsFirst(S, a, b, e) ==
  e \in a..b /\ (e = b \/ e \in S) /\ \A i \in a..(e - 1) : i \notin S

\* Every interval has one.
LEMMA FirstIn ==
  ASSUME NEW S, NEW a \in Int, NEW b \in Int, a <= b
  PROVE  \E e : IsFirst(S, a, b, e)
<1> DEFINE First(n) == \E e \in a..(a + n) : (e = a + n \/ e \in S) /\ \A i \in a..(e - 1) : i \notin S
           T == {n \in Nat : First(n)}
<1>1. First(0)
  OBVIOUS
<1>2. ASSUME NEW n \in Nat, First(n) PROVE First(n + 1)
  <2>1. PICK e \in a..(a + n) : (e = a + n \/ e \in S) /\ \A i \in a..(e - 1) : i \notin S
    BY <1>2
  <2>2. CASE e \in S
    BY <2>1, <2>2
  <2>3. CASE e \notin S
    <3>1. PICK d : d = a + (n + 1)
      OBVIOUS
    <3>2. d \in a..(a + (n + 1)) /\ d - 1 = a + n /\ e = a + n
      BY <2>1, <2>3, <3>1
    <3>3. \A i \in a..(d - 1) : i \notin S
      BY <2>1, <2>3, <3>2
    <3> QED
      BY <3>1, <3>2, <3>3
  <2> QED
    BY <2>2, <2>3
<1> HIDE DEF First
<1>3. 0 \in T /\ \A n \in Nat : n \in T => n + 1 \in T
  BY <1>1, <1>2
<1>4. Nat \subseteq T
  <2> HIDE DEF T
  <2> QED
    BY <1>3, Induction
<1>5. b - a \in Nat /\ a + (b - a) = b
  OBVIOUS
<1>6. First(b - a)
  BY <1>4, <1>5
<1> QED
  BY <1>5, <1>6 DEF First, IsFirst

\* A line that begins at s ends at e.
EndsLine(f, s, e) ==
  /\ e \in s..Len(f)
  /\ e = Len(f) \/ f[e + 1] = NL
  /\ \A i \in s..(e - 1) : f[i + 1] # NL

\* EndOfLine is what its definition says, and nothing else is.
LEMMA EndOfLineIs ==
  ASSUME NEW f \in Seq(STRING), NEW s \in 0..Len(f)
  PROVE  /\ EndsLine(f, s, EndOfLine(f, s))
         /\ \A e : EndsLine(f, s, e) => e = EndOfLine(f, s)
<1>1. Len(f) \in Nat
  OBVIOUS
<1>2. \E e \in s..Len(f) : (e = Len(f) \/ f[e + 1] = NL) /\ \A i \in s..(e - 1) : f[i + 1] # NL
  <2> DEFINE S == {i \in s..Len(f) : f[i + 1] = NL}
  <2>1. PICK e \in s..Len(f) : (e = Len(f) \/ e \in S) /\ \A i \in s..(e - 1) : i \notin S
    <3>1. s \in Int /\ Len(f) \in Int /\ s <= Len(f)
      BY <1>1
    <3>2. PICK R : R = S
      OBVIOUS
    <3>3. \E e : IsFirst(R, s, Len(f), e)
      BY <3>1, FirstIn
    <3> QED
      BY <3>2, <3>3 DEF IsFirst
  <2>2. \A i \in s..(e - 1) : i \in s..Len(f)
    BY <1>1
  <2> QED
    BY <2>1, <2>2
<1>3. EndsLine(f, s, EndOfLine(f, s))
  BY <1>2 DEF EndsLine, EndOfLine
<1>4. ASSUME NEW d, NEW e, EndsLine(f, s, d), EndsLine(f, s, e) PROVE d = e
  <2>1. d \in Int /\ e \in Int
    BY <1>1, <1>4 DEF EndsLine
  <2>2. ~(d < e) /\ ~(e < d)
    BY <1>1, <1>4, <2>1 DEF EndsLine
  <2> QED
    BY <2>1, <2>2
<1> QED
  BY <1>3, <1>4

\* The byte order mark, if any, is in the file.
LEMMA TextBeginIs ==
  ASSUME NEW f \in Seq(STRING)
  PROVE  TextBegin(f) \in 0..Len(f)
BY DEF TextBegin

\* Lines can be counted.
LEMMA StartsFinite ==
  ASSUME NEW f \in Seq(STRING), NEW c
  PROVE  /\ IsFiniteSet(LineStarts(f)) /\ IsFiniteSet({s \in LineStarts(f) : s < c})
         /\ LinesBefore(f, c) \in Nat
<1>1. TextBegin(f) \in Int /\ Len(f) - 1 \in Int
  BY TextBeginIs
<1>2. IsFiniteSet(TextBegin(f)..(Len(f) - 1))
  BY <1>1, FS_Interval
<1>3. LineStarts(f) \subseteq TextBegin(f)..(Len(f) - 1)
  BY DEF LineStarts
<1>4. IsFiniteSet(LineStarts(f))
  BY <1>2, <1>3, FS_Subset
<1>5. IsFiniteSet({s \in LineStarts(f) : s < c})
  BY <1>4, FS_Subset
<1> QED
  BY <1>4, <1>5, FS_CardinalityType DEF LinesBefore

\* Behind a line that fits is the next line, or the end.
LEMMA LinePassed ==
  ASSUME NEW f \in Seq(STRING), NEW c \in 0..(Len(f) - 1), AtLine(f, c), Fits(f, c),
         NEW e, e = EndOfLine(f, c)
  PROVE  /\ AtLine(f, e + 1)
         /\ LinesBefore(f, e + 1) = LinesBefore(f, c) + 1
<1>1. Len(f) \in Nat /\ c \in LineStarts(f) /\ TextBegin(f) \in 0..Len(f)
  BY TextBeginIs DEF AtLine
<1>2. EndsLine(f, c, e)
  BY <1>1, EndOfLineIs
<1>3. e \in c..Len(f)
  BY <1>2 DEF EndsLine
<1>4. \A s \in LineStarts(f) : s < e + 1 <=> s < c \/ s = c
  <2> SUFFICES ASSUME NEW s \in LineStarts(f), s > c, s < e + 1 PROVE FALSE
    BY <1>1, <1>3 DEF LineStarts
  <2>1. s \in Int /\ f[s] = NL
    BY <1>1 DEF LineStarts, AtLine
  <2>2. s - 1 \in c..(e - 1) /\ s - 1 + 1 = s
    BY <1>1, <1>3, <2>1
  <2> QED
    BY <1>2, <2>1, <2>2 DEF EndsLine
<1>5. AtLine(f, e + 1)
  <2>1. e + 1 >= TextBegin(f)
    BY <1>1, <1>3 DEF AtLine
  <2>2. ASSUME e + 1 < Len(f) PROVE e + 1 \in LineStarts(f)
    <3>1. f[e + 1] = NL
      BY <1>2, <1>3, <2>2 DEF EndsLine
    <3> QED
      BY <1>1, <1>3, <2>1, <2>2, <3>1 DEF LineStarts
  <2>3. \A s \in LineStarts(f) : s < e + 1 => Fits(f, s)
    BY <1>4 DEF AtLine
  <2> QED
    BY <2>1, <2>2, <2>3 DEF AtLine
<1>6. LinesBefore(f, e + 1) = LinesBefore(f, c) + 1
  <2> DEFINE S == {s \in LineStarts(f) : s < c}
  <2>1. {s \in LineStarts(f) : s < e + 1} = S \cup {c}
    BY <1>1, <1>4
  <2>2. IsFiniteSet(S) /\ c \notin S
    BY <1>1, StartsFinite
  <2> HIDE DEF S
  <2>3. Cardinality(S \cup {c}) = Cardinality(S) + 1
    BY <2>2, FS_AddElement
  <2> QED
    BY <2>1, <2>3 DEF LinesBefore, S
<1> QED
  BY <1>5, <1>6

\* At the end every line has been passed, and every line fits.
LEMMA AllPassed ==
  ASSUME NEW f \in Seq(STRING), NEW c \in Nat, AtLine(f, c), c >= Len(f)
  PROVE  /\ LinesBefore(f, c) = Cardinality(LineStarts(f))
         /\ \A s \in LineStarts(f) : Fits(f, s)
<1>1. \A s \in LineStarts(f) : s < c
  BY TextBeginIs DEF LineStarts
<1>2. {s \in LineStarts(f) : s < c} = LineStarts(f)
  BY <1>1
<1> QED
  BY <1>1, <1>2 DEF AtLine, LinesBefore

-----------------------------------------------------------------------------
(* What the steps do to one reader m, of file f, whose buffer begins at o. *)

\* The blocks end in the file.
LEMMA BlocksEndIs ==
  ASSUME NEW f \in Seq(STRING), NEW o \in 0..Len(f), NEW ph
  PROVE  BlocksEnd(f, o, ph) \in o..Len(f)
BY CsvAssumption DEF BlocksEnd, Smaller

\* Only the fields that the invariant is about matter, and only how far the thread is.
LEMMA ReaderKept ==
  ASSUME NEW f \in Seq(STRING), NEW o \in 0..Len(f), NEW m, NEW ph, ReaderAt(m, f, o, ph),
         NEW n \in Reader, NEW q,
         /\ n.buffer = m.buffer /\ n.data_begin = m.data_begin /\ n.data_end = m.data_end
         /\ n.desired = m.desired /\ n.got = m.got /\ n.pos = m.pos
         /\ Valid(n) <=> Valid(m),
         \/ q = ph
         \/ ph \in {"scan", "rest", "gone"} /\ q \in {"rest", "gone"}
  PROVE  ReaderAt(n, f, o, q)
<1>1. BlocksEnd(f, o, q) = BlocksEnd(f, o, ph)
  BY DEF BlocksEnd
<1>2. InBuffer(n, f, o, q)
  BY <1>1 DEF ReaderAt, InBuffer, Within
<1>3. Fetched(n, f, o, q)
  BY <1>1 DEF ReaderAt, Fetched, Ahead
<1> QED
  BY <1>2, <1>3 DEF ReaderAt

\* The worker's read.
LEMMA ReaderFilled ==
  ASSUME NEW f \in Seq(STRING), NEW o \in 0..Len(f), NEW m, NEW ph, ReaderAt(m, f, o, ph),
         Valid(m), m.desired # -1,
         NEW k, k = Smaller(m.desired, Len(f) - m.pos),
         NEW n, n.buffer = [i \in DOMAIN m.buffer |->
                              IF i \in 2 * BlockLen..(2 * BlockLen + k - 1)
                                THEN f[m.pos + i - 2 * BlockLen + 1] ELSE m.buffer[i]],
         n \in Reader,
         n.data_begin = m.data_begin, n.data_end = m.data_end, n.desired = -1, n.got = k,
         n.pos = m.pos + k, Valid(n)
  PROVE  ReaderAt(n, f, o, ph)
<1> DEFINE B == BlockLen
           E == BlocksEnd(f, o, ph)
<1>1. B \in Nat \ {0, 1} /\ E \in o..Len(f) /\ Len(f) \in Nat
  BY CsvAssumption, BlocksEndIs
<1>2. m \in Reader /\ m.desired = B /\ m.got = -1 /\ m.pos = E /\ ph \notin {"init", "start"}
  BY DEF ReaderAt, Fetched, Ahead, Reader
<1>3. k \in Nat /\ k <= B /\ n.pos = Smaller(E + B, Len(f)) /\ n.got = n.pos - E
  BY <1>1, <1>2 DEF Smaller
<1>4. DOMAIN m.buffer = 0..(3 * B - 1)
  BY <1>2 DEF Reader
<1>5. \A i \in 0..(k - 1) : n.buffer[2 * B + i] = f[E + i + 1]
  <2> SUFFICES ASSUME NEW i \in 0..(k - 1) PROVE n.buffer[2 * B + i] = f[E + i + 1]
    OBVIOUS
  <2>1. 2 * B + i \in 0..(3 * B - 1) /\ 2 * B + i \in 2 * B..(2 * B + k - 1)
        /\ E + (2 * B + i) - 2 * B + 1 = E + i + 1
    BY <1>1, <1>3
  <2> QED
    BY <1>2, <1>4, <2>1
<1>6. \A i \in 0..(2 * B - 1) : n.buffer[i] = m.buffer[i]
  BY <1>1, <1>3, <1>4
<1>7. InBuffer(n, f, o, ph)
  <2>1. InBuffer(m, f, o, ph)
    BY DEF ReaderAt
  <2>2. E - o <= 2 * B
    BY <1>1 DEF BlocksEnd, Smaller
  <2>3. \A i \in m.data_begin..(E - o - 1) : i \in 0..(2 * B - 1)
    BY <1>1, <1>2, <2>2 DEF Reader
  <2> HIDE DEF E
  <2> QED
    BY <1>6, <2>1, <2>3 DEF InBuffer, E
<1>8. Fetched(n, f, o, ph)
  <2>1. n.pos <= Len(f)
    BY <1>1, <1>3 DEF Smaller
  <2> QED
    BY <1>2, <1>3, <1>5, <2>1 DEF Fetched, Ahead
<1> QED
  BY <1>7, <1>8 DEF ReaderAt

\* start_read.
LEMMA ReaderAsked ==
  ASSUME NEW f \in Seq(STRING), NEW o \in 0..Len(f), NEW m, NEW ph, ReaderAt(m, f, o, ph),
         NEW n \in Reader, NEW q,
         /\ n.buffer = m.buffer /\ n.data_begin = m.data_begin /\ n.data_end = m.data_end
         /\ n.desired = BlockLen /\ n.got = -1 /\ n.pos = m.pos
         /\ Valid(n) /\ Valid(m),
         <<ph, q>> \in {<<"init", "rest">>, <<"start", "scan">>}
  PROVE  ReaderAt(n, f, o, q)
<1>1. BlocksEnd(f, o, q) = BlocksEnd(f, o, ph)
  BY DEF BlocksEnd
<1>2. InBuffer(n, f, o, q)
  BY <1>1 DEF ReaderAt, InBuffer, Within
<1>3. Fetched(n, f, o, q)
  BY <1>1, CsvAssumption DEF ReaderAt, Fetched, Ahead
<1> QED
  BY <1>2, <1>3 DEF ReaderAt

\* finish_read: the block that was read ahead becomes the second.
LEMMA ReaderTakesOver ==
  ASSUME NEW f \in Seq(STRING), NEW o \in 0..Len(f), NEW m, ReaderAt(m, f, o, "wait"),
         m.got # -1, NEW n, n = TakeOver(m)
  PROVE  /\ ReaderAt(n, f, o, "start")
         /\ n.data_begin = m.data_begin /\ n.file_line = m.file_line
<1> DEFINE B == BlockLen
           E == BlocksEnd(f, o, "wait")
           G == BlocksEnd(f, o, "start")
<1>1. B \in Nat \ {0, 1} /\ E \in o..Len(f) /\ G \in o..Len(f) /\ Len(f) \in Nat
  BY CsvAssumption, BlocksEndIs
<1>2. m \in Reader /\ Valid(m) /\ m.desired = -1 /\ m.got = m.pos - E
      /\ m.pos = Smaller(E + B, Len(f))
      /\ \A i \in 0..(m.got - 1) : m.buffer[2 * B + i] = f[E + i + 1]
  BY CsvAssumption DEF ReaderAt, Fetched, Ahead
<1>3. /\ m.data_end = E - o /\ m.data_begin < B /\ m.data_begin < m.data_end
      /\ \A i \in m.data_begin..(E - o - 1) : m.buffer[i] = f[o + i + 1]
  BY DEF ReaderAt, InBuffer, Within
<1>4. m.pos = G /\ (E = o + B \/ (m.got = 0 /\ E = G)) /\ m.got \in 0..B
      /\ E <= o + B /\ G <= o + 2 * B
  <2>1. /\ E = IF o + B < Len(f) THEN o + B ELSE Len(f)
        /\ G = IF o + 2 * B < Len(f) THEN o + 2 * B ELSE Len(f)
    BY DEF BlocksEnd, Smaller
  <2>2. m.pos = IF E + B < Len(f) THEN E + B ELSE Len(f)
    BY <1>2 DEF Smaller
  <2> HIDE DEF E, G
  <2>3. o \in Nat /\ B \in Nat /\ E \in Nat /\ G \in Nat /\ Len(f) \in Nat
    BY <1>1
  <2>4. m.pos \in Nat /\ m.got = m.pos - E
    BY <1>2, <2>2, <2>3
  <2> HIDE DEF B
  <2>5. m.pos = G /\ E <= o + B /\ G <= o + 2 * B
    BY <2>1, <2>2, <2>3, <2>4
  <2>6. E = o + B \/ (m.got = 0 /\ E = G)
    BY <2>1, <2>2, <2>3, <2>4
  <2>7. m.got \in 0..B
    BY <1>1, <2>1, <2>2, <2>3, <2>4
  <2> QED
    BY <2>5, <2>6, <2>7
<1> HIDE DEF E, G
<1>5. /\ DOMAIN m.buffer = 0..(3 * B - 1)
      /\ m.data_end \in Nat /\ m.data_begin \in Nat /\ m.got \in Nat
      /\ \A i \in 0..(3 * B - 1) : m.buffer[i] \in Byte
  BY <1>2, <1>4 DEF Reader
<1>6. /\ n.data_end = m.data_end + m.got /\ n.data_begin = m.data_begin
      /\ n.desired = -1 /\ n.got = m.got /\ n.pos = m.pos /\ n.worker = m.worker
      /\ n.file_line = m.file_line
      /\ n.buffer = [i \in 0..(3 * B - 1) |-> IF i \in B..(2 * B - 1) THEN m.buffer[i + B] ELSE m.buffer[i]]
  BY <1>2, <1>5 DEF TakeOver, Reader
<1>7. n \in Reader
  <2>1. n.buffer \in [0..(3 * B - 1) -> Byte]
    <3>1. \A i \in B..(2 * B - 1) : i + B \in 0..(3 * B - 1)
      BY <1>1
    <3>2. \A i \in 0..(3 * B - 1) :
            (IF i \in B..(2 * B - 1) THEN m.buffer[i + B] ELSE m.buffer[i]) \in Byte
      BY <1>5, <3>1
    <3> QED
      BY <1>6, <3>2
  <2>2. n = [m EXCEPT !.data_end = n.data_end, !.buffer = n.buffer]
    BY <1>2, <1>6 DEF TakeOver, Reader
  <2>3. n.data_end \in Nat
    BY <1>5, <1>6
  <2> QED
    BY <1>2, <2>1, <2>2, <2>3 DEF Reader
<1>8. n.data_end = G - o
  BY <1>1, <1>2, <1>3, <1>4, <1>6
<1>9. ASSUME NEW i \in m.data_begin..(G - o - 1) PROVE n.buffer[i] = f[o + i + 1]
  <2>1. i \in 0..(2 * B - 1) /\ i \in 0..(3 * B - 1)
    BY <1>1, <1>4, <1>5
  <2>2. CASE i < E - o
    <3>1. i \in m.data_begin..(E - o - 1) /\ i \notin B..(2 * B - 1)
      BY <1>1, <1>4, <1>5, <2>1, <2>2
    <3> QED
      BY <1>3, <1>6, <2>1, <3>1
  <2>3. CASE i >= E - o
    <3>1. E = o + B
      BY <1>1, <1>4, <1>5, <2>3
    <3>2. i \in B..(2 * B - 1) /\ 2 * B + (i - B) = i + B /\ E + (i - B) + 1 = o + i + 1
      BY <1>1, <2>1, <2>3, <3>1
    <3>3. m.got = G - E /\ i <= G - o - 1 /\ i \in Nat
      BY <1>2, <1>4, <2>1
    <3>4. i - B \in 0..(m.got - 1)
      BY <1>1, <3>1, <3>2, <3>3
    <3> QED
      BY <1>2, <1>6, <2>1, <3>2, <3>4
  <2> QED
    BY <1>1, <1>5, <2>1, <2>2, <2>3
<1>10. InBuffer(n, f, o, "start")
  <2>1. n.data_begin < n.data_end /\ n.data_begin < B
    BY <1>3, <1>5, <1>6
  <2>2. n.data_end <= 2 * B
    BY <1>1, <1>4, <1>8
  <2>3. n.data_begin <= n.data_end
    <3>1. n.data_begin \in Int /\ n.data_end \in Int
      BY <1>5, <1>6
    <3> QED
      BY <2>1, <3>1
  <2>4. n.data_begin # n.data_end
    BY <1>5, <1>6, <2>1
  <2> QED
    BY <1>6, <1>8, <1>9, <2>1, <2>2, <2>3, <2>4 DEF InBuffer, G
<1>11. Fetched(n, f, o, "start")
  <2>1. n.pos <= Len(f) /\ Valid(n)
    BY <1>1, <1>2, <1>4, <1>6 DEF Valid
  <2> QED
    BY <1>4, <1>6, <2>1 DEF Fetched, Ahead, G
<1> QED
  BY <1>6, <1>7, <1>10, <1>11 DEF ReaderAt

\* The head of next_line, in the first block.
LEMMA ReaderStays ==
  ASSUME NEW f \in Seq(STRING), NEW o \in 0..Len(f), NEW m, ReaderAt(m, f, o, "rest"),
         m.data_begin # m.data_end, m.data_begin < BlockLen,
         NEW n, n = OneMore(m)
  PROVE  /\ ReaderAt(n, f, o, "scan")
         /\ n.data_begin = m.data_begin /\ n.file_line = m.file_line + 1
<1>1. m \in Reader
  BY DEF ReaderAt
<1>2. /\ n \in Reader /\ n.buffer = m.buffer /\ n.data_begin = m.data_begin
      /\ n.data_end = m.data_end /\ n.desired = m.desired /\ n.got = m.got /\ n.pos = m.pos
      /\ n.worker = m.worker /\ n.file_line = m.file_line + 1
  BY <1>1 DEF Reader, OneMore
<1>3. BlocksEnd(f, o, "scan") = BlocksEnd(f, o, "rest")
  BY DEF BlocksEnd
<1>4. m.data_begin < m.data_end
  BY <1>1 DEF ReaderAt, InBuffer, Reader
<1>5. InBuffer(n, f, o, "scan")
  BY <1>2, <1>3, <1>4 DEF ReaderAt, InBuffer, Within
<1>6. Fetched(n, f, o, "scan")
  BY <1>2, <1>3 DEF ReaderAt, Fetched, Ahead, Valid
<1> QED
  BY <1>2, <1>5, <1>6 DEF ReaderAt

\* The head of next_line, behind the first block: the second becomes the first.
LEMMA ReaderShifted ==
  ASSUME NEW f \in Seq(STRING), NEW o \in 0..Len(f), NEW m, ReaderAt(m, f, o, "rest"),
         m.data_begin # m.data_end, m.data_begin >= BlockLen,
         NEW n, n = OneMore(Shifted(m)),
         NEW q, q = IF Valid(m) THEN "wait" ELSE "scan"
  PROVE  /\ o + BlockLen \in 0..Len(f)
         /\ ReaderAt(n, f, o + BlockLen, q)
         /\ o + BlockLen + n.data_begin = o + m.data_begin
         /\ n.file_line = m.file_line + 1
<1> DEFINE B == BlockLen
           E == BlocksEnd(f, o, "rest")
<1>1. B \in Nat \ {0, 1} /\ E \in o..Len(f) /\ Len(f) \in Nat /\ o \in Nat
  BY CsvAssumption, BlocksEndIs
<1>2. /\ m \in Reader /\ m.data_begin < m.data_end /\ m.data_end = E - o
      /\ \A i \in m.data_begin..(E - o - 1) : m.buffer[i] = f[o + i + 1]
  BY DEF ReaderAt, InBuffer, Reader
<1>3. /\ m.data_begin \in Nat /\ m.data_end \in Nat /\ m.data_begin - B \in Nat
      /\ m.data_end - B \in Nat
      /\ DOMAIN m.buffer = 0..(3 * B - 1) /\ \A i \in 0..(3 * B - 1) : m.buffer[i] \in Byte
  BY <1>1, <1>2 DEF Reader
<1>4. /\ n.data_end = m.data_end - B /\ n.data_begin = m.data_begin - B
      /\ n.desired = m.desired /\ n.got = m.got /\ n.pos = m.pos /\ n.worker = m.worker
      /\ n.file_line = m.file_line + 1
      /\ n.buffer = [i \in 0..(3 * B - 1) |-> IF i < B THEN m.buffer[i + B] ELSE m.buffer[i]]
  BY <1>2, <1>3 DEF Shifted, OneMore, Reader
<1>5. n \in Reader
  <2>1. n.buffer \in [0..(3 * B - 1) -> Byte]
    <3>1. \A i \in 0..(3 * B - 1) : i < B => i + B \in 0..(3 * B - 1)
      BY <1>1
    <3>2. \A i \in 0..(3 * B - 1) : (IF i < B THEN m.buffer[i + B] ELSE m.buffer[i]) \in Byte
      BY <1>3, <3>1
    <3> QED
      BY <1>4, <3>2
  <2>2. n = [m EXCEPT !.data_begin = n.data_begin, !.data_end = n.data_end, !.buffer = n.buffer,
                      !.file_line = n.file_line]
    BY <1>2, <1>4 DEF Shifted, OneMore, Reader
  <2>3. n.data_begin \in Nat /\ n.data_end \in Nat /\ n.file_line \in Nat
    BY <1>2, <1>3, <1>4 DEF Reader
  <2> QED
    BY <1>2, <2>1, <2>2, <2>3 DEF Reader
<1>6. /\ E = IF o + 2 * B < Len(f) THEN o + 2 * B ELSE Len(f)
      /\ E <= o + 2 * B
  BY <1>1 DEF BlocksEnd, Smaller
<1>7. ~Valid(m) => Len(f) < 2 * B
  BY DEF ReaderAt, Fetched
<1>8. BlocksEnd(f, o + B, q) = E
  <2>1. CASE Valid(m)
    <3>1. o + B + B = o + 2 * B
      BY <1>1
    <3> QED
      BY <2>1, <3>1 DEF BlocksEnd
  <2>2. CASE ~Valid(m)
    <3>1. BlocksEnd(f, o + B, q) = IF o + B + 2 * B < Len(f) THEN o + B + 2 * B ELSE Len(f)
      BY <2>2 DEF BlocksEnd, Smaller
    <3> HIDE DEF E
    <3> QED
      BY <1>1, <1>6, <1>7, <2>2, <3>1
  <2> QED
    BY <2>1, <2>2
<1> HIDE DEF E
<1>9. o + B \in 0..Len(f)
  BY <1>1, <1>2, <1>3
<1>10. ASSUME NEW i \in n.data_begin..(E - (o + B) - 1) PROVE n.buffer[i] = f[o + B + i + 1]
  <2>1. E \in Int /\ o \in Int /\ B \in Int /\ m.data_begin \in Int
        /\ m.data_begin - B >= 0 /\ n.data_begin = m.data_begin - B
    BY <1>1, <1>3, <1>4
  <2>2. i \in Int /\ i >= m.data_begin - B /\ i <= E - (o + B) - 1
    BY <2>1
  <2>3. i >= 0 /\ i < B
    BY <1>6, <2>1, <2>2
  <2>4. i \in 0..(3 * B - 1)
    BY <2>1, <2>2, <2>3
  <2>5. i + B \in m.data_begin..(E - o - 1) /\ o + (i + B) + 1 = o + B + i + 1
    BY <2>1, <2>2
  <2>6. n.buffer[i] = m.buffer[i + B]
    BY <1>4, <2>3, <2>4
  <2>7. m.buffer[i + B] = f[o + (i + B) + 1]
    BY <1>2, <2>5
  <2> QED
    BY <2>5, <2>6, <2>7
<1>11. InBuffer(n, f, o + B, q)
  <2>1. E \in Int /\ o \in Int /\ B \in Int /\ m.data_begin \in Int /\ m.data_end \in Int
        /\ n.data_begin \in Int /\ n.data_end \in Int
    BY <1>1, <1>3, <1>4
  <2>2. n.data_begin < n.data_end /\ n.data_begin <= n.data_end /\ n.data_begin # n.data_end
    BY <1>2, <1>4, <2>1
  <2>3. n.data_end = E - (o + B)
    BY <1>2, <1>4, <2>1
  <2>4. n.data_end <= B
    BY <1>6, <2>1, <2>3
  <2>5. n.data_begin < B /\ n.data_end <= 2 * B
    BY <1>1, <2>1, <2>2, <2>4
  <2> QED
    BY <1>8, <1>10, <2>2, <2>3, <2>5 DEF InBuffer
<1>12. Fetched(n, f, o + B, q)
  <2>1. CASE Valid(m)
    <3>1. n.pos <= Len(f) /\ Valid(n) /\ q = "wait" /\ Ahead(m, f, E, "rest")
      BY <1>4, <2>1 DEF ReaderAt, Fetched, Valid, E
    <3>2. ASSUME m.desired = -1, m.got # -1
          PROVE  \A i \in 0..(m.got - 1) : n.buffer[2 * B + i] = m.buffer[2 * B + i]
      <4>1. m.got <= B /\ m.got \in Nat
        BY <1>1, <1>2, <3>1, <3>2 DEF Ahead, Smaller, Reader
      <4> SUFFICES ASSUME NEW i \in 0..(m.got - 1) PROVE n.buffer[2 * B + i] = m.buffer[2 * B + i]
        OBVIOUS
      <4>2. 2 * B + i \in 0..(3 * B - 1) /\ ~(2 * B + i < B)
        BY <1>1, <4>1
      <4> QED
        BY <1>4, <4>2
    <3>3. Ahead(n, f, E, "wait")
      <4>1. CASE m.desired = BlockLen
        BY <1>1, <1>4, <3>1, <4>1 DEF Ahead
      <4>2. CASE m.desired = -1
        <5>1. /\ m.pos = Smaller(E + BlockLen, Len(f)) /\ m.got = m.pos - E
              /\ \A i \in 0..(m.got - 1) : m.buffer[2 * BlockLen + i] = f[E + i + 1]
          BY <1>1, <3>1, <4>2 DEF Ahead
        <5>2. m.got # -1
          BY <1>1, <5>1 DEF Smaller
        <5> QED
          BY <1>4, <3>2, <4>2, <5>1, <5>2 DEF Ahead
      <4> QED
        BY <1>2, <4>1, <4>2 DEF Reader
    <3> QED
      BY <1>8, <3>1, <3>3 DEF Fetched
  <2>2. CASE ~Valid(m)
    BY <1>4, <1>7, <2>2 DEF ReaderAt, Fetched, Valid
  <2> QED
    BY <2>1, <2>2
<1>13. o + B + n.data_begin = o + m.data_begin
  BY <1>1, <1>3, <1>4
<1> QED
  BY <1>4, <1>5, <1>9, <1>11, <1>12, <1>13 DEF ReaderAt

\* The same in the buffer, where the data may end before the line.
EndsInBuffer(m, e) ==
  /\ e \in m.data_begin..m.data_end
  /\ e = m.data_end \/ m.buffer[e] = NL
  /\ \A i \in m.data_begin..(e - 1) : m.buffer[i] # NL

\* next_line finds the end of a line, or of the data.
LEMMA LineEndIs ==
  ASSUME NEW m \in Reader, m.data_begin <= m.data_end
  PROVE  EndsInBuffer(m, LineEnd(m))
<1> DEFINE S == {i \in m.data_begin..m.data_end : m.buffer[i] = NL}
<1>1. m.data_begin \in Int /\ m.data_end \in Int
  BY DEF Reader
<1>2. PICK R : R = S
  OBVIOUS
<1>3. PICK e : IsFirst(R, m.data_begin, m.data_end, e)
  BY <1>1, FirstIn
<1>4. \A i \in m.data_begin..(e - 1) : i \in m.data_begin..m.data_end
  BY <1>1, <1>3 DEF IsFirst
<1>5. EndsInBuffer(m, e)
  BY <1>2, <1>3, <1>4 DEF IsFirst, EndsInBuffer
<1> QED
  BY <1>5 DEF EndsInBuffer, LineEnd

\* What the thread knows of the buffer when it scans it.
LEMMA ScanKnows ==
  ASSUME NEW f \in Seq(STRING), NEW o \in 0..Len(f), NEW m, ReaderAt(m, f, o, "scan"),
         NEW e, e = LineEnd(m)
  PROVE  /\ BlockLen \in Nat \ {0, 1} /\ o \in Nat /\ Len(f) \in Nat
         /\ m.data_begin \in Nat /\ m.data_end \in Nat /\ e \in m.data_begin..m.data_end
         /\ m.data_begin < BlockLen /\ m.data_begin < m.data_end /\ o + m.data_end <= Len(f)
         /\ m.data_end <= 2 * BlockLen
         /\ o + m.data_end = Len(f) \/ m.data_end = 2 * BlockLen
         /\ \A i \in m.data_begin..(m.data_end - 1) : m.buffer[i] = f[o + i + 1]
         /\ EndsInBuffer(m, e)
         /\ o + m.data_begin \in 0..(Len(f) - 1)
<1> DEFINE E == BlocksEnd(f, o, "scan")
<1>1. BlockLen \in Nat \ {0, 1} /\ o \in Nat /\ Len(f) \in Nat /\ E \in o..Len(f)
  BY CsvAssumption, BlocksEndIs
<1>2. m \in Reader /\ m.data_begin \in Nat /\ m.data_end \in Nat
  BY DEF ReaderAt, Reader
<1>3. /\ m.data_begin < BlockLen /\ m.data_begin < m.data_end /\ m.data_end = E - o
      /\ m.data_begin <= m.data_end
      /\ \A i \in m.data_begin..(E - o - 1) : m.buffer[i] = f[o + i + 1]
  BY DEF ReaderAt, InBuffer, Within
<1>4. EndsInBuffer(m, e)
  BY <1>2, <1>3, LineEndIs
<1>5. E = IF o + 2 * BlockLen < Len(f) THEN o + 2 * BlockLen ELSE Len(f)
  BY DEF BlocksEnd, Smaller
<1> HIDE DEF E
<1>6. o + m.data_end = E
  BY <1>1, <1>2, <1>3
<1>7. /\ o + m.data_end <= Len(f) /\ m.data_end <= 2 * BlockLen
      /\ o + m.data_end = Len(f) \/ m.data_end = 2 * BlockLen
  BY <1>1, <1>2, <1>5, <1>6
<1>8. o + m.data_begin \in 0..(Len(f) - 1)
  BY <1>1, <1>2, <1>3, <1>7
<1> QED
  BY <1>1, <1>2, <1>3, <1>4, <1>7, <1>8 DEF EndsInBuffer

\* A line end found in the buffer is the one in the file, unless the blocks end there.
LEMMA EndFound ==
  ASSUME NEW f \in Seq(STRING), NEW o \in 0..Len(f), NEW m, ReaderAt(m, f, o, "scan"),
         NEW e, e = LineEnd(m), e < m.data_end \/ o + m.data_end = Len(f)
  PROVE  EndOfLine(f, o + m.data_begin) = o + e
<1>1. /\ o \in Nat /\ Len(f) \in Nat /\ m.data_begin \in Nat /\ m.data_end \in Nat
      /\ e \in m.data_begin..m.data_end /\ e \in Nat /\ o + m.data_end <= Len(f)
      /\ \A i \in m.data_begin..(m.data_end - 1) : m.buffer[i] = f[o + i + 1]
      /\ EndsInBuffer(m, e) /\ o + m.data_begin \in 0..Len(f)
  BY ScanKnows
<1>2. PICK c, g : c = o + m.data_begin /\ g = o + e
  OBVIOUS
<1>3. c \in Nat /\ g \in c..Len(f) /\ g \in Nat
  BY <1>1, <1>2
<1>4. g = Len(f) \/ f[g + 1] = NL
  <2>1. CASE e = m.data_end
    BY <1>1, <1>2, <2>1
  <2>2. CASE e # m.data_end
    <3>1. e \in m.data_begin..(m.data_end - 1) /\ m.buffer[e] = NL
      BY <1>1, <2>2 DEF EndsInBuffer
    <3> QED
      BY <1>1, <1>2, <3>1
  <2> QED
    BY <2>1, <2>2
<1>5. ASSUME NEW i \in c..(g - 1) PROVE f[i + 1] # NL
  <2>1. PICK j : j = i - o
    OBVIOUS
  <2>2. j \in m.data_begin..(e - 1) /\ j \in m.data_begin..(m.data_end - 1) /\ o + j + 1 = i + 1
    <3>1. PICK b, d : b = m.data_begin /\ d = m.data_end
      OBVIOUS
    <3>2. /\ o \in Nat /\ b \in Nat /\ d \in Nat /\ e \in Nat /\ e <= d /\ i \in Int
          /\ c = o + b /\ g = o + e /\ i >= c /\ i <= g - 1
      BY <1>1, <1>2, <1>3, <3>1
    <3>3. j \in Int /\ j >= b /\ j <= e - 1 /\ j <= d - 1 /\ o + j + 1 = i + 1
      BY <2>1, <3>2
    <3> QED
      BY <3>1, <3>2, <3>3
  <2>3. m.buffer[j] # NL
    BY <1>1, <2>2 DEF EndsInBuffer
  <2> QED
    BY <1>1, <2>2, <2>3
<1>6. EndsLine(f, c, g)
  BY <1>3, <1>4, <1>5 DEF EndsLine
<1> QED
  BY <1>1, <1>2, <1>6, EndOfLineIs

\* The tail of next_line on a line that fits.
LEMMA ReaderScanned ==
  ASSUME NEW f \in Seq(STRING), NEW o \in 0..Len(f), NEW m, ReaderAt(m, f, o, "scan"),
         NEW e, e = LineEnd(m), ~TooLong(m),
         NEW n, n = PastLine(m, e)
  PROVE  /\ ReaderAt(n, f, o, "rest")
         /\ n.file_line = m.file_line
         /\ LinesBefore(f, o + n.data_begin) = LinesBefore(f, o + m.data_begin) + 1
         /\ o + m.data_begin \in LineStarts(f) /\ Fits(f, o + m.data_begin)
         /\ Bytes(m.buffer, m.data_begin, e) = LineAt(f, o + m.data_begin)
<1> DEFINE B == BlockLen
           E == BlocksEnd(f, o, "scan")
<1>1. /\ B \in Nat \ {0, 1} /\ o \in Nat /\ Len(f) \in Nat
      /\ m.data_begin \in Nat /\ m.data_end \in Nat /\ e \in Nat
      /\ e >= m.data_begin /\ e <= m.data_end
      /\ m.data_begin < B /\ m.data_begin < m.data_end /\ o + m.data_end <= Len(f)
      /\ m.data_end <= 2 * B
      /\ o + m.data_end = Len(f) \/ m.data_end = 2 * B
      /\ o + m.data_begin \in 0..(Len(f) - 1)
  BY ScanKnows
<1>2. e - m.data_begin < B
  BY <1>1 DEF TooLong
<1>3. e = m.data_end => o + m.data_end = Len(f) /\ m.data_end + 1 <= 2 * B
  BY <1>1, <1>2
<1>4. PICK c : c = o + m.data_begin
  OBVIOUS
<1>5. EndOfLine(f, c) = o + e
  <2>1. e < m.data_end \/ o + m.data_end = Len(f)
    BY <1>1, <1>3
  <2> QED
    BY <1>4, <2>1, EndFound
<1>6. c \in 0..(Len(f) - 1) /\ AtLine(f, c) /\ c \in LineStarts(f)
  BY <1>1, <1>4 DEF ReaderAt, AtLine
<1>7. Fits(f, c)
  <2>1. PICK g : g = EndOfLine(f, c)
    OBVIOUS
  <2>2. g - c < B
    BY <1>1, <1>2, <1>4, <1>5, <2>1
  <2> QED
    BY <2>1, <2>2 DEF Fits
<1>8. AtLine(f, o + e + 1) /\ LinesBefore(f, o + e + 1) = LinesBefore(f, c) + 1
  <2>1. PICK g : g = EndOfLine(f, c)
    OBVIOUS
  <2>2. AtLine(f, g + 1) /\ LinesBefore(f, g + 1) = LinesBefore(f, c) + 1
    BY <1>6, <1>7, <2>1, LinePassed
  <2> QED
    BY <1>5, <2>1, <2>2
<1>9. /\ n.data_begin = e + 1 /\ n.data_end = (IF e = m.data_end THEN m.data_end + 1 ELSE m.data_end)
      /\ n.buffer = m.buffer /\ n.desired = m.desired /\ n.got = m.got /\ n.pos = m.pos
      /\ n.worker = m.worker /\ n.file_line = m.file_line
  BY DEF ReaderAt, Reader, PastLine
<1>10. n \in Reader
  <2>1. n.data_begin \in Nat /\ n.data_end \in Nat
    BY <1>1, <1>9
  <2>2. n = [m EXCEPT !.data_begin = n.data_begin, !.data_end = n.data_end] /\ m \in Reader
    BY <1>9 DEF ReaderAt, Reader, PastLine
  <2> QED
    BY <2>1, <2>2 DEF Reader
<1>11. BlocksEnd(f, o, "rest") = E /\ m.data_end = E - o
  BY DEF ReaderAt, InBuffer, Within, BlocksEnd
<1>12. InBuffer(n, f, o, "rest")
  <2>1. n.data_begin <= n.data_end /\ n.data_end <= 2 * B
    BY <1>1, <1>3, <1>9
  <2>2. \/ n.data_end = m.data_end
        \/ n.data_begin = n.data_end /\ o + n.data_end = Len(f) + 1
    BY <1>1, <1>3, <1>9
  <2>3. \A i \in n.data_begin..(m.data_end - 1) : n.buffer[i] = f[o + i + 1]
    <3>1. \A i \in n.data_begin..(m.data_end - 1) : i \in m.data_begin..(m.data_end - 1)
      BY <1>1, <1>9
    <3>2. \A i \in m.data_begin..(m.data_end - 1) : m.buffer[i] = f[o + i + 1]
      BY ScanKnows
    <3> QED
      BY <1>9, <3>1, <3>2
  <2>4. n.data_begin = n.data_end => o + n.data_end >= Len(f)
    <3>1. CASE e = m.data_end
      BY <1>1, <1>3, <1>9, <3>1
    <3>2. CASE e # m.data_end
      <4>1. e <= 2 * B - 2 /\ n.data_begin = e + 1 /\ n.data_end = m.data_end
        BY <1>1, <1>2, <1>9, <3>2
      <4>2. e + 1 = m.data_end => o + m.data_end = Len(f)
        BY <1>1, <4>1
      <4> QED
        BY <1>1, <4>1, <4>2
    <3> QED
      BY <3>1, <3>2
  <2> HIDE DEF E
  <2> QED
    BY <1>11, <2>1, <2>2, <2>3, <2>4 DEF InBuffer, Within
<1>13. Fetched(n, f, o, "rest")
  BY <1>9, <1>11 DEF ReaderAt, Fetched, Ahead, Valid
<1>14. Bytes(m.buffer, m.data_begin, e) = LineAt(f, c)
  <2>1. PICK g, b, k : g = EndOfLine(f, c) /\ b = m.data_begin /\ k = e - b
    OBVIOUS
  <2>2. g - c = k /\ k \in Nat /\ b \in Nat
    <3>1. b \in Nat /\ e \in Nat /\ o \in Nat /\ e >= b
      BY <1>1, <2>1
    <3>2. c = o + b /\ g = o + e /\ k = e - b
      BY <1>4, <1>5, <2>1
    <3> QED
      BY <3>1, <3>2
  <2>3. ASSUME NEW i \in 1..k PROVE m.buffer[b + i - 1] = f[c + i]
    <3>1. PICK j : j = b + i - 1
      OBVIOUS
    <3>2. j >= b /\ j <= e - 1 /\ j \in Int
      <4>1. b \in Int /\ e \in Int /\ i \in Int /\ i >= 1 /\ i <= e - b
        BY <1>1, <2>1, <2>2
      <4> QED
        BY <3>1, <4>1
    <3>3. o + j + 1 = c + i
      <4>1. o \in Int /\ b \in Int /\ i \in Int /\ c = o + b
        BY <1>1, <1>4, <2>1, <2>2
      <4> QED
        BY <3>1, <4>1
    <3>4. j \in m.data_begin..(m.data_end - 1)
      BY <1>1, <2>1, <3>2
    <3>5. m.buffer[j] = f[o + j + 1]
      BY <3>4, ScanKnows
    <3> QED
      BY <3>1, <3>3, <3>5
  <2>4. [i \in 1..k |-> m.buffer[b + i - 1]] = [i \in 1..k |-> f[c + i]]
    BY <2>3
  <2> QED
    BY <2>1, <2>2, <2>4 DEF Bytes, LineAt
<1>15. o + n.data_begin = o + e + 1
  BY <1>1, <1>9
<1> QED
  BY <1>4, <1>6, <1>7, <1>8, <1>9, <1>10, <1>12, <1>13, <1>14, <1>15 DEF ReaderAt

\* A line the reader gives up on is one that does not fit in a block.
LEMMA ReaderGivesUp ==
  ASSUME NEW f \in Seq(STRING), NEW o \in 0..Len(f), NEW m, ReaderAt(m, f, o, "scan"),
         TooLong(m)
  PROVE  o + m.data_begin \in LineStarts(f) /\ ~Fits(f, o + m.data_begin)
<1> DEFINE B == BlockLen
<1>0. PICK e : e = LineEnd(m)
  OBVIOUS
<1>1. /\ B \in Nat \ {0, 1} /\ o \in Nat /\ Len(f) \in Nat
      /\ m.data_begin \in Nat /\ m.data_end \in Nat /\ e \in Nat
      /\ e >= m.data_begin /\ e <= m.data_end
      /\ m.data_begin < B /\ m.data_begin < m.data_end /\ o + m.data_end <= Len(f)
      /\ o + m.data_end = Len(f) \/ m.data_end = 2 * B
      /\ o + m.data_begin \in 0..(Len(f) - 1)
  BY <1>0, ScanKnows
<1>2. e - m.data_begin >= B
  BY <1>0, <1>1 DEF TooLong
<1>3. PICK c, g : c = o + m.data_begin /\ g = EndOfLine(f, c)
  OBVIOUS
<1>4. c \in 0..(Len(f) - 1) /\ c \in 0..Len(f) /\ c \in LineStarts(f)
  BY <1>1, <1>3 DEF ReaderAt, AtLine
<1>5. EndsLine(f, c, g)
  BY <1>3, <1>4, EndOfLineIs
<1>6. CASE e < m.data_end \/ o + m.data_end = Len(f)
  <2>1. g = o + e
    BY <1>0, <1>3, <1>6, EndFound
  <2>2. ~(g - c < B)
    BY <1>1, <1>2, <1>3, <2>1
  <2> QED
    BY <1>3, <1>4, <2>2 DEF Fits
<1>7. CASE ~(e < m.data_end \/ o + m.data_end = Len(f))
  <2>1. e = m.data_end /\ m.data_end = 2 * B /\ o + 2 * B < Len(f)
    BY <1>1, <1>7
  <2>2. ASSUME g - c < B PROVE FALSE
    <3>1. g \in Nat /\ g >= c
      BY <1>1, <1>3, <1>4, <1>5 DEF EndsLine
    <3>2. PICK j : j = g - o
      OBVIOUS
    <3>31. c \in Nat /\ g < c + B /\ c < o + B
      BY <1>1, <1>3, <2>2, <3>1
    <3>32. j >= m.data_begin /\ j < 2 * B /\ j \in Nat
      <4>1. PICK b : b = m.data_begin
        OBVIOUS
      <4>2. b \in Nat /\ o \in Nat /\ g \in Nat /\ c = o + b /\ g >= c
        BY <1>1, <1>3, <3>1, <4>1
      <4>3. j >= b /\ j \in Nat
        BY <3>2, <4>2
      <4>4. g < o + 2 * B
        BY <1>1, <3>31, <4>2
      <4>5. j < 2 * B
        BY <1>1, <3>2, <4>2, <4>4
      <4> QED
        BY <4>1, <4>3, <4>5
    <3>3. j \in m.data_begin..(e - 1) /\ j \in m.data_begin..(m.data_end - 1)
          /\ o + j + 1 = g + 1 /\ g < Len(f)
      <4>1. o + j + 1 = g + 1
        BY <1>1, <3>1, <3>2
      <4>2. j <= e - 1
        BY <1>1, <2>1, <3>32
      <4>3. g < Len(f)
        BY <1>1, <2>1, <3>1, <3>2, <3>32
      <4> QED
        BY <1>1, <2>1, <3>32, <4>1, <4>2, <4>3
    <3>4. f[g + 1] = NL
      BY <1>5, <3>1, <3>3 DEF EndsLine
    <3>5. m.buffer[j] # NL
      BY <1>0, <3>3, ScanKnows DEF EndsInBuffer
    <3>6. m.buffer[j] = f[o + j + 1]
      BY <1>0, <3>3, ScanKnows
    <3> QED
      BY <3>3, <3>4, <3>5, <3>6
  <2> QED
    BY <1>3, <1>4, <2>2 DEF Fits
<1> QED
  BY <1>6, <1>7

\* LineReader::init.
LEMMA NewReaderAt ==
  ASSUME file \in Seq(STRING)
  PROVE  /\ 0 \in 0..Len(file)
         /\ ReaderAt(NewReader, file, 0, IF Valid(NewReader) THEN "init" ELSE "rest")
         /\ LinesBefore(file, 0 + NewReader.data_begin) = 0
         /\ NewReader.file_line = 0
<1> DEFINE B == BlockLen
<1>1. PICK n, m, q, b : /\ n = ReadCount(0, 2 * B) /\ m = NewReader
                        /\ q = (IF Valid(m) THEN "init" ELSE "rest")
                        /\ b = m.data_begin
  OBVIOUS
<1>2. B \in Nat \ {0, 1} /\ Len(file) \in Nat
  BY CsvAssumption
<1>3. /\ n \in Nat /\ n <= 2 * B /\ n <= Len(file) /\ (n = Len(file) \/ n = 2 * B)
      /\ (n # 2 * B => Len(file) < 2 * B) /\ n = Smaller(2 * B, Len(file))
  BY <1>1, <1>2 DEF ReadCount, Smaller
<1>4. /\ m.buffer = Filled([i \in 0..(3 * B - 1) |-> Unset], 0, 0, n)
      /\ m.data_begin = (IF n >= 3 /\ SubSeq(file, 1, 3) = Bom THEN 3 ELSE 0)
      /\ m.data_end = n /\ m.file_line = 0 /\ m.desired = -1 /\ m.got = -1 /\ m.pos = n
      /\ m.worker = (IF n = 2 * B THEN "check" ELSE "none")
      /\ m = [buffer |-> m.buffer, data_begin |-> m.data_begin, data_end |-> n, file_line |-> 0,
              desired |-> -1, got |-> -1, term |-> FALSE,
              worker |-> IF n = 2 * B THEN "check" ELSE "none", pos |-> n, stream |-> "open"]
  BY <1>1 DEF NewReader
<1>5. m.buffer = [i \in 0..(3 * B - 1) |-> IF i \in 0..(n - 1) THEN file[i + 1] ELSE Unset]
  <2>1. m.buffer = [i \in 0..(3 * B - 1) |->
                      IF i \in 0..(0 + n - 1) THEN file[0 + i - 0 + 1] ELSE Unset]
    BY <1>4 DEF Filled
  <2>2. 0 + n - 1 = n - 1 /\ \A i \in 0..(3 * B - 1) : 0 + i - 0 + 1 = i + 1
    BY <1>3
  <2> QED
    BY <2>1, <2>2
<1>6. m \in Reader
  <2>1. \A i \in 0..(n - 1) : file[i + 1] \in STRING
    BY <1>2, <1>3
  <2>2. m.buffer \in [0..(3 * B - 1) -> Byte]
    <3>1. \A i \in 0..(3 * B - 1) : (IF i \in 0..(n - 1) THEN file[i + 1] ELSE Unset) \in Byte
      BY <2>1 DEF Byte
    <3> QED
      BY <1>5, <3>1
  <2>3. m.data_begin \in Nat
    BY <1>4
  <2>4. PICK w : w = IF n = 2 * B THEN "check" ELSE "none"
    OBVIOUS
  <2>5. w \in {"none", "check", "blocked", "ended"}
    BY <2>4
  <2>6. PICK u : u = m.buffer
    OBVIOUS
  <2>7. m = [buffer |-> u, data_begin |-> b, data_end |-> n, file_line |-> 0,
             desired |-> -1, got |-> -1, term |-> FALSE, worker |-> w, pos |-> n,
             stream |-> "open"]
    BY <1>1, <1>4, <2>4, <2>6
  <2>8. u \in [0..(3 * BlockLen - 1) -> Byte] /\ b \in Nat /\ n \in Nat
    BY <1>1, <1>3, <2>2, <2>3, <2>6
  <2> QED
    BY <2>5, <2>7, <2>8 DEF Reader
<1>7. b = TextBegin(file) /\ b \in Nat /\ b <= n /\ (n = 2 * B => b < n)
  BY <1>1, <1>2, <1>3, <1>4 DEF TextBegin
<1>8. BlocksEnd(file, 0, q) = n
  <2>1. BlocksEnd(file, 0, q) = Smaller(0 + 2 * B, Len(file)) /\ 0 + 2 * B = 2 * B
    BY <1>1, <1>2 DEF BlocksEnd
  <2> QED
    BY <1>3, <2>1
<1>9. InBuffer(m, file, 0, q)
  <2>1. m.data_begin <= m.data_end /\ m.data_end <= 2 * B /\ m.data_end = n - 0
    BY <1>1, <1>3, <1>4, <1>7
  <2>2. m.data_begin = m.data_end => 0 + m.data_end >= Len(file)
    BY <1>1, <1>2, <1>3, <1>4, <1>7
  <2>3. ASSUME NEW i \in m.data_begin..(n - 0 - 1) PROVE m.buffer[i] = file[0 + i + 1]
    <3>1. i \in 0..(n - 1) /\ i \in 0..(3 * B - 1) /\ 0 + i + 1 = i + 1
      BY <1>1, <1>2, <1>3, <1>7
    <3> QED
      BY <1>5, <3>1
  <2>4. q \notin Within
    BY <1>1 DEF Within
  <2> QED
    BY <1>8, <2>1, <2>2, <2>3, <2>4 DEF InBuffer
<1>10. Fetched(m, file, 0, q)
  <2>1. m.pos <= Len(file)
    BY <1>3, <1>4
  <2>2. CASE Valid(m)
    BY <1>1, <1>4, <1>8, <2>1, <2>2 DEF Fetched, Ahead
  <2>3. CASE ~Valid(m)
    BY <1>1, <1>3, <1>4, <2>1, <2>3 DEF Fetched, Valid
  <2> QED
    BY <2>2, <2>3
<1>11. AtLine(file, 0 + b)
  <2>1. \A s \in LineStarts(file) : s \in Int /\ s >= b
    BY <1>2, <1>7 DEF LineStarts
  <2>2. 0 + b = b
    BY <1>7
  <2>3. b < Len(file) => b \in LineStarts(file)
    BY <1>2, <1>7 DEF LineStarts
  <2>4. \A s \in LineStarts(file) : ~(s < b)
    BY <1>7, <2>1
  <2>5. b >= TextBegin(file)
    BY <1>7
  <2> QED
    BY <2>2, <2>3, <2>4, <2>5 DEF AtLine
<1>12. LinesBefore(file, 0 + b) = 0
  <2>1. \A s \in LineStarts(file) : ~(s < 0 + b)
    BY <1>2, <1>7 DEF LineStarts
  <2>2. {s \in LineStarts(file) : s < 0 + b} = {}
    BY <2>1
  <2> QED
    BY <2>2, FS_EmptySet DEF LinesBefore
<1>13. ReaderAt(m, file, 0, q)
  BY <1>1, <1>6, <1>9, <1>10, <1>11 DEF ReaderAt
<1> QED
  BY <1>1, <1>2, <1>4, <1>12, <1>13

-----------------------------------------------------------------------------
(* The invariant is kept: first, for the steps that leave a reader alone.  *)

\* A reader is there.
LEMMA ReaderNotAbsent ==
  ASSUME NEW m \in Reader
  PROVE  m # Absent
<1>1. "pos" \in DOMAIN m
  BY DEF Reader
<1>2. "pos" \notin DOMAIN Absent
  BY DEF Absent
<1> QED
  BY <1>1, <1>2

\* The invariant bounds a reader as the asserts of next_line do.
LEMMA ReaderBounded ==
  ASSUME NEW r \in Role, ReaderInv(r)
  PROVE  rd[r] \in Reader /\ Bounded(rd[r], file)
BY DEF ReaderInv, ReaderAt, InBuffer, Fetched, Bounded

\* A step that changes no field of reader r the invariant speaks of.
LEMMA ReaderSame ==
  ASSUME file \in Seq(STRING), file' = file, NEW r \in Role, ReaderInv(r), rd'[r] \in Reader,
         /\ rd'[r].buffer = rd[r].buffer /\ rd'[r].data_begin = rd[r].data_begin
         /\ rd'[r].data_end = rd[r].data_end /\ rd'[r].desired = rd[r].desired
         /\ rd'[r].got = rd[r].got /\ rd'[r].pos = rd[r].pos
         /\ rd'[r].file_line = rd[r].file_line
         /\ Valid(rd'[r]) <=> Valid(rd[r]),
         \/ Phase(r)' = Phase(r)
         \/ Phase(r) \in {"scan", "rest", "gone"} /\ Phase(r)' \in {"rest", "gone"},
         r = "main" => out' = out,
         r = "count" => Phase(r)' = Phase(r) \/ Phase(r)' = "gone"
  PROVE  ReaderInv(r)'
<1>1. PICK o \in 0..Len(file) :
         ReaderAt(rd[r], file, o, Phase(r)) /\ Passed(r, rd[r], file, o, Phase(r))
  BY DEF ReaderInv
<1>2. PICK m, n, ph, q : m = rd[r] /\ n = rd'[r] /\ ph = Phase(r) /\ q = Phase(r)'
  OBVIOUS
<1>3. ReaderAt(n, file, o, q)
  BY <1>1, <1>2, ReaderKept
<1>4. Passed(r, n, file, o, q)'
  BY <1>1, <1>2 DEF Passed
<1>5. ReaderAt(rd'[r], file', o, Phase(r)') /\ Passed(r, rd[r], file, o, Phase(r))'
  BY <1>2, <1>3, <1>4
<1> QED
  BY <1>5 DEF ReaderInv

\* What the steps use of the invariant.
LEMMA CsvFacts ==
  ASSUME CsvInv
  PROVE  /\ file \in Seq(STRING) /\ Len(file) \in Nat /\ BlockLen \in Nat \ {0, 1}
         /\ rd \in [Role -> Reader \cup {Absent}] /\ DOMAIN rd = Role
         /\ thread.who \in Role
         /\ out \in Seq(Lines(file)) /\ Len(out) \in Nat
         /\ \A r \in Role : rd[r] # Absent /\ thread.pc # "undefined" => rd[r] \in Reader /\ ReaderInv(r)
<1>1. file \in Seq(STRING) /\ BlockLen \in Nat \ {0, 1}
  BY CsvAssumption DEF CsvInv, CsvTyped
<1>2. Len(file) \in Nat
  BY <1>1
<1>3. thread.who \in Role
  BY DEF CsvInv, ThreadInv
<1> QED
  BY <1>1, <1>2, <1>3 DEF CsvInv, CsvTyped, ReadersInv

\* A step that touches reader w alone.
LEMMA ReadersKept ==
  ASSUME CsvInv, thread.pc # "undefined", thread'.pc # "undefined", file' = file, NEW w \in Role,
         \A r \in Role \ {w} :
           /\ rd'[r] = rd[r]
           /\ \/ Phase(r)' = Phase(r)
              \/ Phase(r) \in {"scan", "rest", "gone"} /\ Phase(r)' \in {"rest", "gone"}
           /\ r = "main" => out' = out
           /\ r = "count" => Phase(r)' = Phase(r) \/ Phase(r)' = "gone",
         rd'[w] # Absent => rd'[w] \in Reader /\ ReaderInv(w)'
  PROVE  ReadersInv'
<1>1. ASSUME NEW r \in Role, rd'[r] # Absent, r # w PROVE rd'[r] \in Reader /\ ReaderInv(r)'
  <2>1. r \in Role \ {w} /\ rd'[r] = rd[r] /\ rd[r] \in Reader /\ ReaderInv(r) /\ file \in Seq(STRING)
    BY <1>1, CsvFacts
  <2>2. rd'[r] \in Reader
    BY <2>1
  <2> QED
    BY <1>1, <2>1, <2>2, ReaderSame
<1> QED
  BY <1>1 DEF ReadersInv

\* A step that returns nothing and counts nothing.
LEMMA ResultsKept ==
  ASSUME CsvInv, UNCHANGED <<file, out, result, number>>
  PROVE  LinesAreFile' /\ CountIsLines' /\ out' \in Seq(Lines(file')) /\ number' \in Nat \cup {NoNumber}
BY DEF CsvInv, CsvTyped, LinesAreFile, CountIsLines

\* The invariant of the next state, part by part.
LEMMA InvAgain ==
  ASSUME CsvInv, file' = file, rd' \in [Role -> Reader \cup {Absent}],
         out' \in Seq(Lines(file')), number' \in Nat \cup {NoNumber},
         ThreadInv', ReadersInv', ReadersThere', LinesAreFile', CountIsLines'
  PROVE  CsvInv'
BY DEF CsvInv, CsvTyped

\* A notification wakes a worker and makes none.
LEMMA WokenIs ==
  ASSUME NEW x \in {"none", "check", "blocked", "ended"}
  PROVE  Woken(x) \in {"none", "check", "blocked", "ended"} /\ (Woken(x) = "none" <=> x = "none")
BY DEF Woken

-----------------------------------------------------------------------------
(* The steps.                                                              *)

\* read_item_data begins a call.
LEMMA ReadItemKeeps ==
  ASSUME CsvInv, ReadItem
  PROVE  CsvInv'
<1>1. /\ thread.pc = "idle" /\ thread' = [pc |-> "next", who |-> "main", call |-> "read"]
      /\ UNCHANGED <<file, rd, out, result, number>> /\ thread.who = "main"
  BY DEF ReadItem, CsvInv, ThreadInv
<1>2. \A r \in Role : Phase(r)' = Phase(r)
  BY <1>1 DEF Phase, PhaseAt
<1>3. ReadersInv'
  <2>1. rd'["main"] # Absent => rd'["main"] \in Reader /\ ReaderInv("main")'
    BY <1>1, <1>2, CsvFacts, ReaderSame DEF Role
  <2>2. "main" \in Role /\ thread.pc # "undefined" /\ thread'.pc # "undefined"
    BY <1>1 DEF Role
  <2> QED
    BY <1>1, <1>2, <2>1, <2>2, ReadersKept
<1>4. ThreadInv' /\ ReadersThere'
  BY <1>1 DEF CsvInv, ThreadInv, ReadersThere, Role
<1>5. rd' \in [Role -> Reader \cup {Absent}]
  BY <1>1, CsvFacts
<1> QED
  BY <1>1, <1>3, <1>4, <1>5, ResultsKept, InvAgain

\* close_item_reader destroys the reader.
LEMMA CloseKeeps ==
  ASSUME CsvInv, Close
  PROVE  CsvInv'
<1>1. /\ thread.pc = "idle" /\ thread' = [pc |-> "destroy", who |-> "main", call |-> "close"]
      /\ UNCHANGED <<file, rd, out, result, number>> /\ thread.who = "main"
  BY DEF Close, CsvInv, ThreadInv
<1>2. /\ \A r \in Role \ {"main"} : Phase(r)' = Phase(r)
      /\ Phase("main") = "rest" /\ Phase("main")' = "gone"
  BY <1>1 DEF Phase, PhaseAt
<1>3. ReadersInv'
  <2>1. rd'["main"] # Absent => rd'["main"] \in Reader /\ ReaderInv("main")'
    BY <1>1, <1>2, CsvFacts, ReaderSame DEF Role
  <2>2. "main" \in Role /\ thread.pc # "undefined" /\ thread'.pc # "undefined"
    BY <1>1 DEF Role
  <2> QED
    BY <1>1, <1>2, <2>1, <2>2, ReadersKept
<1>4. ThreadInv' /\ ReadersThere'
  BY <1>1 DEF CsvInv, ThreadInv, ReadersThere, Role
<1>5. rd' \in [Role -> Reader \cup {Absent}]
  BY <1>1, CsvFacts
<1> QED
  BY <1>1, <1>3, <1>4, <1>5, ResultsKept, InvAgain

\* reset_for_read destroys the stream; the readers keep their blocks.
LEMMA ResetStreamKeeps ==
  ASSUME CsvInv, ResetStream
  PROVE  CsvInv'
<1>1. /\ thread.pc = "idle" /\ thread.who = "main"
      /\ thread' \in {[pc |-> "reopen", who |-> "main", call |-> "reset"], Idle}
      /\ rd' = [rd EXCEPT !["main"].stream = "destroyed"]
      /\ UNCHANGED <<file, out, number>> /\ result' \in {result, "reset_failed"}
  BY DEF ResetStream, CsvInv, ThreadInv
<1>2. \A r \in Role : Phase(r)' = Phase(r)
  BY <1>1 DEF Phase, PhaseAt, Idle
<1>3. PICK m, n : m = rd["main"] /\ n = rd'["main"]
  OBVIOUS
<1>4. m \in Reader /\ ReaderInv("main")
  BY <1>1, <1>3, CsvFacts DEF CsvInv, ReadersThere, Role
<1>5. n = [m EXCEPT !.stream = "destroyed"] /\ \A r \in Role \ {"main"} : rd'[r] = rd[r]
  BY <1>1, <1>3, CsvFacts DEF Role
<1>6. n \in Reader
  BY <1>4, <1>5 DEF Reader
<1>7. ReaderInv("main")'
  <2>1. /\ n.buffer = m.buffer /\ n.data_begin = m.data_begin /\ n.data_end = m.data_end
        /\ n.desired = m.desired /\ n.got = m.got /\ n.pos = m.pos /\ n.file_line = m.file_line
        /\ (Valid(n) <=> Valid(m))
    BY <1>4, <1>5 DEF Valid, Reader
  <2> QED
    BY <1>1, <1>2, <1>3, <1>4, <1>6, <2>1, CsvFacts, ReaderSame DEF Role
<1>8. ReadersInv'
  <2>1. "main" \in Role /\ thread.pc # "undefined" /\ thread'.pc # "undefined"
    BY <1>1 DEF Role, Idle
  <2> QED
    BY <1>1, <1>2, <1>3, <1>5, <1>6, <1>7, <2>1, ReadersKept
<1>9. ThreadInv'
  BY <1>1 DEF ThreadInv, Role, Idle
<1>10. ReadersThere'
  BY <1>1, <1>3, <1>6, ReaderNotAbsent DEF ReadersThere, Idle
<1>11. rd' \in [Role -> Reader \cup {Absent}]
  BY <1>1, <1>3, <1>5, <1>6, CsvFacts
<1>12. LinesAreFile' /\ CountIsLines' /\ out' \in Seq(Lines(file')) /\ number' \in Nat \cup {NoNumber}
  BY <1>1 DEF CsvInv, CsvTyped, LinesAreFile, CountIsLines
<1> QED
  BY <1>1, <1>8, <1>9, <1>10, <1>11, <1>12, InvAgain

\* start_read asks for the block after the ones in the buffer.
LEMMA StartReadKeeps ==
  ASSUME CsvInv, StartRead
  PROVE  CsvInv'
<1>1. PICK w, m, n, ph, q :
         w = thread.who /\ m = rd[w] /\ n = rd'[w] /\ ph = Phase(w) /\ q = Phase(w)'
  OBVIOUS
<1>2. /\ thread.pc \in {"init", "start"} /\ w \in Role
      /\ rd' = [rd EXCEPT ![w].desired = BlockLen, ![w].got = -1, ![w].worker = Woken(@)]
      /\ UNCHANGED <<file, out, result, number>>
  BY <1>1, CsvFacts DEF StartRead
<1>3. m \in Reader /\ ReaderInv(w) /\ ph = thread.pc
  BY <1>1, <1>2, CsvFacts DEF CsvInv, ReadersThere, Phase, PhaseAt
<1>4. PICK o \in 0..Len(file) : ReaderAt(m, file, o, ph) /\ Passed(w, m, file, o, ph)
  BY <1>1, <1>3 DEF ReaderInv
<1>5. Valid(m)
  BY <1>2, <1>3, <1>4 DEF ReaderAt, Fetched
<1>6. /\ n = [m EXCEPT !.desired = BlockLen, !.got = -1, !.worker = Woken(m.worker)]
      /\ \A r \in Role \ {w} : rd'[r] = rd[r]
  BY <1>1, <1>2, CsvFacts
<1>7. n \in Reader /\ Valid(n)
  <2>1. m.worker \in {"none", "check", "blocked", "ended"} /\ m.worker # "none"
    BY <1>3, <1>5 DEF Reader, Valid
  <2>2. Woken(m.worker) \in {"none", "check", "blocked", "ended"} /\ Woken(m.worker) # "none"
    BY <2>1, WokenIs
  <2> QED
    BY <1>3, <1>6, <2>2 DEF Reader, Valid
<1>8. /\ n.buffer = m.buffer /\ n.data_begin = m.data_begin /\ n.data_end = m.data_end
      /\ n.desired = BlockLen /\ n.got = -1 /\ n.pos = m.pos /\ n.file_line = m.file_line
  BY <1>3, <1>6 DEF Reader
<1>9. \/ thread.pc = "start" /\ thread' = [thread EXCEPT !.pc = "scan"]
      \/ thread.pc = "init" /\ thread.call = "open" /\ thread' = Idle
      \/ /\ thread.pc = "init" /\ thread.call = "reset"
         /\ thread' = [thread EXCEPT !.pc = "destroy", !.who = "old"]
      \/ thread.pc = "init" /\ thread.call = "count" /\ thread' = [thread EXCEPT !.pc = "next"]
  BY DEF StartRead, At
<1>10. /\ thread.pc = "start" =>
            (w = "main" /\ thread.call = "read") \/ (w = "count" /\ thread.call = "count")
       /\ thread.pc = "init" =>
            (w = "main" /\ thread.call \in {"open", "reset"}) \/ (w = "count" /\ thread.call = "count")
  BY <1>1 DEF CsvInv, ThreadInv
<1>11. /\ thread'.pc \in {"scan", "idle", "destroy", "next"}
       /\ thread.pc = "start" => thread'.pc = "scan" /\ thread'.who = w /\ thread'.call = thread.call
       /\ thread.pc = "init" /\ thread.call = "open" => thread'.pc = "idle" /\ thread'.who = w
       /\ thread.pc = "init" /\ thread.call = "reset" =>
            thread'.pc = "destroy" /\ thread'.who = "old" /\ thread'.call = "reset"
       /\ thread.pc = "init" /\ thread.call = "count" =>
            thread'.pc = "next" /\ thread'.who = w /\ thread'.call = "count"
       /\ thread' \in [pc : {"scan", "idle", "destroy", "next"}, who : Role,
                       call : {"none", "open", "read", "reset", "count", "close"}]
  <2>1. thread \in [pc : {"idle", "init", "start", "finish", "blocked", "next", "scan",
                          "destroy", "join", "reopen", "closed", "undefined"},
                    who : Role, call : {"none", "open", "read", "reset", "count", "close"}]
        /\ "main" \in Role /\ "old" \in Role
    BY DEF CsvInv, ThreadInv, Role
  <2>2. CASE thread.pc = "start" /\ thread' = [thread EXCEPT !.pc = "scan"]
    BY <1>1, <2>1, <2>2
  <2>3. CASE thread.pc = "init" /\ thread.call = "open" /\ thread' = Idle
    BY <1>1, <1>10, <2>1, <2>3 DEF Idle
  <2>4. CASE /\ thread.pc = "init" /\ thread.call = "reset"
             /\ thread' = [thread EXCEPT !.pc = "destroy", !.who = "old"]
    BY <1>1, <2>1, <2>4
  <2>5. CASE thread.pc = "init" /\ thread.call = "count" /\ thread' = [thread EXCEPT !.pc = "next"]
    BY <1>1, <2>1, <2>5
  <2> QED
    BY <1>9, <2>2, <2>3, <2>4, <2>5
<1>12. (ph = "init" /\ q = "rest") \/ (ph = "start" /\ q = "scan")
  BY <1>1, <1>2, <1>3, <1>10, <1>11 DEF Phase, PhaseAt
<1>13. \A r \in Role \ {w} :
         Phase(r) = "rest" /\ Phase(r)' \in {"rest", "gone"} /\ (r # "old" => Phase(r)' = "rest")
  BY <1>1, <1>2, <1>10, <1>11 DEF Phase, PhaseAt, Role
<1>14. ReaderInv(w)'
  <2>1. ReaderAt(n, file, o, q)
    BY <1>4, <1>5, <1>7, <1>8, <1>12, CsvFacts, ReaderAsked
  <2>2. Passed(w, n, file, o, q)'
    BY <1>2, <1>4, <1>8, <1>12 DEF Passed, Within
  <2> QED
    BY <1>1, <1>2, <2>1, <2>2 DEF ReaderInv
<1>15. ReadersInv'
  <2>1. thread.pc # "undefined" /\ thread'.pc # "undefined" /\ file' = file /\ out' = out
    BY <1>2, <1>11
  <2>2. \A r \in Role \ {w} :
          /\ rd'[r] = rd[r]
          /\ \/ Phase(r)' = Phase(r)
             \/ Phase(r) \in {"scan", "rest", "gone"} /\ Phase(r)' \in {"rest", "gone"}
          /\ r = "main" => out' = out
          /\ r = "count" => Phase(r)' = Phase(r) \/ Phase(r)' = "gone"
    BY <1>6, <1>13, <2>1
  <2>3. rd'[w] \in Reader
    BY <1>1, <1>7
  <2> QED
    BY <1>2, <1>14, <2>1, <2>2, <2>3, ReadersKept
<1>16. ThreadInv'
  BY <1>2, <1>10, <1>11 DEF ThreadInv, Role
<1>17. ReadersThere'
  <2>1. rd["main"] # Absent /\ n # Absent
    BY <1>2, <1>7, ReaderNotAbsent DEF CsvInv, ReadersThere
  <2>2. rd'["main"] # Absent
    BY <1>1, <1>6, <2>1 DEF Role
  <2> QED
    BY <1>1, <1>2, <1>10, <1>11, <2>1, <2>2 DEF ReadersThere
<1>18. rd' \in [Role -> Reader \cup {Absent}]
  BY <1>1, <1>2, <1>6, <1>7, CsvFacts
<1> QED
  BY <1>2, <1>15, <1>16, <1>17, <1>18, ResultsKept, InvAgain

\* finish_read takes the block over or waits.
LEMMA FinishReadKeeps ==
  ASSUME CsvInv, FinishRead
  PROVE  CsvInv'
<1>1. PICK w, m, n : w = thread.who /\ m = rd[w] /\ n = rd'[w]
  OBVIOUS
<1>2. /\ thread.pc = "finish" /\ w \in Role
      /\ \/ /\ m.got # -1 /\ rd' = [rd EXCEPT ![w] = TakeOver(m)]
            /\ thread' = [thread EXCEPT !.pc = "start"]
         \/ m.got = -1 /\ rd' = rd /\ thread' = [thread EXCEPT !.pc = "blocked"]
      /\ UNCHANGED <<file, out, result, number>>
  BY <1>1, CsvFacts DEF FinishRead, At
<1>3. m \in Reader /\ ReaderInv(w) /\ Phase(w) = "wait"
  BY <1>1, <1>2, CsvFacts DEF CsvInv, ReadersThere, Phase, PhaseAt
<1>4. /\ thread'.pc \in {"start", "blocked"} /\ thread'.who = w /\ thread'.call = thread.call
      /\ thread' \in [pc : {"start", "blocked"}, who : Role,
                      call : {"none", "open", "read", "reset", "count", "close"}]
  BY <1>1, <1>2 DEF CsvInv, ThreadInv
<1>5. \A r \in Role \ {w} : rd'[r] = rd[r] /\ Phase(r) = "rest" /\ Phase(r)' = "rest"
  BY <1>1, <1>2, <1>4, CsvFacts DEF Phase
<1>6. n \in Reader /\ ReaderInv(w)'
  <2>1. CASE m.got # -1
    <3>1. PICK o \in 0..Len(file) : ReaderAt(m, file, o, "wait") /\ Passed(w, m, file, o, "wait")
      BY <1>1, <1>3 DEF ReaderInv
    <3>2. n = TakeOver(m) /\ thread'.pc = "start"
      BY <1>1, <1>2, <2>1, CsvFacts DEF CsvInv, ThreadInv
    <3>3. /\ ReaderAt(n, file, o, "start")
          /\ n.data_begin = m.data_begin /\ n.file_line = m.file_line
      BY <2>1, <3>1, <3>2, CsvFacts, ReaderTakesOver
    <3>4. Phase(w)' = "start"
      BY <1>4, <3>2 DEF Phase, PhaseAt
    <3>5. Passed(w, n, file, o, "start")'
      BY <1>2, <3>1, <3>3 DEF Passed, Within
    <3>6. n \in Reader
      BY <3>3 DEF ReaderAt
    <3> QED
      BY <1>1, <1>2, <3>3, <3>4, <3>5, <3>6 DEF ReaderInv
  <2>2. CASE m.got = -1
    <3>1. rd' = rd /\ Phase(w)' = "wait"
      BY <1>2, <1>4, <2>2 DEF CsvInv, ThreadInv, Phase, PhaseAt
    <3>2. n = m
      BY <1>1, <3>1
    <3> QED
      BY <1>1, <1>2, <1>3, <3>1, <3>2, CsvFacts, ReaderSame
  <2> QED
    BY <2>1, <2>2
<1>7. ReadersInv'
  <2>1. thread.pc # "undefined" /\ thread'.pc # "undefined"
    BY <1>2, <1>4
  <2> QED
    BY <1>1, <1>2, <1>5, <1>6, <2>1, ReadersKept
<1>8. ThreadInv'
  BY <1>1, <1>2, <1>4 DEF CsvInv, ThreadInv
<1>9. ReadersThere'
  <2>1. rd["main"] # Absent /\ n # Absent
    BY <1>2, <1>6, ReaderNotAbsent DEF CsvInv, ReadersThere
  <2>2. rd'["main"] # Absent
    BY <1>1, <1>5, <2>1 DEF Role
  <2> QED
    BY <1>1, <1>4, <2>1, <2>2 DEF ReadersThere
<1>10. rd' \in [Role -> Reader \cup {Absent}]
  BY <1>1, <1>2, <1>6, CsvFacts
<1> QED
  BY <1>2, <1>7, <1>8, <1>9, <1>10, ResultsKept, InvAgain

\* The destructor tells the worker to end.
LEMMA DestroyKeeps ==
  ASSUME CsvInv, Destroy
  PROVE  CsvInv'
<1>1. PICK w, m, n : w = thread.who /\ m = rd[w] /\ n = rd'[w]
  OBVIOUS
<1>2. /\ thread.pc = "destroy" /\ w \in Role
      /\ rd' = [rd EXCEPT ![w] =
                  IF Valid(m) THEN Terminated(m) ELSE m]
      /\ thread' = [thread EXCEPT !.pc = "join"]
      /\ UNCHANGED <<file, out, result, number>>
  <2>1. w \in Role
    BY <1>1, CsvFacts
  <2> QED
    BY <1>1, <2>1 DEF Destroy, At
<1>3. /\ thread'.pc = "join" /\ thread'.who = w /\ thread'.call = thread.call
      /\ thread' \in [pc : {"join"}, who : Role,
                      call : {"none", "open", "read", "reset", "count", "close"}]
  BY <1>1, <1>2 DEF CsvInv, ThreadInv
<1>4. /\ n = IF Valid(m) THEN Terminated(m) ELSE m
      /\ \A r \in Role \ {w} : rd'[r] = rd[r] /\ Phase(r)' = Phase(r)
      /\ Phase(w) = "gone" /\ Phase(w)' = "gone"
  BY <1>1, <1>2, <1>3, CsvFacts DEF Phase, PhaseAt
<1>5. m = Absent => n = Absent
  BY <1>4 DEF Valid, Absent
<1>6. ASSUME m # Absent PROVE n \in Reader /\ ReaderInv(w)'
  <2>1. m \in Reader /\ ReaderInv(w)
    BY <1>1, <1>2, <1>6, CsvFacts
  <2>2. n \in Reader /\ (Valid(n) <=> Valid(m))
    <3>1. m.worker \in {"none", "check", "blocked", "ended"}
      BY <2>1 DEF Reader
    <3>2. Woken(m.worker) \in {"none", "check", "blocked", "ended"}
          /\ (Woken(m.worker) = "none" <=> m.worker = "none")
      BY <3>1, WokenIs
    <3>3. CASE Valid(m)
      BY <1>4, <2>1, <3>2, <3>3 DEF Reader, Valid, Terminated
    <3>4. CASE ~Valid(m)
      BY <1>4, <2>1, <3>4
    <3> QED
      BY <3>3, <3>4
  <2>3. /\ n.buffer = m.buffer /\ n.data_begin = m.data_begin /\ n.data_end = m.data_end
        /\ n.desired = m.desired /\ n.got = m.got /\ n.pos = m.pos /\ n.file_line = m.file_line
    BY <1>4, <2>1 DEF Reader, Terminated
  <2> QED
    BY <1>1, <1>2, <1>4, <2>1, <2>2, <2>3, CsvFacts, ReaderSame
<1>7. n # Absent <=> m # Absent
  BY <1>5, <1>6, ReaderNotAbsent
<1>8. ReadersInv'
  <2>1. thread.pc # "undefined" /\ thread'.pc # "undefined" /\ file' = file /\ out' = out
    BY <1>2, <1>3
  <2> QED
    BY <1>1, <1>2, <1>4, <1>6, <1>7, <2>1, ReadersKept
<1>9. ThreadInv'
  BY <1>1, <1>2, <1>3 DEF CsvInv, ThreadInv
<1>10. ReadersThere'
  <2>1. rd["main"] # Absent
    BY <1>2 DEF CsvInv, ReadersThere
  <2>2. rd'["main"] # Absent
    BY <1>1, <1>4, <1>7, <2>1 DEF Role
  <2> QED
    BY <1>3, <2>2 DEF ReadersThere
<1>11. rd' \in [Role -> Reader \cup {Absent}]
  <2>1. n \in Reader \cup {Absent}
    BY <1>6, <1>7
  <2> QED
    BY <1>1, <1>2, <1>4, <2>1, CsvFacts
<1> QED
  BY <1>2, <1>8, <1>9, <1>10, <1>11, ResultsKept, InvAgain

\* A joined reader is gone.
LEMMA JoinKeeps ==
  ASSUME CsvInv, Join
  PROVE  CsvInv'
<1>1. PICK w : w = thread.who
  OBVIOUS
<1>2. /\ thread.pc = "join" /\ w \in Role
      /\ rd' = [rd EXCEPT ![w] = Absent]
      /\ \/ thread.call = "close" /\ thread' = [thread EXCEPT !.pc = "closed"]
         \/ thread.call # "close" /\ thread' = Idle
      /\ UNCHANGED <<file, out, result, number>>
  BY <1>1, CsvFacts DEF Join
<1>3. \/ w = "main" /\ thread.call = "close"
      \/ w = "old" /\ thread.call = "reset"
      \/ w = "count" /\ thread.call = "count"
  BY <1>1, <1>2 DEF CsvInv, ThreadInv
<1>4. \/ w = "main" /\ thread'.pc = "closed" /\ thread'.who = "main"
      \/ w # "main" /\ thread'.pc = "idle" /\ thread'.who = "main"
  BY <1>1, <1>2, <1>3 DEF CsvInv, ThreadInv, Idle
<1>5. /\ rd'[w] = Absent
      /\ \A r \in Role \ {w} : rd'[r] = rd[r] /\ Phase(r) = "rest" /\ Phase(r)' = "rest"
  BY <1>1, <1>2, <1>4, CsvFacts DEF Phase, PhaseAt
<1>6. ReadersInv'
  <2>1. thread.pc # "undefined" /\ thread'.pc # "undefined" /\ file' = file /\ out' = out
    BY <1>2, <1>4
  <2> QED
    BY <1>2, <1>5, <2>1, ReadersKept
<1>7. ThreadInv'
  BY <1>1, <1>2, <1>3, <1>4 DEF CsvInv, ThreadInv, Idle, Role
<1>8. ReadersThere'
  BY <1>2, <1>4, <1>5 DEF CsvInv, ReadersThere, Role
<1>9. rd' \in [Role -> Reader \cup {Absent}]
  BY <1>2, CsvFacts
<1> QED
  BY <1>2, <1>6, <1>7, <1>8, <1>9, ResultsKept, InvAgain

\* A reader just constructed is at the first line.
LEMMA NewReaderInv ==
  ASSUME file \in Seq(STRING), file' = file, NEW r \in Role, rd'[r] = NewReader,
         Phase(r)' = (IF Valid(NewReader) THEN "init" ELSE "rest"),
         r = "main" => out' = <<>>
  PROVE  rd'[r] \in Reader /\ ReaderInv(r)'
<1>1. PICK m, q : m = NewReader /\ q = Phase(r)'
  OBVIOUS
<1>2. /\ 0 \in 0..Len(file) /\ ReaderAt(m, file, 0, q)
      /\ LinesBefore(file, 0 + m.data_begin) = 0 /\ m.file_line = 0
  BY <1>1, NewReaderAt
<1>3. m \in Reader
  BY <1>2 DEF ReaderAt
<1>4. Passed(r, m, file, 0, q)'
  <2>1. q \notin Within
    BY <1>1 DEF Within
  <2>2. r = "main" => Len(out') = 0
    OBVIOUS
  <2> QED
    BY <1>2, <2>1, <2>2 DEF Passed
<1>5. 0 \in 0..Len(file') /\ rd'[r] = m
  BY <1>1, <1>2
<1> QED
  BY <1>1, <1>2, <1>3, <1>4, <1>5 DEF ReaderInv

\* get_item_number begins with a reader of its own.
LEMMA CountItemsKeeps ==
  ASSUME CsvInv, CountItems
  PROVE  CsvInv'
<1>1. /\ thread.pc = "idle" /\ thread.who = "main"
      /\ rd' = [rd EXCEPT !["count"] = NewReader]
      /\ thread' = [pc |-> IF Valid(NewReader) THEN "init" ELSE "next",
                    who |-> "count", call |-> "count"]
      /\ UNCHANGED <<file, out, result, number>>
  BY DEF CountItems, CountingReader, CsvInv, ThreadInv
<1>2. /\ "count" \in Role /\ rd'["count"] = NewReader
      /\ \A r \in Role \ {"count"} : rd'[r] = rd[r] /\ Phase(r)' = "rest" /\ Phase(r) = "rest"
      /\ Phase("count")' = (IF Valid(NewReader) THEN "init" ELSE "rest")
  BY <1>1, CsvFacts DEF Phase, PhaseAt, Role
<1>3. rd'["count"] \in Reader /\ ReaderInv("count")'
  BY <1>1, <1>2, CsvFacts, NewReaderInv
<1>4. ReadersInv'
  <2>1. thread.pc # "undefined" /\ thread'.pc # "undefined" /\ file' = file /\ out' = out
    BY <1>1
  <2> QED
    BY <1>2, <1>3, <2>1, ReadersKept
<1>5. ThreadInv'
  BY <1>1 DEF ThreadInv, Role
<1>6. ReadersThere'
  <2>1. rd'["main"] # Absent
    BY <1>1, <1>2 DEF CsvInv, ReadersThere, Role
  <2>2. rd'["count"] # Absent
    BY <1>3, ReaderNotAbsent
  <2> QED
    BY <1>1, <2>1, <2>2 DEF ReadersThere
<1>7. rd' \in [Role -> Reader \cup {Absent}]
  BY <1>1, <1>2, <1>3, CsvFacts
<1> QED
  BY <1>1, <1>4, <1>5, <1>6, <1>7, ResultsKept, InvAgain

\* reset_for_read: the reader becomes the old one, a new one begins the file again.
LEMMA ReopenKeeps ==
  ASSUME CsvInv, Reopen
  PROVE  CsvInv'
<1>1. /\ thread.pc = "reopen" /\ thread.who = "main" /\ thread.call = "reset"
      /\ rd' = [rd EXCEPT !["old"] = rd["main"], !["main"] = NewReader]
      /\ thread' = (IF Valid(NewReader) THEN [thread EXCEPT !.pc = "init"]
                      ELSE [thread EXCEPT !.pc = "destroy", !.who = "old"])
      /\ out' = <<>> /\ result' = "reset" /\ UNCHANGED <<file, number>>
  BY DEF Reopen, CsvInv, ThreadInv
<1>2. /\ Valid(NewReader) => thread'.pc = "init" /\ thread'.who = "main"
      /\ ~Valid(NewReader) => thread'.pc = "destroy" /\ thread'.who = "old"
      /\ thread'.call = "reset"
      /\ thread' \in [pc : {"init", "destroy"}, who : Role,
                      call : {"none", "open", "read", "reset", "count", "close"}]
  BY <1>1 DEF CsvInv, ThreadInv, Role
<1>3. /\ "main" \in Role /\ "old" \in Role /\ "count" \in Role
      /\ rd'["main"] = NewReader /\ rd'["old"] = rd["main"] /\ rd'["count"] = rd["count"]
  BY <1>1, CsvFacts DEF Role
<1>4. /\ Phase("main") = "rest" /\ Phase("main")' = (IF Valid(NewReader) THEN "init" ELSE "rest")
      /\ Phase("old")' \in {"rest", "gone"}
      /\ Phase("count") = "rest" /\ Phase("count")' = "rest"
  BY <1>1, <1>2 DEF Phase, PhaseAt
<1>5. rd'["main"] \in Reader /\ ReaderInv("main")'
  BY <1>1, <1>3, <1>4, CsvFacts, NewReaderInv
<1>6. rd'["old"] \in Reader /\ ReaderInv("old")'
  <2>1. PICK m, q : m = rd["main"] /\ q = Phase("old")'
    OBVIOUS
  <2>2. m \in Reader /\ ReaderInv("main")
    BY <1>1, <1>3, <2>1, CsvFacts DEF CsvInv, ReadersThere
  <2>3. PICK o \in 0..Len(file) : ReaderAt(m, file, o, "rest")
    BY <1>4, <2>1, <2>2 DEF ReaderInv
  <2>4. ReaderAt(m, file, o, q)
    BY <1>4, <2>1, <2>2, <2>3, CsvFacts, ReaderKept
  <2>5. Passed("old", m, file, o, q)'
    BY DEF Passed
  <2> QED
    BY <1>1, <1>3, <2>1, <2>2, <2>4, <2>5 DEF ReaderInv
<1>7. rd'["count"] # Absent => rd'["count"] \in Reader /\ ReaderInv("count")'
  BY <1>1, <1>3, <1>4, CsvFacts, ReaderSame
<1>8. ReadersInv'
  BY <1>2, <1>5, <1>6, <1>7 DEF ReadersInv, Role
<1>9. ThreadInv'
  BY <1>2 DEF ThreadInv
<1>10. ReadersThere'
  BY <1>2, <1>5, <1>6, ReaderNotAbsent DEF ReadersThere
<1>11. rd' \in [Role -> Reader \cup {Absent}]
  BY <1>1, <1>3, <1>5, CsvFacts
<1>12. LinesAreFile'
  BY <1>1 DEF LinesAreFile
<1>13. CountIsLines' /\ number' \in Nat \cup {NoNumber} /\ out' \in Seq(Lines(file'))
  BY <1>1 DEF CsvInv, CsvTyped, CountIsLines
<1> QED
  BY <1>1, <1>8, <1>9, <1>10, <1>11, <1>12, <1>13, InvAgain

\* The thread is in a reader that is there, for the plugin's caller or to count.
LEMMA InReader ==
  ASSUME CsvInv, thread.pc \in {"next", "scan"}
  PROVE  /\ thread.who \in {"main", "count"} /\ thread.who \in Role
         /\ thread.who = "main" <=> thread.call = "read"
         /\ thread.who = "count" <=> thread.call = "count"
         /\ rd[thread.who] # Absent /\ rd[thread.who] \in Reader
         /\ \E o \in 0..Len(file) :
              /\ ReaderAt(rd[thread.who], file, o, PhaseAt(thread.pc))
              /\ Passed(thread.who, rd[thread.who], file, o, PhaseAt(thread.pc))
<1>1. /\ thread.who \in {"main", "count"} /\ thread.who \in Role
      /\ thread.who = "main" <=> thread.call = "read"
      /\ thread.who = "count" <=> thread.call = "count"
  BY DEF CsvInv, ThreadInv
<1>2. rd[thread.who] # Absent
  BY DEF CsvInv, ReadersThere
<1>3. rd[thread.who] \in Reader /\ ReaderInv(thread.who)
  BY <1>1, <1>2, CsvFacts
<1>4. Phase(thread.who) = PhaseAt(thread.pc)
  BY DEF Phase
<1> QED
  BY <1>1, <1>2, <1>3, <1>4 DEF ReaderInv

\* A call that ends without a line, for a reason the file gives.
LEMMA NoLineKeeps ==
  ASSUME CsvInv, thread.pc \in {"next", "scan"}, NEW why, NoLine(why),
         UNCHANGED <<file, rd, out>>,
         why \in {"end", "line_length_limit_exceeded"},
         why = "end" =>
           /\ thread.call = "read" => Len(out) = Cardinality(LineStarts(file))
           /\ thread.call = "count" =>
                /\ rd["count"].file_line = Cardinality(LineStarts(file))
                /\ \A s \in LineStarts(file) : Fits(file, s),
         why # "end" /\ thread.call = "read" =>
           \E s \in LineStarts(file) : LinesBefore(file, s) = Len(out) /\ ~Fits(file, s)
  PROVE  CsvInv'
<1>1. PICK w : w = thread.who
  OBVIOUS
<1>2. /\ w \in {"main", "count"} /\ w \in Role
      /\ (w = "main" <=> thread.call = "read") /\ (w = "count" <=> thread.call = "count")
      /\ rd[w] # Absent
  BY <1>1, InReader
<1>3. \/ /\ thread.call = "read" /\ w = "main" /\ result' = why /\ thread' = Idle
         /\ number' = number
      \/ /\ thread.call = "count" /\ w = "count"
         /\ number' = (IF why = "end" THEN rd["count"].file_line ELSE NoNumber)
         /\ thread' = [thread EXCEPT !.pc = "destroy"] /\ result' = result
  BY <1>1, <1>2 DEF NoLine, At
<1>4. \/ w = "main" /\ thread'.pc = "idle" /\ thread'.who = "main" /\ thread' = Idle
      \/ /\ w = "count" /\ thread'.pc = "destroy" /\ thread'.who = "count"
         /\ thread'.call = "count"
         /\ thread' \in [pc : {"destroy"}, who : Role,
                         call : {"none", "open", "read", "reset", "count", "close"}]
  BY <1>1, <1>3 DEF CsvInv, ThreadInv, Idle
<1>5. /\ \A r \in Role \ {w} : Phase(r) = "rest" /\ Phase(r)' = "rest"
      /\ Phase(w) \in {"rest", "scan"} /\ Phase(w)' \in {"rest", "gone"}
      /\ w = "count" => Phase(w)' = "gone"
  BY <1>1, <1>4 DEF Phase, PhaseAt
<1>6. rd'[w] \in Reader /\ ReaderInv(w)'
  <2>1. rd[w] \in Reader /\ ReaderInv(w) /\ rd' = rd /\ file' = file /\ out' = out
    BY <1>2, CsvFacts
  <2> QED
    BY <1>2, <1>5, <2>1, CsvFacts, ReaderSame
<1>7. ReadersInv'
  <2>1. thread.pc # "undefined" /\ thread'.pc # "undefined" /\ file' = file /\ out' = out
    BY <1>4
  <2> QED
    BY <1>2, <1>5, <1>6, <2>1, ReadersKept
<1>8. ThreadInv'
  BY <1>4 DEF ThreadInv, Idle, Role
<1>9. ReadersThere'
  <2>1. rd["main"] # Absent
    BY DEF CsvInv, ReadersThere
  <2> QED
    BY <1>4, <2>1 DEF ReadersThere
<1>10. rd' \in [Role -> Reader \cup {Absent}] /\ out' \in Seq(Lines(file'))
  BY CsvFacts
<1>11. number' \in Nat \cup {NoNumber}
  <2>1. w = "count" => rd["count"].file_line \in Nat
    BY <1>1, InReader DEF Reader
  <2> QED
    BY <1>3, <2>1 DEF CsvInv, CsvTyped
<1>12. LinesAreFile'
  BY <1>3 DEF CsvInv, LinesAreFile
<1>13. CountIsLines'
  BY <1>3 DEF CsvInv, CountIsLines
<1> QED
  BY <1>7, <1>8, <1>9, <1>10, <1>11, <1>12, <1>13, InvAgain

\* next_line up to the scan: the end, the block at hand or the next one.
LEMMA NextLineKeeps ==
  ASSUME CsvInv, NextLine
  PROVE  CsvInv'
<1>1. PICK w, m, n : w = thread.who /\ m = rd[w] /\ n = rd'[w]
  OBVIOUS
<1>2. thread.pc = "next" /\ UNCHANGED <<file, out>> /\ PhaseAt(thread.pc) = "rest"
  BY DEF NextLine, PhaseAt
<1>3. /\ w \in {"main", "count"} /\ w \in Role
      /\ (w = "main" <=> thread.call = "read") /\ (w = "count" <=> thread.call = "count")
      /\ m # Absent /\ m \in Reader
  BY <1>1, <1>2, InReader
<1>4. PICK o \in 0..Len(file) : ReaderAt(m, file, o, "rest") /\ Passed(w, m, file, o, "rest")
  BY <1>1, <1>2, InReader
<1>5. /\ file \in Seq(STRING) /\ Len(file) \in Nat /\ BlockLen \in Nat /\ o \in Nat
      /\ m.data_begin \in Nat /\ m.data_end \in Nat /\ m.file_line \in Nat
  BY <1>3, CsvFacts DEF Reader
<1>6. CASE m.data_begin = m.data_end
  <2>1. NoLine("end") /\ UNCHANGED <<file, rd, out>>
    BY <1>1, <1>2, <1>6 DEF NextLine
  <2>2. PICK c : c = o + m.data_begin
    OBVIOUS
  <2>3. c \in Nat /\ c >= Len(file) /\ AtLine(file, c)
    BY <1>4, <1>5, <1>6, <2>2 DEF ReaderAt, InBuffer
  <2>4. /\ LinesBefore(file, c) = Cardinality(LineStarts(file))
        /\ \A s \in LineStarts(file) : Fits(file, s)
    BY <1>5, <2>3, AllPassed
  <2>5. thread.call = "read" => Len(out) = Cardinality(LineStarts(file))
    BY <1>3, <1>4, <2>2, <2>4 DEF Passed
  <2>6. thread.call = "count" => rd["count"].file_line = Cardinality(LineStarts(file))
    <3> SUFFICES ASSUME w = "count" PROVE m.file_line = LinesBefore(file, c)
      BY <1>1, <1>3, <2>4
    <3>1. m.file_line = LinesBefore(file, c) + 0
      BY <1>4, <2>2 DEF Passed, Within
    <3>2. LinesBefore(file, c) \in Nat
      BY <1>5, StartsFinite
    <3> QED
      BY <3>1, <3>2
  <2> QED
    BY <1>2, <2>1, <2>4, <2>5, <2>6, NoLineKeeps
<1>7. CASE m.data_begin # m.data_end
  <2>1. /\ rd' = [rd EXCEPT ![w] =
                    OneMore(IF m.data_begin < BlockLen THEN m ELSE Shifted(m))]
        /\ thread' = [thread EXCEPT !.pc =
                        IF m.data_begin >= BlockLen /\ Valid(m) THEN "finish" ELSE "scan"]
        /\ UNCHANGED <<result, number>>
    BY <1>1, <1>7 DEF NextLine, At
  <2>2. PICK q : q = IF m.data_begin >= BlockLen /\ Valid(m) THEN "wait" ELSE "scan"
    OBVIOUS
  <2>3. PICK p \in 0..Len(file) :
          /\ ReaderAt(n, file, p, q) /\ p + n.data_begin = o + m.data_begin
          /\ n.file_line = m.file_line + 1
    <3>1. n = OneMore(IF m.data_begin < BlockLen THEN m ELSE Shifted(m))
      BY <1>1, <1>3, <2>1, CsvFacts
    <3>2. CASE m.data_begin < BlockLen
      <4>1. n = OneMore(m) /\ q = "scan"
        BY <1>5, <2>2, <3>1, <3>2
      <4>2. ReaderAt(n, file, o, "scan") /\ n.data_begin = m.data_begin /\ n.file_line = m.file_line + 1
        BY <1>4, <1>5, <1>7, <3>2, <4>1, ReaderStays
      <4> QED
        BY <4>1, <4>2
    <3>3. CASE m.data_begin >= BlockLen
      <4>1. n = OneMore(Shifted(m)) /\ q = IF Valid(m) THEN "wait" ELSE "scan"
        BY <1>5, <2>2, <3>1, <3>3
      <4>2. /\ o + BlockLen \in 0..Len(file) /\ ReaderAt(n, file, o + BlockLen, q)
            /\ o + BlockLen + n.data_begin = o + m.data_begin
            /\ n.file_line = m.file_line + 1
        BY <1>4, <1>5, <1>7, <3>3, <4>1, ReaderShifted
      <4> QED
        BY <4>2
    <3> QED
      BY <1>5, <3>2, <3>3
  <2>4. /\ thread'.pc \in {"finish", "scan"} /\ thread'.who = w /\ thread'.call = thread.call
        /\ thread' \in [pc : {"finish", "scan"}, who : Role,
                        call : {"none", "open", "read", "reset", "count", "close"}]
        /\ PhaseAt(thread'.pc) = q
    BY <1>1, <2>1, <2>2 DEF CsvInv, ThreadInv, PhaseAt
  <2>5. /\ \A r \in Role \ {w} : rd'[r] = rd[r] /\ Phase(r) = "rest" /\ Phase(r)' = "rest"
        /\ Phase(w)' = q
    BY <1>1, <2>1, <2>4, CsvFacts DEF Phase
  <2>6. n \in Reader
    BY <2>3 DEF ReaderAt
  <2>7. ReaderInv(w)'
    <3>1. Passed(w, n, file, p, q)'
      <4>1. PICK c : c = o + m.data_begin /\ c = p + n.data_begin
        BY <2>3
      <4>2. LinesBefore(file, c) \in Nat
        BY <1>5, StartsFinite
      <4>3. q \in Within
        BY <2>2 DEF Within
      <4>4. w = "count" => n.file_line = LinesBefore(file, c) + 1
        <5> SUFFICES ASSUME w = "count" PROVE n.file_line = LinesBefore(file, c) + 1
          OBVIOUS
        <5>1. m.file_line = LinesBefore(file, c) + 0
          BY <1>4, <4>1 DEF Passed, Within
        <5> QED
          BY <1>5, <2>3, <4>2, <5>1
      <4>5. w = "main" => LinesBefore(file, c) = Len(out)
        BY <1>4, <4>1 DEF Passed
      <4> QED
        BY <1>2, <4>1, <4>3, <4>4, <4>5 DEF Passed
    <3> QED
      BY <1>1, <1>2, <2>3, <2>5, <3>1 DEF ReaderInv
  <2>8. ReadersInv'
    <3>1. thread.pc # "undefined" /\ thread'.pc # "undefined" /\ file' = file /\ out' = out
      BY <1>2, <2>4
    <3> QED
      BY <1>1, <1>3, <2>5, <2>6, <2>7, <3>1, ReadersKept
  <2>9. ThreadInv'
    BY <1>3, <2>4 DEF ThreadInv
  <2>10. ReadersThere'
    <3>1. rd["main"] # Absent /\ n # Absent
      BY <1>2, <2>6, ReaderNotAbsent DEF CsvInv, ReadersThere
    <3>2. rd'["main"] # Absent
      BY <1>1, <2>5, <3>1 DEF Role
    <3> QED
      BY <1>1, <2>4, <3>1, <3>2 DEF ReadersThere
  <2>11. rd' \in [Role -> Reader \cup {Absent}]
    BY <1>1, <1>3, <2>1, <2>6, CsvFacts
  <2> QED
    BY <1>2, <2>1, <2>8, <2>9, <2>10, <2>11, ResultsKept, InvAgain
<1> QED
  BY <1>6, <1>7

\* next_line: a line is cut out, or it is too long.
LEMMA ScanKeeps ==
  ASSUME CsvInv, Scan
  PROVE  CsvInv'
<1>1. PICK w, m, n, e : w = thread.who /\ m = rd[w] /\ n = rd'[w] /\ e = LineEnd(m)
  OBVIOUS
<1>2. thread.pc = "scan" /\ UNCHANGED file /\ PhaseAt(thread.pc) = "scan"
  BY DEF Scan, PhaseAt
<1>3. /\ w \in {"main", "count"} /\ w \in Role
      /\ (w = "main" <=> thread.call = "read") /\ (w = "count" <=> thread.call = "count")
      /\ m # Absent /\ m \in Reader
  BY <1>1, <1>2, InReader
<1>4. PICK o \in 0..Len(file) : ReaderAt(m, file, o, "scan") /\ Passed(w, m, file, o, "scan")
  BY <1>1, <1>2, InReader
<1>5. file \in Seq(STRING) /\ Len(file) \in Nat /\ m.file_line \in Nat /\ Len(out) \in Nat
      /\ out \in Seq(Lines(file))
  BY <1>3, CsvFacts DEF Reader
<1>6. PICK c : c = o + m.data_begin
  OBVIOUS
<1>7. LinesBefore(file, c) \in Nat
  BY <1>5, StartsFinite
<1>8. w = "main" => LinesBefore(file, c) = Len(out)
  BY <1>4, <1>6 DEF Passed
<1>9. CASE TooLong(m)
  <2>1. NoLine("line_length_limit_exceeded") /\ UNCHANGED <<file, rd, out>>
    BY <1>1, <1>2, <1>9 DEF Scan
  <2>2. c \in LineStarts(file) /\ ~Fits(file, c)
    BY <1>4, <1>5, <1>6, <1>9, ReaderGivesUp
  <2>3. thread.call = "read" =>
          \E s \in LineStarts(file) : LinesBefore(file, s) = Len(out) /\ ~Fits(file, s)
    BY <1>3, <1>8, <2>2
  <2> QED
    BY <1>2, <2>1, <2>3, NoLineKeeps
<1>10. CASE ~TooLong(m)
  <2>1. /\ rd' = [rd EXCEPT ![w] = PastLine(m, e)]
        /\ number' = number
        /\ \/ /\ w = "main" /\ result' = "line" /\ thread' = Idle
              /\ out' = Append(out, WithoutCR(Bytes(m.buffer, m.data_begin, e)))
           \/ /\ w = "count" /\ thread' = [thread EXCEPT !.pc = "next"]
              /\ out' = out /\ result' = result
    BY <1>1, <1>3, <1>10 DEF Scan, At
  <2>2. n = PastLine(m, e) /\ \A r \in Role \ {w} : rd'[r] = rd[r]
    BY <1>1, <1>3, <2>1, CsvFacts
  <2>3. /\ ReaderAt(n, file, o, "rest") /\ n.file_line = m.file_line
        /\ LinesBefore(file, o + n.data_begin) = LinesBefore(file, c) + 1
        /\ c \in LineStarts(file) /\ Fits(file, c)
        /\ Bytes(m.buffer, m.data_begin, e) = LineAt(file, c)
    BY <1>1, <1>4, <1>5, <1>6, <1>10, <2>2, ReaderScanned
  <2>4. PICK l : l = WithoutCR(LineAt(file, c))
    OBVIOUS
  <2>5. \/ w = "main" /\ result' = "line" /\ thread' = Idle /\ out' = Append(out, l)
        \/ /\ w = "count" /\ thread' = [thread EXCEPT !.pc = "next"]
           /\ out' = out /\ result' = result
    BY <2>1, <2>3, <2>4
  <2>6. l \in Lines(file)
    BY <2>3, <2>4 DEF Lines
  <2>7. w = "main" => /\ out' \in Seq(Lines(file)) /\ Len(out') = Len(out) + 1
                      /\ out'[Len(out) + 1] = l
                      /\ \A k \in 1..Len(out) : out'[k] = out[k]
    BY <1>5, <2>5, <2>6
  <2>8. \/ w = "main" /\ thread'.pc = "idle" /\ thread'.who = "main" /\ thread' = Idle
        \/ /\ w = "count" /\ thread'.pc = "next" /\ thread'.who = "count"
           /\ thread'.call = "count"
           /\ thread' \in [pc : {"next"}, who : Role,
                           call : {"none", "open", "read", "reset", "count", "close"}]
    BY <1>1, <1>3, <2>5 DEF CsvInv, ThreadInv, Idle
  <2>9. /\ \A r \in Role \ {w} : Phase(r) = "rest" /\ Phase(r)' = "rest"
        /\ Phase(w)' = "rest"
    BY <1>1, <2>8 DEF Phase, PhaseAt
  <2>10. n \in Reader
    BY <2>3 DEF ReaderAt
  <2>11. ReaderInv(w)'
    <3>1. Passed(w, n, file, o, "rest")'
      <4>1. w = "main" => LinesBefore(file, o + n.data_begin) = Len(out')
        BY <1>8, <2>3, <2>7
      <4>2. w = "count" => n.file_line = LinesBefore(file, o + n.data_begin) + 0
        <5> SUFFICES ASSUME w = "count" PROVE n.file_line = LinesBefore(file, o + n.data_begin) + 0
          OBVIOUS
        <5>1. m.file_line = LinesBefore(file, c) + 1
          BY <1>4, <1>6 DEF Passed, Within
        <5> QED
          BY <1>7, <2>3, <5>1
      <4> QED
        BY <1>2, <4>1, <4>2 DEF Passed, Within
    <3> QED
      BY <1>1, <1>2, <2>3, <2>9, <3>1 DEF ReaderInv
  <2>12. ReadersInv'
    <3>1. thread.pc # "undefined" /\ thread'.pc # "undefined" /\ file' = file
      BY <1>2, <2>8
    <3>2. \A r \in Role \ {w} : r = "main" => out' = out
      BY <1>3, <2>5
    <3> QED
      BY <1>1, <1>3, <2>2, <2>9, <2>10, <2>11, <3>1, <3>2, ReadersKept
  <2>13. ThreadInv'
    BY <2>8 DEF ThreadInv, Idle, Role
  <2>14. ReadersThere'
    <3>1. rd["main"] # Absent /\ n # Absent
      BY <1>2, <2>10, ReaderNotAbsent DEF CsvInv, ReadersThere
    <3>2. rd'["main"] # Absent
      BY <1>1, <2>2, <3>1 DEF Role
    <3> QED
      BY <1>1, <2>8, <3>1, <3>2 DEF ReadersThere
  <2>15. rd' \in [Role -> Reader \cup {Absent}] /\ number' \in Nat \cup {NoNumber}
    BY <1>1, <1>3, <2>1, <2>2, <2>10, CsvFacts DEF CsvInv, CsvTyped
  <2>16. out' \in Seq(Lines(file'))
    BY <1>2, <1>5, <2>5, <2>7
  <2>17. LinesAreFile'
    <3>1. CASE w = "main"
      <4>1. result' = "line"
        BY <2>5, <3>1
      <4>2. ASSUME NEW k \in DOMAIN out'
            PROVE  \E s \in LineStarts(file) :
                     /\ LinesBefore(file, s) = k - 1 /\ Fits(file, s)
                     /\ out'[k] = WithoutCR(LineAt(file, s))
        <5>1. k \in 1..(Len(out) + 1)
          BY <1>5, <2>7, <3>1
        <5>2. CASE k = Len(out) + 1
          <6>1. LinesBefore(file, c) = k - 1
            BY <1>5, <1>8, <3>1, <5>2
          <6> QED
            BY <2>3, <2>4, <2>7, <3>1, <5>2, <6>1
        <5>3. CASE k # Len(out) + 1
          <6>1. k \in DOMAIN out /\ k \in 1..Len(out)
            BY <1>5, <5>1, <5>3
          <6>2. out'[k] = out[k]
            BY <2>7, <3>1, <6>1
          <6> QED
            BY <6>1, <6>2 DEF CsvInv, LinesAreFile
        <5> QED
          BY <5>2, <5>3
      <4> QED
        BY <1>2, <4>1, <4>2 DEF LinesAreFile
    <3>2. CASE w # "main"
      BY <1>2, <2>5, <3>2 DEF CsvInv, LinesAreFile
    <3> QED
      BY <3>1, <3>2
  <2>18. CountIsLines'
    BY <1>2, <2>1 DEF CsvInv, CountIsLines
  <2> QED
    BY <1>2, <2>12, <2>13, <2>14, <2>15, <2>16, <2>17, <2>18, InvAgain
<1> QED
  BY <1>9, <1>10

\* What a read of the worker leaves in a reader.
LEMMA FetchingIs ==
  ASSUME file \in Seq(STRING), NEW m \in Reader, m.pos <= Len(file), m.desired # -1,
         NEW k, k = ReadCount(m.pos, m.desired), NEW n, n = Fetching(m, k)
  PROVE  /\ k = Smaller(m.desired, Len(file) - m.pos) /\ k \in Nat /\ n.pos <= Len(file)
         /\ n.buffer = [i \in DOMAIN m.buffer |->
                          IF i \in 2 * BlockLen..(2 * BlockLen + k - 1)
                            THEN file[m.pos + i - 2 * BlockLen + 1] ELSE m.buffer[i]]
         /\ n \in Reader
         /\ n.data_begin = m.data_begin /\ n.data_end = m.data_end /\ n.desired = -1
         /\ n.got = k /\ n.pos = m.pos + k /\ Valid(n) /\ n.file_line = m.file_line
<1>1. /\ BlockLen \in Nat \ {0, 1} /\ Len(file) \in Nat /\ m.pos \in Nat /\ m.desired = BlockLen
  BY CsvAssumption DEF Reader
<1>2. k = Smaller(m.desired, Len(file) - m.pos) /\ k \in Nat /\ m.pos + k <= Len(file)
      /\ m.pos + k \in Nat
  BY <1>1 DEF ReadCount, Smaller
<1>3. /\ n.buffer = Filled(m.buffer, 2 * BlockLen, m.pos, k)
      /\ n.data_begin = m.data_begin /\ n.data_end = m.data_end /\ n.desired = -1
      /\ n.got = k /\ n.pos = m.pos + k /\ n.file_line = m.file_line
      /\ n.worker = (IF k = 0 THEN "ended" ELSE "check")
      /\ n = [m EXCEPT !.buffer = n.buffer, !.pos = n.pos, !.got = n.got, !.desired = -1,
                       !.worker = n.worker]
  BY DEF Fetching, Reader
<1>4. n.buffer = [i \in DOMAIN m.buffer |->
                          IF i \in 2 * BlockLen..(2 * BlockLen + k - 1)
                            THEN file[m.pos + i - 2 * BlockLen + 1] ELSE m.buffer[i]]
  BY <1>3 DEF Filled
<1>5. n.buffer \in [0..(3 * BlockLen - 1) -> Byte]
  <2>1. DOMAIN m.buffer = 0..(3 * BlockLen - 1) /\ \A i \in DOMAIN m.buffer : m.buffer[i] \in Byte
    BY DEF Reader
  <2>2. ASSUME NEW i \in 2 * BlockLen..(2 * BlockLen + k - 1)
        PROVE  file[m.pos + i - 2 * BlockLen + 1] \in Byte
    <3>1. PICK j : j = m.pos + i - 2 * BlockLen + 1
      OBVIOUS
    <3>2. j \in 1..Len(file)
      <4>1. PICK p : p = m.pos
        OBVIOUS
      <4>2. p \in Nat /\ p + k <= Len(file) /\ k \in Nat /\ i \in Int /\ Len(file) \in Nat
            /\ BlockLen \in Nat /\ j = p + i - 2 * BlockLen + 1
        BY <1>1, <1>2, <3>1, <4>1
      <4>3. i >= 2 * BlockLen /\ i <= 2 * BlockLen + k - 1
        BY <4>2
      <4> QED
        BY <4>2, <4>3
    <3>3. file[j] \in STRING
      BY <3>2
    <3> QED
      BY <3>1, <3>3 DEF Byte
  <2> QED
    BY <1>4, <2>1, <2>2
<1>6. n.worker \in {"none", "check", "blocked", "ended"} /\ n.worker # "none"
  BY <1>3
<1>7. n \in Reader
  <2>1. n.pos \in Nat /\ n.got \in Nat
    BY <1>2, <1>3
  <2> QED
    BY <1>3, <1>5, <1>6, <2>1 DEF Reader
<1> QED
  BY <1>2, <1>3, <1>4, <1>6, <1>7 DEF Valid

\* A step of a worker thread, also of one whose stream is gone.
LEMMA WorkerStepKeeps ==
  ASSUME CsvInv, NEW w \in Role, WorkerStep(w)
  PROVE  CsvInv'
<1>1. PICK m, n, k : m = rd[w] /\ n = rd'[w] /\ k = ReadCount(m.pos, m.desired)
  OBVIOUS
<1>2. /\ m.worker = "check" /\ UNCHANGED <<file, out, result, number>>
      /\ \/ rd' = [rd EXCEPT ![w].worker = "blocked"] /\ thread' = thread
         \/ rd' = [rd EXCEPT ![w].worker = "ended"] /\ thread' = thread
         \/ /\ m.desired # -1 /\ rd' = [rd EXCEPT ![w] = Fetching(m, k)]
            /\ thread' = FinishNotified(w, k)
         \/ rd' = rd /\ thread' = [thread EXCEPT !.pc = "undefined"]
  BY <1>1 DEF WorkerStep, At
<1>3. m # Absent /\ Valid(m)
  BY <1>2 DEF Absent, Valid
<1>4. /\ m \in Reader /\ Bounded(m, file) /\ file \in Seq(STRING)
      /\ thread.pc # "undefined" => ReaderInv(w)
  BY <1>1, <1>3, CsvFacts, ReaderBounded DEF CsvInv, ReadersInv
<1>5. CASE rd' = rd /\ thread' = [thread EXCEPT !.pc = "undefined"]
  <2>1. thread'.pc = "undefined" /\ ThreadInv'
    BY <1>5 DEF CsvInv, ThreadInv
  <2>2. ASSUME NEW r \in Role, rd[r] # Absent PROVE rd[r] \in Reader /\ Bounded(rd[r], file)
    BY <2>2, CsvFacts, ReaderBounded DEF CsvInv, ReadersInv
  <2>3. ReadersInv'
    BY <1>2, <1>5, <2>1, <2>2 DEF ReadersInv
  <2>4. ReadersThere'
    BY <2>1 DEF ReadersThere
  <2>5. rd' \in [Role -> Reader \cup {Absent}]
    BY <1>5, CsvFacts
  <2> QED
    BY <1>2, <2>1, <2>3, <2>4, <2>5, ResultsKept, InvAgain
<1>6. ASSUME \A r \in Role \ {w} : rd'[r] = rd[r], rd' \in [Role -> Reader \cup {Absent}], n \in Reader,
             thread'.pc = thread.pc \/ (thread.pc = "blocked" /\ thread'.pc = "finish"),
             thread'.who = thread.who, ThreadInv',
             thread.pc # "undefined" => ReaderInv(w)',
             Bounded(n, file)
      PROVE  CsvInv'
  <2>1. n # Absent
    BY <1>6, ReaderNotAbsent
  <2>2. ReadersThere'
    <3>1. \A r \in Role : rd[r] # Absent => rd'[r] # Absent
      BY <1>1, <1>6, <2>1
    <3>2. "main" \in Role /\ thread.who \in Role
      BY CsvFacts DEF Role
    <3> QED
      BY <1>6, <3>1, <3>2 DEF CsvInv, ReadersThere
  <2>3. \A r \in Role : Phase(r)' = Phase(r)
    BY <1>6 DEF Phase, PhaseAt
  <2>4. ReadersInv'
    <3>1. CASE thread.pc = "undefined"
      <4>1. thread'.pc = "undefined"
        BY <1>6, <3>1
      <4>2. ASSUME NEW r \in Role, rd'[r] # Absent
            PROVE  rd'[r] \in Reader /\ Bounded(rd'[r], file)
        BY <1>1, <1>6, <3>1, <4>2 DEF CsvInv, ReadersInv
      <4> QED
        BY <1>2, <4>1, <4>2 DEF ReadersInv
    <3>2. CASE thread.pc # "undefined"
      <4>1. thread'.pc # "undefined" /\ file' = file /\ out' = out
        BY <1>2, <1>6, <3>2
      <4> QED
        BY <1>1, <1>6, <2>3, <3>2, <4>1, ReadersKept
    <3> QED
      BY <3>1, <3>2
  <2> QED
    BY <1>2, <1>6, <2>2, <2>4, ResultsKept, InvAgain
<1>7. CASE (\E x \in {"blocked", "ended"} : rd' = [rd EXCEPT ![w].worker = x]) /\ thread' = thread
  <2>1. PICK x \in {"blocked", "ended"} : rd' = [rd EXCEPT ![w].worker = x]
    BY <1>7
  <2>2. n = [m EXCEPT !.worker = x] /\ \A r \in Role \ {w} : rd'[r] = rd[r]
    BY <1>1, <2>1, CsvFacts
  <2>3. n \in Reader /\ Valid(n)
    BY <1>4, <2>2 DEF Reader, Valid
  <2>4. /\ n.buffer = m.buffer /\ n.data_begin = m.data_begin /\ n.data_end = m.data_end
        /\ n.desired = m.desired /\ n.got = m.got /\ n.pos = m.pos /\ n.file_line = m.file_line
    BY <1>4, <2>2 DEF Reader
  <2>5. ThreadInv' /\ thread'.pc = thread.pc /\ thread'.who = thread.who
    BY <1>7 DEF CsvInv, ThreadInv
  <2>6. \A r \in Role : Phase(r)' = Phase(r)
    BY <1>7 DEF Phase
  <2>7. thread.pc # "undefined" => ReaderInv(w)'
    BY <1>1, <1>2, <1>3, <1>4, <2>3, <2>4, <2>6, ReaderSame
  <2>8. Bounded(n, file)
    BY <1>4, <2>4 DEF Bounded
  <2>9. rd' \in [Role -> Reader \cup {Absent}]
    BY <1>1, <2>1, <2>2, <2>3, CsvFacts
  <2> QED
    BY <1>6, <2>2, <2>3, <2>5, <2>7, <2>8, <2>9
<1>8. CASE /\ m.desired # -1 /\ rd' = [rd EXCEPT ![w] = Fetching(m, k)]
           /\ thread' = FinishNotified(w, k)
  <2>1. n = Fetching(m, k) /\ \A r \in Role \ {w} : rd'[r] = rd[r]
    BY <1>1, <1>8, CsvFacts
  <2>2. m.pos <= Len(file)
    BY <1>4 DEF Bounded
  <2>3. /\ k = Smaller(m.desired, Len(file) - m.pos) /\ k \in Nat /\ n.pos <= Len(file)
        /\ n.buffer = [i \in DOMAIN m.buffer |->
                          IF i \in 2 * BlockLen..(2 * BlockLen + k - 1)
                            THEN file[m.pos + i - 2 * BlockLen + 1] ELSE m.buffer[i]]
        /\ n \in Reader
        /\ n.data_begin = m.data_begin /\ n.data_end = m.data_end /\ n.desired = -1
        /\ n.got = k /\ n.pos = m.pos + k /\ Valid(n) /\ n.file_line = m.file_line
    BY <1>1, <1>4, <1>8, <2>1, <2>2, FetchingIs
  <2>4. /\ thread'.pc = thread.pc \/ (thread.pc = "blocked" /\ thread'.pc = "finish")
        /\ thread'.who = thread.who /\ ThreadInv'
    <3>1. CASE thread' = thread
      BY <3>1 DEF CsvInv, ThreadInv
    <3>2. CASE thread.pc = "blocked" /\ thread' = [thread EXCEPT !.pc = "finish"]
      <4>1. /\ thread'.pc = "finish" /\ thread'.who = thread.who /\ thread'.call = thread.call
            /\ thread' \in [pc : {"finish"}, who : Role,
                            call : {"none", "open", "read", "reset", "count", "close"}]
        BY <3>2 DEF CsvInv, ThreadInv
      <4> QED
        BY <3>2, <4>1 DEF CsvInv, ThreadInv
    <3> QED
      BY <1>8, <3>1, <3>2 DEF FinishNotified
  <2>5. Phase(w)' = Phase(w)
    BY <2>4 DEF Phase, PhaseAt
  <2>6. ASSUME thread.pc # "undefined" PROVE ReaderInv(w)'
    <3>1. PICK ph : ph = Phase(w)
      OBVIOUS
    <3>2. PICK o \in 0..Len(file) : ReaderAt(m, file, o, ph) /\ Passed(w, m, file, o, ph)
      BY <1>1, <1>4, <2>6, <3>1 DEF ReaderInv
    <3>3. ReaderAt(n, file, o, ph)
      BY <1>3, <1>4, <1>8, <2>3, <3>2, ReaderFilled
    <3>4. Passed(w, n, file, o, ph)'
      BY <1>2, <2>3, <3>2 DEF Passed
    <3> QED
      BY <1>1, <1>2, <2>5, <3>1, <3>3, <3>4 DEF ReaderInv
  <2>7. Bounded(n, file)
    BY <1>4, <2>3 DEF Bounded
  <2>8. rd' \in [Role -> Reader \cup {Absent}]
    BY <1>1, <1>8, <2>1, <2>3, CsvFacts
  <2> QED
    BY <1>6, <2>1, <2>3, <2>4, <2>6, <2>7, <2>8
<1> QED
  BY <1>2, <1>5, <1>7, <1>8

\* The invariant holds of a plugin just created.
LEMMA CsvInitInv ==
  ASSUME CsvInit
  PROVE  CsvInv
<1>1. /\ file \in Files /\ file \in Seq(STRING)
      /\ rd = [r \in Role |-> IF r = "main" THEN NewReader ELSE Absent]
      /\ thread = [pc |-> IF Valid(NewReader) THEN "init" ELSE "idle", who |-> "main", call |-> "open"]
      /\ out = <<>> /\ result = "none" /\ number = NoNumber
  BY CsvAssumption DEF CsvInit
<1>2. PICK m, q : m = NewReader /\ q = Phase("main")
  OBVIOUS
<1>3. q = IF Valid(NewReader) THEN "init" ELSE "rest"
  BY <1>1, <1>2 DEF Phase, PhaseAt
<1>4. /\ rd["main"] = m /\ \A r \in Role : r # "main" => rd[r] = Absent
      /\ "main" \in Role
  BY <1>1, <1>2 DEF Role
<1>5. /\ 0 \in 0..Len(file) /\ ReaderAt(m, file, 0, q)
      /\ LinesBefore(file, 0 + m.data_begin) = 0
  BY <1>1, <1>2, <1>3, NewReaderAt
<1>6. m \in Reader
  BY <1>5 DEF ReaderAt
<1>7. Passed("main", m, file, 0, q)
  BY <1>1, <1>5 DEF Passed
<1>8. ReaderInv("main")
  BY <1>2, <1>4, <1>5, <1>7 DEF ReaderInv
<1>9. thread.pc \in {"init", "idle"} /\ thread.who = "main" /\ thread.call = "open"
  BY <1>1
<1>10. ReadersInv
  BY <1>4, <1>6, <1>8, <1>9 DEF ReadersInv
<1>11. ThreadInv
  BY <1>1, <1>9 DEF ThreadInv, Role
<1>12. ReadersThere
  BY <1>4, <1>6, <1>9, ReaderNotAbsent DEF ReadersThere
<1>13. LinesAreFile /\ CountIsLines
  BY <1>1 DEF LinesAreFile, CountIsLines
<1>14. CsvTyped
  <2>1. rd \in [Role -> Reader \cup {Absent}]
    BY <1>1, <1>2, <1>6
  <2> QED
    BY <1>1, <2>1 DEF CsvTyped
<1> QED
  BY <1>10, <1>11, <1>12, <1>13, <1>14 DEF CsvInv

\* The invariant implies the property.
LEMMA CsvInvLines ==
  ASSUME CsvInv
  PROVE  LinesSound
<1>1. ASSUME NEW r \in Role, rd[r] # Absent PROVE rd[r] \in Reader /\ Bounded(rd[r], file)
  BY <1>1, CsvFacts, ReaderBounded DEF CsvInv, ReadersInv
<1>2. CsvTypeOK
  <2>1. /\ thread.pc \in {"idle", "init", "start", "finish", "blocked", "next", "scan",
                          "destroy", "join", "reopen", "closed", "undefined"}
        /\ thread.who \in Role /\ number \in Nat \cup {NoNumber}
    BY DEF CsvInv, CsvTyped, ThreadInv
  <2>2. ASSUME NEW r \in Role
        PROVE  /\ rd[r].worker \in {"none", "check", "blocked", "ended"}
               /\ rd[r] # Absent =>
                    /\ rd[r].data_begin \in 0..rd[r].data_end
                    /\ rd[r].data_end \in 0..(2 * BlockLen)
                    /\ rd[r].pos \in 0..Len(file)
    <3>1. CASE rd[r] = Absent
      BY <3>1 DEF Absent
    <3>2. CASE rd[r] # Absent
      <4>1. PICK m : m = rd[r]
        OBVIOUS
      <4>2. m \in Reader /\ Bounded(m, file) /\ BlockLen \in Nat /\ Len(file) \in Nat
        BY <1>1, <3>2, <4>1, CsvFacts
      <4>3. /\ m.data_begin \in Nat /\ m.data_end \in Nat /\ m.pos \in Nat
            /\ m.worker \in {"none", "check", "blocked", "ended"}
        BY <4>2 DEF Reader
      <4> QED
        BY <4>1, <4>2, <4>3 DEF Bounded
    <3> QED
      BY <3>1, <3>2
  <2> QED
    BY <2>1, <2>2 DEF CsvTypeOK
<1>3. BlockOwned
  <2> SUFFICES ASSUME NEW r \in Role, Valid(rd[r]), rd[r].desired # -1,
                      thread.who = r, thread.pc = "start"
               PROVE  FALSE
    BY DEF BlockOwned
  <2>1. rd[r] # Absent
    BY DEF Valid, Absent
  <2>2. ReaderInv(r) /\ Phase(r) = "start"
    BY <2>1, CsvFacts DEF Phase, PhaseAt
  <2> QED
    BY <2>2 DEF ReaderInv, ReaderAt, Fetched, Ahead
<1> QED
  BY <1>2, <1>3 DEF CsvInv, LinesSound

\* Every file, every block length, every timing of the worker threads: the lines
\* read_item_data returns are those of the file in order, the end and the line too long are
\* reported where they are, get_item_number counts them, and the block read ahead is never
\* used by both threads (LineReader and AsynchronousReader of csv.h).
THEOREM LinesSoundHolds == CsvSpec => []LinesSound
<1>1. CsvInit => CsvInv
  BY CsvInitInv
<1>2. CsvInv /\ [CsvNext]_cvars => CsvInv'
  <2> SUFFICES ASSUME CsvInv, [CsvNext]_cvars PROVE CsvInv'
    OBVIOUS
  <2>1. CASE \E r \in Role : WorkerStep(r)
    BY <2>1, WorkerStepKeeps
  <2>2. CASE StartRead
    BY <2>2, StartReadKeeps
  <2>3. CASE FinishRead
    BY <2>3, FinishReadKeeps
  <2>4. CASE Destroy
    BY <2>4, DestroyKeeps
  <2>5. CASE Join
    BY <2>5, JoinKeeps
  <2>6. CASE NextLine
    BY <2>6, NextLineKeeps
  <2>7. CASE Scan
    BY <2>7, ScanKeeps
  <2>8. CASE ReadItem
    BY <2>8, ReadItemKeeps
  <2>9. CASE ResetStream
    BY <2>9, ResetStreamKeeps
  <2>10. CASE Reopen
    BY <2>10, ReopenKeeps
  <2>11. CASE CountItems
    BY <2>11, CountItemsKeeps
  <2>12. CASE Close
    BY <2>12, CloseKeeps
  <2>13. CASE UNCHANGED cvars
    BY <2>13 DEF cvars, CsvInv, CsvTyped, ThreadInv, ReadersInv, ReaderInv, Passed, Phase,
                 ReadersThere, LinesAreFile, CountIsLines
  <2> QED
    BY <2>1, <2>2, <2>3, <2>4, <2>5, <2>6, <2>7, <2>8, <2>9, <2>10, <2>11, <2>12, <2>13
       DEF CsvNext
<1>3. CsvInv => LinesSound
  BY CsvInvLines
<1> QED
  BY <1>1, <1>2, <1>3, PTL DEF CsvSpec
=============================================================================
