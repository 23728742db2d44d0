-------------------------- MODULE SealedDataProofs --------------------------
(***************************************************************************)
(* What TLAPS proves of the files: the block file, the data sealed in it   *)
(* (SealedData over BlockFile), the key files of the host (KeyStore) and   *)
(* the streams of the enclave's files (FileBridge).                        *)
(*                                                                         *)
(* For items and blocks of any number and size, and for readers with       *)
(* buffers of any size, next_item returns the items in the order in which  *)
(* they were appended, the block infos of a closed file point where its    *)
(* blocks are, and what a writer that died has left behind does not open.  *)
(*                                                                         *)
(* For data, batches, blocks and providers of any number and size, a       *)
(* published hash is that of the data in the closed file, and a hash check *)
(* that passes means that the engine was given the sealed data, whatever   *)
(* happened to the file in between.                                        *)
(*                                                                         *)
(* The key files are for any set of keys and any naming of their files,    *)
(* the streams for any width of a stream number.                           *)
(***************************************************************************)
EXTENDS SealedData, KeyStore, FileBridge, ListLemmas, FiniteSetTheorems

-----------------------------------------------------------------------------
(* Part I: the block file.                                                 *)

Info == [start_item : Nat, end_item : Nat, start_pos : Nat, end_pos : Nat]
ReadResult == [st : {"succ", "small_buf", "eof"}, data : Seq(Int)]

\* Where the next item is written.
EndPos(bs) == IF bs = <<>> THEN 0 ELSE Last(bs).end_pos

\* The block file: the writer's block infos end where the file does.
FileInv ==
  /\ disk \in Seq(Int)
  /\ mode \in {"none", "out", "closed", "torn", "in"}
  /\ header \in [item_number : Nat, block_number : Nat]
  /\ infos \in Seq(Info)
  /\ pos \in Nat /\ pos <= Len(disk) /\ (mode # "in" => pos = 0)
  /\ eof \in BOOLEAN
  /\ log \in Seq(Seq(Int))
  /\ got \in Seq(ReadResult)
  /\ mode = "none" => infos = <<>>
  /\ mode = "out" => Len(disk) = EndPos(infos)

-----------------------------------------------------------------------------
(* The words of the file.                                                  *)

\* An item behind its length.
Frame(x) == <<Len(x)>> \o x

LEMMA FrameWords ==
  ASSUME NEW S, Nat \subseteq S, NEW x \in Seq(S)
  PROVE  /\ Frame(x) \in Seq(S) /\ Len(Frame(x)) = Len(x) + 1
         /\ Frame(x)[1] = Len(x)
         /\ \A j \in 1 .. Len(x) : Frame(x)[j + 1] = x[j]
<1>1. Len(x) \in S /\ Len(x) \in Nat
  OBVIOUS
<1>2. <<Len(x)>> \in Seq(S) /\ Len(<<Len(x)>>) = 1 /\ <<Len(x)>>[1] = Len(x)
  BY <1>1
<1> QED
  BY <1>1, <1>2, ConcatProperties DEF Frame

\* The list of the frames.
FrameList(l) == [k \in DOMAIN l |-> <<Len(l[k])>> \o l[k]]

LEMMA FrameListTyped ==
  ASSUME NEW S, Nat \subseteq S, NEW l \in Seq(Seq(S))
  PROVE  /\ FrameList(l) \in Seq(Seq(S)) /\ Len(FrameList(l)) = Len(l)
         /\ \A k \in 1 .. Len(l) : FrameList(l)[k] = Frame(l[k])
<1>1. Len(l) \in Nat /\ DOMAIN l = 1 .. Len(l)
  OBVIOUS
<1>2. \A k \in 1 .. Len(l) : Frame(l[k]) \in Seq(S)
  BY <1>1, FrameWords
<1>3. FrameList(l) = [k \in 1 .. Len(l) |-> Frame(l[k])]
  BY <1>1 DEF FrameList, Frame
<1> QED
  BY <1>1, <1>2, <1>3

LEMMA FramesTyped ==
  ASSUME NEW S, Nat \subseteq S, NEW l \in Seq(Seq(S))
  PROVE  Frames(l) \in Seq(S)
BY FrameListTyped, FlattenTyped DEF Frames, FrameList

LEMMA FramesEmpty == Frames(<<>>) = <<>>
BY DEF Frames, FlattenSeq

LEMMA FramesAppend ==
  ASSUME NEW S, Nat \subseteq S, NEW l \in Seq(Seq(S)), NEW x \in Seq(S)
  PROVE  Frames(Append(l, x)) = Frames(l) \o Frame(x)
<1> DEFINE m == Append(l, x)
<1>1. /\ m \in Seq(Seq(S)) /\ Len(m) = Len(l) + 1 /\ Len(l) \in Nat
      /\ m[Len(l) + 1] = x /\ \A k \in 1 .. Len(l) : m[k] = l[k]
  OBVIOUS
<1>2. Frame(x) \in Seq(S)
  BY FrameWords
<1> HIDE DEF m
<1>3. FrameList(m) = Append(FrameList(l), Frame(x))
  <2>1. PICK f : f = FrameList(l)
    OBVIOUS
  <2>2. PICK g : g = FrameList(m)
    OBVIOUS
  <2>3. /\ f \in Seq(Seq(S)) /\ Len(f) = Len(l)
        /\ \A k \in 1 .. Len(l) : f[k] = Frame(l[k])
    BY <2>1, FrameListTyped
  <2>4. /\ g \in Seq(Seq(S)) /\ Len(g) = Len(m)
        /\ \A k \in 1 .. Len(m) : g[k] = Frame(m[k])
    BY <1>1, <2>2, FrameListTyped
  <2>5. Append(f, Frame(x)) \in Seq(Seq(S)) /\ Len(Append(f, Frame(x))) = Len(g)
    BY <1>1, <1>2, <2>3, <2>4
  <2>6. ASSUME NEW k \in 1 .. Len(g) PROVE g[k] = Append(f, Frame(x))[k]
    <3>1. CASE k = Len(l) + 1
      BY <1>1, <1>2, <2>3, <2>4, <3>1
    <3>2. CASE k # Len(l) + 1
      <4>1. k \in 1 .. Len(l)
        BY <1>1, <2>4, <3>2
      <4> QED
        BY <1>1, <1>2, <2>3, <2>4, <4>1
    <3> QED
      BY <3>1, <3>2
  <2>7. g = Append(f, Frame(x))
    BY <2>4, <2>5, <2>6, SeqEqual
  <2> QED
    BY <2>1, <2>2, <2>7
<1>4. FrameList(l) \in Seq(Seq(S))
  BY FrameListTyped
<1>5. FlattenSeq(FrameList(m)) = FlattenSeq(FrameList(l)) \o Frame(x)
  BY <1>2, <1>3, <1>4, FlattenAppend
<1>6. Frames(m) = FlattenSeq(FrameList(m)) /\ Frames(l) = FlattenSeq(FrameList(l))
  BY DEF Frames, FrameList
<1> QED
  BY <1>5, <1>6 DEF m

\* The file up to an item, the item, and what comes after it.
LEMMA FramesCut ==
  ASSUME NEW S, Nat \subseteq S, NEW l \in Seq(Seq(S)), NEW i \in Nat, i < Len(l)
  PROVE  /\ Frames(SubSeq(l, 1, i + 1)) = Frames(SubSeq(l, 1, i)) \o Frame(l[i + 1])
         /\ \E t \in Seq(S) : Frames(l) = Frames(SubSeq(l, 1, i + 1)) \o t
<1> DEFINE F(m) == Frames(SubSeq(l, 1, m))
<1>1. PICK n \in Nat : n = Len(l)
  OBVIOUS
<1>2. ASSUME NEW m \in Nat, m <= n
      PROVE  F(m) \in Seq(S)
  <2>1. SubSeq(l, 1, m) \in Seq(Seq(S))
    BY <1>1, <1>2, SubSeqTyped
  <2> QED
    BY <2>1, FramesTyped
<1>3. ASSUME NEW m \in Nat, m < n
      PROVE  F(m + 1) = F(m) \o Frame(l[m + 1]) /\ Frame(l[m + 1]) \in Seq(S)
  <2>1. SubSeq(l, 1, m + 1) = Append(SubSeq(l, 1, m), l[m + 1])
    BY <1>1, <1>3, TakeAppend
  <2>2. l[m + 1] \in Seq(S) /\ SubSeq(l, 1, m) \in Seq(Seq(S))
    BY <1>1, <1>3, SubSeqTyped
  <2>3. PICK k : k = SubSeq(l, 1, m)
    OBVIOUS
  <2>4. Frames(Append(k, l[m + 1])) = Frames(k) \o Frame(l[m + 1])
    BY <2>2, <2>3, FramesAppend
  <2>5. Frame(l[m + 1]) \in Seq(S)
    BY <2>2, FrameWords
  <2> QED
    BY <2>1, <2>3, <2>4, <2>5
<1>a. F(n) = Frames(l) /\ Frames(l) \in Seq(S)
  <2>1. SubSeq(l, 1, n) = l
    BY <1>1, SubSeqFull
  <2> QED
    BY <2>1, FramesTyped
<1> HIDE DEF F
<1> DEFINE P(m) == \E t \in Seq(S) : Frames(l) = F(m) \o t
           T == {d \in Nat : d <= n => P(n - d)}
<1>4. P(n)
  <2>1. Frames(l) \o <<>> = Frames(l) /\ <<>> \in Seq(S)
    BY <1>a, ConcatEmptySeq
  <2> QED
    BY <1>a, <2>1
<1>5. ASSUME NEW m \in Nat, m < n, P(m + 1) PROVE P(m)
  <2>1. PICK t \in Seq(S) : Frames(l) = F(m + 1) \o t
    BY <1>5
  <2>2. PICK f : f = Frame(l[m + 1])
    OBVIOUS
  <2>3. F(m + 1) = F(m) \o f /\ f \in Seq(S) /\ F(m) \in Seq(S)
    <3>1. m <= n
      BY <1>5
    <3> QED
      BY <1>2, <1>3, <1>5, <2>2, <3>1
  <2>4. PICK x : x = F(m)
    OBVIOUS
  <2>5. (x \o f) \o t = x \o (f \o t) /\ f \o t \in Seq(S)
    BY <2>3, <2>4, ConcatAssociative, ConcatProperties
  <2>6. Frames(l) = F(m) \o (f \o t)
    BY <2>1, <2>3, <2>4, <2>5
  <2> QED
    BY <2>5, <2>6
<1> HIDE DEF P
<1>6. 0 \in T
  BY <1>4
<1>7. ASSUME NEW d \in Nat, d \in T PROVE d + 1 \in T
  <2>1. CASE d + 1 <= n
    <3>1. PICK m : m = n - (d + 1)
      OBVIOUS
    <3>2. m \in Nat /\ m < n /\ m + 1 = n - d /\ d <= n
      BY <2>1, <3>1
    <3>3. P(m + 1)
      BY <1>7, <3>2
    <3> QED
      BY <1>5, <3>1, <3>2, <3>3
  <2>2. CASE ~(d + 1 <= n)
    BY <2>2
  <2> QED
    BY <2>1, <2>2
<1>8. Nat \subseteq T
  <2> HIDE DEF T
  <2> QED
    BY <1>6, <1>7, Induction
<1>9. P(i + 1)
  <2>1. PICK d : d = n - (i + 1)
    OBVIOUS
  <2>2. d \in Nat /\ d <= n /\ n - d = i + 1
    BY <1>1, <2>1
  <2> QED
    BY <1>8, <2>2
<1>10. F(i + 1) = F(i) \o Frame(l[i + 1])
  BY <1>1, <1>3
<1> QED
  BY <1>9, <1>10 DEF F, P

\* The words of the block infos, four for each.
LEMMA InfoWordsAre ==
  ASSUME NEW b \in Info
  PROVE  /\ InfoWords(b) \in Seq(Nat) /\ Len(InfoWords(b)) = 4
         /\ InfoWords(b)[1] = b.start_item /\ InfoWords(b)[2] = b.end_item
         /\ InfoWords(b)[3] = b.start_pos /\ InfoWords(b)[4] = b.end_pos
BY DEF InfoWords, Info

WordList(bs) == [k \in DOMAIN bs |-> InfoWords(bs[k])]

LEMMA WordListTyped ==
  ASSUME NEW bs \in Seq(Info)
  PROVE  /\ WordList(bs) \in Seq(Seq(Nat)) /\ Len(WordList(bs)) = Len(bs)
         /\ \A k \in 1 .. Len(bs) : WordList(bs)[k] = InfoWords(bs[k])
<1>1. Len(bs) \in Nat /\ DOMAIN bs = 1 .. Len(bs)
  OBVIOUS
<1>2. \A k \in 1 .. Len(bs) : InfoWords(bs[k]) \in Seq(Nat)
  BY <1>1, InfoWordsAre
<1>3. WordList(bs) = [k \in 1 .. Len(bs) |-> InfoWords(bs[k])]
  BY <1>1 DEF WordList
<1> QED
  BY <1>1, <1>2, <1>3

LEMMA IndexAppend ==
  ASSUME NEW bs \in Seq(Info), NEW b \in Info
  PROVE  Index(Append(bs, b)) = Index(bs) \o InfoWords(b)
<1>1. PICK cs : cs = Append(bs, b)
  OBVIOUS
<1>2. /\ cs \in Seq(Info) /\ Len(cs) = Len(bs) + 1 /\ Len(bs) \in Nat
      /\ cs[Len(bs) + 1] = b /\ \A k \in 1 .. Len(bs) : cs[k] = bs[k]
  BY <1>1
<1>3. PICK w : w = InfoWords(b)
  OBVIOUS
<1>4. w \in Seq(Nat)
  BY <1>3, InfoWordsAre
<1>5. WordList(cs) = Append(WordList(bs), w) /\ WordList(bs) \in Seq(Seq(Nat))
  <2>1. PICK f : f = WordList(bs)
    OBVIOUS
  <2>2. PICK g : g = WordList(cs)
    OBVIOUS
  <2>3. /\ f \in Seq(Seq(Nat)) /\ Len(f) = Len(bs)
        /\ \A k \in 1 .. Len(bs) : f[k] = InfoWords(bs[k])
    BY <2>1, WordListTyped
  <2>4. /\ g \in Seq(Seq(Nat)) /\ Len(g) = Len(cs)
        /\ \A k \in 1 .. Len(cs) : g[k] = InfoWords(cs[k])
    BY <1>2, <2>2, WordListTyped
  <2>5. Append(f, w) \in Seq(Seq(Nat)) /\ Len(Append(f, w)) = Len(g)
    <3>1. Append(f, w) \in Seq(Seq(Nat)) /\ Len(Append(f, w)) = Len(f) + 1
      BY <1>4, <2>3, AppendProperties
    <3> QED
      BY <1>2, <2>3, <2>4, <3>1
  <2>6. ASSUME NEW k \in 1 .. Len(g) PROVE g[k] = Append(f, w)[k]
    <3>1. CASE k = Len(bs) + 1
      BY <1>2, <1>3, <1>4, <2>3, <2>4, <3>1
    <3>2. CASE k # Len(bs) + 1
      <4>1. k \in 1 .. Len(bs)
        BY <1>2, <2>4, <3>2
      <4> QED
        BY <1>2, <1>4, <2>3, <2>4, <4>1
    <3> QED
      BY <3>1, <3>2
  <2>7. g = Append(f, w)
    BY <2>4, <2>5, <2>6, SeqEqual
  <2> QED
    BY <2>1, <2>2, <2>3, <2>7
<1>6. FlattenSeq(WordList(cs)) = FlattenSeq(WordList(bs)) \o w
  BY <1>4, <1>5, FlattenAppend
<1> QED
  BY <1>1, <1>3, <1>6 DEF Index, WordList

LEMMA IndexWords ==
  ASSUME NEW bs \in Seq(Info)
  PROVE  /\ Index(bs) \in Seq(Nat) /\ Len(Index(bs)) = 4 * Len(bs)
         /\ \A k \in 1 .. Len(bs) :
              /\ Index(bs)[4 * k - 3] = bs[k].start_item
              /\ Index(bs)[4 * k - 2] = bs[k].end_item
              /\ Index(bs)[4 * k - 1] = bs[k].start_pos
              /\ Index(bs)[4 * k] = bs[k].end_pos
<1> DEFINE I(m) == Index(SubSeq(bs, 1, m))
           P(m) == /\ I(m) \in Seq(Nat) /\ Len(I(m)) = 4 * m
                   /\ \A k \in 1 .. m :
                        /\ I(m)[4 * k - 3] = bs[k].start_item
                        /\ I(m)[4 * k - 2] = bs[k].end_item
                        /\ I(m)[4 * k - 1] = bs[k].start_pos
                        /\ I(m)[4 * k] = bs[k].end_pos
           T == {m \in Nat : m <= Len(bs) => P(m)}
<1>1. Len(bs) \in Nat /\ SubSeq(bs, 1, Len(bs)) = bs /\ SubSeq(bs, 1, 0) = <<>>
  BY SubSeqFull, SubSeqEmpty
<1>2. P(0)
  <2>1. I(0) = <<>>
    BY <1>1 DEF Index, FlattenSeq
  <2> HIDE DEF I
  <2>2. 1 .. 0 = {} /\ 4 * 0 = 0
    OBVIOUS
  <2>3. I(0) \in Seq(Nat) /\ Len(I(0)) = 0
    BY <2>1, EmptySeq
  <2> QED
    BY <2>2, <2>3
<1>3. ASSUME NEW m \in Nat, m < Len(bs), P(m) PROVE P(m + 1)
  <2>1. PICK b : b = bs[m + 1]
    OBVIOUS
  <2>2. b \in Info /\ SubSeq(bs, 1, m) \in Seq(Info)
        /\ SubSeq(bs, 1, m + 1) = Append(SubSeq(bs, 1, m), b)
    <3>1. m < Len(bs) /\ m <= Len(bs) /\ m + 1 \in 1 .. Len(bs)
      BY <1>1, <1>3
    <3>2. b \in Info
      BY <2>1, <3>1, ElementOfSeq
    <3>3. SubSeq(bs, 1, m) \in Seq(Info)
      BY <3>1, SubSeqTyped
    <3>4. SubSeq(bs, 1, m + 1) = Append(SubSeq(bs, 1, m), b)
      BY <2>1, <3>1, TakeAppend
    <3> QED
      BY <3>2, <3>3, <3>4
  <2>3. PICK x : x = I(m)
    OBVIOUS
  <2>4. PICK w : w = InfoWords(b)
    OBVIOUS
  <2>5. I(m + 1) = x \o w
    BY <2>2, <2>3, <2>4, IndexAppend
  <2>6. /\ w \in Seq(Nat) /\ Len(w) = 4
        /\ w[1] = b.start_item /\ w[2] = b.end_item
        /\ w[3] = b.start_pos /\ w[4] = b.end_pos
    BY <2>2, <2>4, InfoWordsAre
  <2>7. x \in Seq(Nat) /\ Len(x) = 4 * m
    BY <1>3, <2>3
  <2>8. ASSUME NEW k \in 1 .. m
        PROVE  /\ x[4 * k - 3] = bs[k].start_item
               /\ x[4 * k - 2] = bs[k].end_item
               /\ x[4 * k - 1] = bs[k].start_pos
               /\ x[4 * k] = bs[k].end_pos
    BY <1>3, <2>3
  <2> HIDE DEF I
  <2>9. PICK y : y = x \o w
    OBVIOUS
  <2>10. /\ y \in Seq(Nat) /\ Len(y) = 4 * m + 4
         /\ \A j \in 1 .. 4 * m + 4 : y[j] = IF j <= 4 * m THEN x[j] ELSE w[j - 4 * m]
    <3>1. /\ y \in Seq(Nat) /\ Len(y) = Len(x) + Len(w)
          /\ \A j \in 1 .. Len(x) + Len(w) :
               y[j] = IF j <= Len(x) THEN x[j] ELSE w[j - Len(x)]
      BY <2>6, <2>7, <2>9, ConcatProperties
    <3>2. Len(x) = 4 * m /\ Len(w) = 4
      BY <2>6, <2>7
    <3> QED
      BY <3>1, <3>2
  <2>11. ASSUME NEW k \in 1 .. m + 1
         PROVE  /\ y[4 * k - 3] = bs[k].start_item
                /\ y[4 * k - 2] = bs[k].end_item
                /\ y[4 * k - 1] = bs[k].start_pos
                /\ y[4 * k] = bs[k].end_pos
    <3>1. CASE k \in 1 .. m
      <4>1. /\ 4 * k - 3 \in 1 .. 4 * m /\ 4 * k - 2 \in 1 .. 4 * m
            /\ 4 * k - 1 \in 1 .. 4 * m /\ 4 * k \in 1 .. 4 * m
        BY <3>1
      <4>2. \A j \in 1 .. 4 * m : y[j] = x[j]
        BY <2>10
      <4> QED
        BY <2>8, <3>1, <4>1, <4>2
    <3>2. CASE k = m + 1
      <4>1. y[4 * m + 1] = w[1] /\ y[4 * m + 2] = w[2]
            /\ y[4 * m + 3] = w[3] /\ y[4 * m + 4] = w[4]
        BY <2>10
      <4>2. 4 * k - 3 = 4 * m + 1 /\ 4 * k - 2 = 4 * m + 2
            /\ 4 * k - 1 = 4 * m + 3 /\ 4 * k = 4 * m + 4
        BY <3>2
      <4> QED
        BY <2>1, <2>6, <3>2, <4>1, <4>2
    <3> QED
      BY <3>1, <3>2
  <2>12. I(m + 1) = y /\ 4 * (m + 1) = 4 * m + 4
    BY <2>5, <2>9
  <2> QED
    BY <2>10, <2>11, <2>12
<1> HIDE DEF P
<1>4. 0 \in T
  BY <1>2
<1>5. ASSUME NEW m \in Nat, m \in T PROVE m + 1 \in T
  BY <1>1, <1>3, <1>5
<1>6. Nat \subseteq T
  <2> HIDE DEF T
  <2> QED
    BY <1>4, <1>5, Induction
<1>7. P(Len(bs))
  BY <1>1, <1>6
<1> QED
  BY <1>1, <1>7 DEF P

-----------------------------------------------------------------------------
(* The operators of the block file.                                        *)

\* A write at or before the end of the file.
LEMMA WriteAtTyped ==
  ASSUME NEW d \in Seq(Int), NEW p \in Nat, p <= Len(d), NEW w \in Seq(Int)
  PROVE  /\ WriteAt(d, p, w) \in Seq(Int)
         /\ p = Len(d) => Len(WriteAt(d, p, w)) = p + Len(w)
<1> DEFINE n == IF p + Len(w) > Len(d) THEN p + Len(w) ELSE Len(d)
           e(k) == IF k > p /\ k <= p + Len(w) THEN w[k - p] ELSE d[k]
<1>1. n \in Nat /\ Len(d) \in Nat /\ Len(w) \in Nat
  OBVIOUS
<1>2. \A k \in 1 .. n : e(k) \in Int
  OBVIOUS
<1>3. WriteAt(d, p, w) = [k \in 1 .. n |-> e(k)]
  BY DEF WriteAt
<1>4. p = Len(d) => n = p + Len(w)
  BY <1>1
<1> HIDE DEF n, e
<1>5. [k \in 1 .. n |-> e(k)] \in Seq(Int) /\ Len([k \in 1 .. n |-> e(k)]) = n
  BY <1>1, <1>2
<1> QED
  BY <1>3, <1>4, <1>5

\* A write at the end appends.
LEMMA WriteAtEnd ==
  ASSUME NEW d \in Seq(Int), NEW w \in Seq(Int)
  PROVE  WriteAt(d, Len(d), w) = d \o w
<1>1. PICK p \in Nat : p = Len(d)
  OBVIOUS
<1>2. PICK q \in Nat : q = Len(w)
  OBVIOUS
<1>3. PICK x : x = WriteAt(d, p, w)
  OBVIOUS
<1>4. x = [k \in 1 .. (p + q) |-> IF k > p /\ k <= p + q THEN w[k - p] ELSE d[k]]
  BY <1>1, <1>2, <1>3 DEF WriteAt
<1>5. /\ d \o w \in Seq(Int) /\ Len(d \o w) = p + q
      /\ \A k \in 1 .. p + q : (d \o w)[k] = IF k <= p THEN d[k] ELSE w[k - p]
  BY <1>1, <1>2, ConcatProperties
<1>6. x \in Seq(Int) /\ Len(x) = p + q
  <2>1. p <= Len(d)
    BY <1>1
  <2> QED
    BY <1>1, <1>2, <1>3, <2>1, WriteAtTyped
<1>7. \A k \in 1 .. Len(x) : x[k] = (d \o w)[k]
  BY <1>4, <1>5, <1>6
<1>8. x = d \o w
  BY <1>5, <1>6, <1>7, SeqEqual
<1> QED
  BY <1>1, <1>3, <1>8

\* The block infos after an item: they end behind it.
LEMMA AddToInfosTyped ==
  ASSUME NEW bs \in Seq(Info), NEW n \in Nat
  PROVE  /\ AddToInfos(bs, n) \in Seq(Info)
         /\ AddToInfos(bs, n) # <<>>
         /\ EndPos(AddToInfos(bs, n)) = EndPos(bs) + n + 1
         /\ EndPos(bs) \in Nat
<1>1. CASE bs = <<>>
  <2> DEFINE b == BlockInfo(0, 1, 0, n + 1)
  <2>1. AddToInfos(bs, n) = <<b>>
    BY <1>1 DEF AddToInfos
  <2>2. b \in Info /\ b.end_pos = n + 1
    BY DEF BlockInfo, Info
  <2> HIDE DEF b
  <2>3. <<b>> \in Seq(Info) /\ <<b>> # <<>> /\ Last(<<b>>) = b
    BY <2>2 DEF Last
  <2>4. EndPos(bs) = 0 /\ EndPos(<<b>>) = n + 1
    BY <1>1, <2>2, <2>3 DEF EndPos
  <2> QED
    BY <2>1, <2>3, <2>4
<1>2. CASE bs # <<>>
  <2> DEFINE b == Last(bs)
             c == BlockInfo(b.end_item, b.end_item + 1, b.end_pos, b.end_pos + n + 1)
             d == [b EXCEPT !.end_item = @ + 1, !.end_pos = @ + n + 1]
  <2>1. b \in Info
    BY <1>2 DEF Last
  <2>2. EndPos(bs) = b.end_pos /\ b.end_pos \in Nat
    BY <1>2, <2>1 DEF EndPos, Info
  <2>3. AddToInfos(bs, n) \in {Append(bs, c), Append(Front(bs), d)}
    BY <1>2 DEF AddToInfos
  <2>4. Front(bs) \in Seq(Info)
    BY <1>2 DEF Front
  <2> HIDE DEF b
  <2>5. c \in Info /\ c.end_pos = b.end_pos + n + 1
    BY <2>1 DEF BlockInfo, Info
  <2>6. d \in Info /\ d.end_pos = b.end_pos + n + 1
    <3> DEFINE i == b.end_item + 1
               q == b.end_pos + n + 1
    <3>1. i \in Nat /\ q \in Nat /\ d = [b EXCEPT !.end_item = i, !.end_pos = q]
      BY <2>1 DEF Info
    <3> HIDE DEF i, q, d
    <3>2. d \in Info /\ d.end_pos = q
      BY <2>1, <3>1 DEF Info
    <3> QED
      BY <3>2 DEF q
  <2> HIDE DEF c, d
  <2>7. ASSUME NEW s \in Seq(Info), NEW x \in Info
        PROVE  /\ Append(s, x) \in Seq(Info) /\ Append(s, x) # <<>>
               /\ EndPos(Append(s, x)) = x.end_pos
    BY DEF EndPos, Last
  <2> QED
    BY <2>2, <2>3, <2>4, <2>5, <2>6, <2>7
<1> QED
  BY <1>1, <1>2

\* What close() writes are words, behind the items.
LEMMA ClosedDiskTyped ==
  ASSUME FileInv, mode = "out", infos # <<>>
  PROVE  /\ ClosedDisk \in Seq(Int)
         /\ ClosedDisk = disk \o (Index(infos) \o HeaderOf(header))
<1>1. Last(infos).end_pos = Len(disk) /\ disk \in Seq(Int) /\ infos \in Seq(Info)
  BY DEF FileInv, EndPos
<1>2. Index(infos) \in Seq(Int)
  <2>1. Nat \subseteq Int
    OBVIOUS
  <2>2. Index(infos) \in Seq(Nat)
    BY <1>1, IndexWords
  <2> QED
    BY <2>1, <2>2, SeqMonotonic
<1>3. HeaderOf(header) \in Seq(Int)
  BY DEF FileInv, HeaderOf, Magic
<1>4. PICK w : w = Index(infos) \o HeaderOf(header)
  OBVIOUS
<1>5. w \in Seq(Int)
  BY <1>2, <1>3, <1>4, ConcatProperties
<1>6. ClosedDisk = WriteAt(disk, Len(disk), w)
  BY <1>1, <1>4 DEF ClosedDisk
<1>7. WriteAt(disk, Len(disk), w) = disk \o w
  BY <1>1, <1>5, WriteAtEnd
<1> QED
  BY <1>1, <1>4, <1>5, <1>6, <1>7, ConcatProperties

\* next_item returns words of the file and stays inside of it.
LEMMA NextItemTyped ==
  ASSUME FileInv, NEW n \in Nat
  PROVE  /\ NextItem(n).res \in ReadResult
         /\ NextItem(n).pos \in Nat /\ NextItem(n).pos <= Len(disk)
         /\ NextItem(n).eof \in BOOLEAN
<1>1. disk \in Seq(Int) /\ Len(disk) \in Nat /\ pos \in Nat /\ pos <= Len(disk)
      /\ eof \in BOOLEAN
  BY DEF FileInv
<1>2. CASE eof \/ pos >= Len(disk)
  <2>1. NextItem(n) = [res |-> Read("eof", NoData), pos |-> pos, eof |-> TRUE]
    BY <1>1, <1>2 DEF NextItem
  <2> QED
    BY <1>1, <2>1 DEF ReadResult, Read, NoData
<1> DEFINE w == disk[pos + 1]
<1>3. CASE ~eof /\ pos < Len(disk) /\ TooLarge(w, n)
  <2>1. NextItem(n) = [res |-> Read("small_buf", NoData), pos |-> pos,
                       eof |-> FALSE]
    BY <1>1, <1>3 DEF NextItem
  <2> QED
    BY <1>1, <2>1 DEF ReadResult, Read, NoData
<1>4. CASE ~eof /\ pos < Len(disk) /\ ~TooLarge(w, n)
  <2> DEFINE end == Min({pos + 1 + w, Len(disk)})
  <2>1. w \in Nat
    BY <1>1, <1>4 DEF TooLarge
  <2> HIDE DEF w
  <2>2. end \in {pos + 1 + w, Len(disk)} /\ end <= Len(disk) /\ end <= pos + 1 + w
    <3> DEFINE S == {pos + 1 + w, Len(disk)}
    <3>1. \E x \in S : \A y \in S : x <= y
      BY <1>1, <2>1
    <3>2. Min(S) \in S /\ \A y \in S : Min(S) <= y
      BY <3>1 DEF Min
    <3> QED
      BY <3>2
  <2>3. end \in Nat
    BY <1>1, <2>1, <2>2
  <2>4. NextItem(n) = [res |-> Read("succ", SubSeq(disk, pos + 2, end)),
                       pos |-> end, eof |-> pos + 1 + w > Len(disk)]
    BY <1>1, <1>4 DEF NextItem, w
  <2> HIDE DEF end
  <2>5. SubSeq(disk, pos + 2, end) \in Seq(Int)
    BY <1>1, <2>2, <2>3, SubSeqTyped
  <2>6. (pos + 1 + w > Len(disk)) \in BOOLEAN
    OBVIOUS
  <2> QED
    BY <2>2, <2>3, <2>4, <2>5, <2>6 DEF ReadResult, Read
<1> QED
  BY <1>1, <1>2, <1>3, <1>4

-----------------------------------------------------------------------------
(* The block file's steps keep its invariant.                              *)

LEMMA AppendItemStep ==
  ASSUME FileInv, NEW item \in Seq(Int), AppendItem(item)
  PROVE  FileInv' /\ mode' = "out" /\ log' = Append(log, item)
<1> USE DEF AppendItem
<1> DEFINE n == Len(item)
           w == <<n>> \o item
           p == Last(infos').end_pos - 1 - n
<1>1. /\ disk \in Seq(Int) /\ Len(disk) = EndPos(infos) /\ infos \in Seq(Info)
      /\ header \in [item_number : Nat, block_number : Nat]
      /\ log \in Seq(Seq(Int)) /\ mode = "out" /\ pos = 0 /\ n \in Nat
  BY DEF FileInv
<1>2. /\ infos' \in Seq(Info) /\ infos' # <<>>
      /\ EndPos(infos)' = EndPos(infos) + n + 1 /\ EndPos(infos) \in Nat
  <2>1. PICK bs : bs = infos
    OBVIOUS
  <2>2. PICK cs : cs = AddToInfos(bs, n)
    OBVIOUS
  <2>3. cs \in Seq(Info) /\ cs # <<>> /\ EndPos(cs) = EndPos(bs) + n + 1
        /\ EndPos(bs) \in Nat
    BY <1>1, <2>1, <2>2, AddToInfosTyped
  <2>4. infos' = cs
    BY <2>1, <2>2
  <2> QED
    BY <2>1, <2>3, <2>4 DEF EndPos
<1>3. EndPos(infos)' = Last(infos').end_pos
  BY <1>2 DEF EndPos
<1>4. p = Len(disk) /\ p \in Nat
  BY <1>1, <1>2, <1>3
<1>5. w \in Seq(Int) /\ Len(w) = n + 1
  BY <1>1
<1>6. disk' = WriteAt(disk, p, w)
  OBVIOUS
<1> HIDE DEF n, w, p
<1>7. disk' \in Seq(Int) /\ Len(disk') = p + n + 1
  <2>1. p <= Len(disk)
    BY <1>4
  <2>2. WriteAt(disk, p, w) \in Seq(Int) /\ Len(WriteAt(disk, p, w)) = p + Len(w)
    BY <1>1, <1>4, <1>5, <2>1, WriteAtTyped
  <2> HIDE DEF AppendItem
  <2>3. disk' \in Seq(Int) /\ Len(disk') = p + Len(w)
    BY <1>6, <2>2
  <2> QED
    BY <1>1, <1>4, <1>5, <2>3
<1>8. header' \in [item_number : Nat, block_number : Nat]
  <2>1. Len(infos') \in Nat /\ header.item_number + 1 \in Nat
    BY <1>1, <1>2
  <2> QED
    BY <2>1
<1>9. log' \in Seq(Seq(Int))
  BY <1>1
<1> QED
  BY <1>1, <1>2, <1>4, <1>7, <1>8, <1>9 DEF FileInv

LEMMA OpenForWriteStep ==
  ASSUME FileInv, OpenForWrite
  PROVE  FileInv' /\ mode' = "out" /\ log' = log
<1>1. disk' \in Seq(Int) /\ Len(disk') = 0
  BY DEF OpenForWrite
<1> QED
  BY <1>1 DEF FileInv, OpenForWrite, EndPos

LEMMA CloseFileStep ==
  ASSUME FileInv, CloseFile
  PROVE  FileInv' /\ mode' = "closed" /\ log' = log
<1>1. ClosedDisk \in Seq(Int)
  BY ClosedDiskTyped DEF CloseFile
<1>2. disk' = ClosedDisk
  BY DEF CloseFile
<1>3. disk' \in Seq(Int) /\ Len(disk') \in Nat
  BY <1>1, <1>2
<1>4. <<>> \in Seq(Info)
  OBVIOUS
<1> QED
  BY <1>3, <1>4 DEF FileInv, CloseFile

LEMMA WriterDiesStep ==
  ASSUME FileInv, WriterDies
  PROVE  FileInv' /\ mode' = "torn" /\ log' = log
<1>1. PICK w : w = IF infos = <<>> THEN disk ELSE ClosedDisk
  OBVIOUS
<1>2. w \in Seq(Int) /\ Len(w) \in Nat
  BY <1>1, ClosedDiskTyped DEF FileInv, WriterDies
<1>3. PICK k \in 0 .. Len(w) - 1 : disk' = SubSeq(w, 1, k)
  BY <1>1 DEF WriterDies
<1>4. k \in Nat /\ k <= Len(w)
  BY <1>2
<1>5. disk' \in Seq(Int) /\ Len(disk') \in Nat
  BY <1>2, <1>3, <1>4, SubSeqTyped
<1> QED
  BY <1>5 DEF FileInv, WriterDies

LEMMA OpenForReadStep ==
  ASSUME FileInv, OpenForRead
  PROVE  FileInv' /\ mode' = "in" /\ log' = log
BY DEF FileInv, OpenForRead

LEMMA CallNextItemStep ==
  ASSUME FileInv, NEW n \in Nat, CallNextItem(n)
  PROVE  FileInv' /\ mode' = "in" /\ log' = log
<1>1. PICK r : r = NextItem(n)
  OBVIOUS
<1>2. /\ r.res \in ReadResult /\ r.pos \in Nat /\ r.pos <= Len(disk)
      /\ r.eof \in BOOLEAN
  BY <1>1, NextItemTyped
<1>3. got' = Append(got, r.res) /\ pos' = r.pos /\ eof' = r.eof
  BY <1>1 DEF CallNextItem
<1>4. got' \in Seq(ReadResult)
  BY <1>2, <1>3 DEF FileInv
<1> QED
  BY <1>2, <1>3, <1>4 DEF FileInv, CallNextItem

-----------------------------------------------------------------------------
(* Where the items lie.                                                    *)

PosIn(l, i) == Len(Frames(SubSeq(l, 1, i)))

LEMMA PosTyped ==
  ASSUME NEW l \in Seq(Seq(Payload))
  PROVE  /\ \A i \in 0 .. Len(l) : PosIn(l, i) \in Nat
         /\ PosIn(l, 0) = 0
         /\ PosIn(l, Len(l)) = Len(Frames(l))
         /\ Frames(l) \in Seq(Int) /\ l \in Seq(Seq(Int))
<1>0. Nat \subseteq Int /\ Payload \subseteq Int
  BY DEF Payload
<1>1. l \in Seq(Seq(Int)) /\ Len(l) \in Nat
  <2>1. Seq(Payload) \subseteq Seq(Int)
    BY <1>0, SeqMonotonic
  <2> QED
    BY <2>1, SeqMonotonic
<1>2. ASSUME NEW i \in 0 .. Len(l) PROVE PosIn(l, i) \in Nat
  <2>1. i \in Nat /\ i <= Len(l)
    BY <1>1
  <2>2. SubSeq(l, 1, i) \in Seq(Seq(Int))
    BY <1>1, <2>1, SubSeqTyped
  <2>3. Frames(SubSeq(l, 1, i)) \in Seq(Int)
    BY <1>0, <2>2, FramesTyped
  <2> QED
    BY <2>3, LenProperties DEF PosIn
<1>3. PosIn(l, 0) = 0
  <2>1. SubSeq(l, 1, 0) = <<>>
    BY SubSeqEmpty
  <2> QED
    BY <2>1, FramesEmpty, EmptySeq DEF PosIn
<1>4. PosIn(l, Len(l)) = Len(Frames(l))
  BY SubSeqFull DEF PosIn
<1>5. Frames(l) \in Seq(Int)
  BY <1>0, <1>1, FramesTyped
<1> QED
  BY <1>1, <1>2, <1>3, <1>4, <1>5

\* Another item leaves the others where they are.
LEMMA PosAppend ==
  ASSUME NEW l \in Seq(Seq(Payload)), NEW x \in Seq(Payload)
  PROVE  /\ Append(l, x) \in Seq(Seq(Payload)) /\ Len(Append(l, x)) = Len(l) + 1
         /\ Len(l) \in Nat /\ Len(x) \in Nat
         /\ Frames(Append(l, x)) = Frames(l) \o Frame(x)
         /\ \A i \in 0 .. Len(l) : PosIn(Append(l, x), i) = PosIn(l, i)
         /\ PosIn(Append(l, x), Len(l) + 1) = PosIn(l, Len(l)) + Len(x) + 1
<1>0. Nat \subseteq Int /\ Payload \subseteq Int
  BY DEF Payload
<1>1. PICK m : m = Append(l, x)
  OBVIOUS
<1>2. /\ m \in Seq(Seq(Payload)) /\ Len(m) = Len(l) + 1 /\ Len(l) \in Nat
      /\ \A k \in 1 .. Len(l) : m[k] = l[k]
  BY <1>1, AppendProperties
<1>3. x \in Seq(Int) /\ l \in Seq(Seq(Int)) /\ Len(x) \in Nat
  BY <1>0, SeqMonotonic, PosTyped, LenProperties
<1>4. Frames(m) = Frames(l) \o Frame(x)
  BY <1>0, <1>1, <1>3, FramesAppend
<1>5. ASSUME NEW i \in 0 .. Len(l) PROVE PosIn(m, i) = PosIn(l, i)
  <2>1. i \in Nat /\ i <= Len(l) /\ i <= Len(m)
    BY <1>2
  <2>2. SubSeq(m, 1, i) = SubSeq(l, 1, i)
    <3>1. \A k \in 1 .. i : m[k] \in Seq(Payload) /\ l[k] \in Seq(Payload) /\ m[k] = l[k]
      BY <1>2, <2>1
    <3>2. /\ SubSeq(m, 1, i) \in Seq(Seq(Payload)) /\ SubSeq(l, 1, i) \in Seq(Seq(Payload))
          /\ Len(SubSeq(m, 1, i)) = i /\ Len(SubSeq(l, 1, i)) = i
          /\ \A k \in 1 .. i : SubSeq(m, 1, i)[k] = m[k] /\ SubSeq(l, 1, i)[k] = l[k]
      BY <2>1, <3>1, SubSeqProperties
    <3> QED
      BY <3>1, <3>2, SeqEqual
  <2> QED
    BY <2>2 DEF PosIn
<1>6. PosIn(m, Len(l) + 1) = PosIn(l, Len(l)) + Len(x) + 1
  <2>1. PosIn(m, Len(m)) = Len(Frames(m)) /\ PosIn(l, Len(l)) = Len(Frames(l))
        /\ Frames(l) \in Seq(Int)
    BY <1>2, PosTyped
  <2>2. Frame(x) \in Seq(Int) /\ Len(Frame(x)) = Len(x) + 1
    BY <1>0, <1>3, FrameWords
  <2>3. Len(Frames(m)) = Len(Frames(l)) + Len(Frame(x))
    BY <1>4, <2>1, <2>2, ConcatProperties
  <2>4. Len(Frames(l)) \in Nat
    BY <2>1, LenProperties
  <2> QED
    BY <1>2, <1>3, <2>1, <2>2, <2>3, <2>4
<1> QED
  BY <1>1, <1>2, <1>3, <1>4, <1>5, <1>6

-----------------------------------------------------------------------------
(* The block infos cut the items into blocks.                              *)

BlockRight(b, l) ==
  /\ b.start_item < b.end_item /\ b.end_item <= Len(l)
  /\ b.end_item - b.start_item <= PerBlock
  /\ b.start_pos = PosIn(l, b.start_item)
  /\ b.end_pos = PosIn(l, b.end_item)

\* A block that another one follows is full.
Joined(b, c) ==
  b.end_item = c.start_item /\ b.end_item - b.start_item = PerBlock

BlocksRight(bs, l) ==
  /\ bs \in Seq(Info)
  /\ bs = <<>> <=> l = <<>>
  /\ bs # <<>> => bs[1].start_item = 0 /\ bs[Len(bs)].end_item = Len(l)
  /\ \A k \in 1 .. Len(bs) : BlockRight(bs[k], l)
  /\ \A k \in 1 .. Len(bs) - 1 : Joined(bs[k], bs[k + 1])

LEMMA BlockKept ==
  ASSUME NEW l \in Seq(Seq(Payload)), NEW x \in Seq(Payload), NEW b \in Info,
         BlockRight(b, l)
  PROVE  BlockRight(b, Append(l, x))
<1>1. b.start_item \in Nat /\ b.end_item \in Nat
  BY DEF Info
<1>2. Len(Append(l, x)) = Len(l) + 1 /\ Len(l) \in Nat
  BY PosAppend
<1>3. b.start_item \in 0 .. Len(l) /\ b.end_item \in 0 .. Len(l)
      /\ b.end_item <= Len(l) + 1
  BY <1>1, <1>2 DEF BlockRight
<1>4. /\ PosIn(Append(l, x), b.start_item) = PosIn(l, b.start_item)
      /\ PosIn(Append(l, x), b.end_item) = PosIn(l, b.end_item)
  BY <1>3, PosAppend
<1> QED
  BY <1>2, <1>3, <1>4 DEF BlockRight

\* An item goes into a block of its own or fills up the last one.
LEMMA BlocksGrow ==
  ASSUME NEW l \in Seq(Seq(Payload)), NEW x \in Seq(Payload), NEW bs,
         BlocksRight(bs, l)
  PROVE  BlocksRight(AddToInfos(bs, Len(x)), Append(l, x))
<1>1. PICK m : m = Append(l, x)
  OBVIOUS
<1>2. PICK n : n = Len(x)
  OBVIOUS
<1>3. /\ m \in Seq(Seq(Payload)) /\ Len(m) = Len(l) + 1 /\ Len(l) \in Nat /\ n \in Nat
      /\ PosIn(m, Len(l)) = PosIn(l, Len(l))
      /\ PosIn(m, Len(l) + 1) = PosIn(l, Len(l)) + n + 1
      /\ m # <<>> /\ PosIn(m, 0) = 0
  <2>1. Len(l) \in 0 .. Len(l)
    OBVIOUS
  <2> QED
    <3>1. /\ m \in Seq(Seq(Payload)) /\ Len(m) = Len(l) + 1 /\ Len(l) \in Nat /\ n \in Nat
          /\ PosIn(m, Len(l)) = PosIn(l, Len(l))
          /\ PosIn(m, Len(l) + 1) = PosIn(l, Len(l)) + n + 1
      BY <1>1, <1>2, <2>1, PosAppend
    <3>2. PosIn(m, 0) = 0
      BY <3>1, PosTyped
    <3>3. m # <<>>
      BY <3>1
    <3> QED
      BY <3>1, <3>2, <3>3
<1>4. \A b \in Info : BlockRight(b, l) => BlockRight(b, m)
  BY <1>1, BlockKept
<1>5. PerBlock \in Nat \ {0}
  BY BlockFileAssumption
<1>6. bs \in Seq(Info) /\ Len(bs) \in Nat
  BY DEF BlocksRight
<1>7. CASE bs = <<>>
  <2>1. PICK b : b = BlockInfo(0, 1, 0, n + 1)
    OBVIOUS
  <2>2. /\ b \in Info /\ b.start_item = 0 /\ b.end_item = 1
        /\ b.start_pos = 0 /\ b.end_pos = n + 1
    BY <1>3, <2>1 DEF BlockInfo, Info
  <2>3. l = <<>> /\ Len(l) = 0
    BY <1>7 DEF BlocksRight
  <2>4. PosIn(l, 0) = 0
    BY PosTyped
  <2>5. BlockRight(b, m)
    BY <1>3, <1>5, <2>2, <2>3, <2>4 DEF BlockRight
  <2>6. AddToInfos(bs, n) = <<b>>
    BY <1>7, <2>1 DEF AddToInfos
  <2>7. <<b>> \in Seq(Info) /\ Len(<<b>>) = 1 /\ <<b>>[1] = b /\ <<b>> # <<>>
    BY <2>2
  <2>8. BlocksRight(<<b>>, m)
    <3>1. \A k \in 1 .. 1 : <<b>>[k] = b
      OBVIOUS
    <3>2. 1 .. 1 - 1 = {}
      OBVIOUS
    <3>3. Len(m) = 1
      BY <1>3, <2>3
    <3> QED
      BY <1>3, <2>2, <2>5, <2>7, <3>1, <3>2, <3>3 DEF BlocksRight
  <2> QED
    BY <1>1, <1>2, <2>6, <2>8
<1>8. CASE bs # <<>>
  <2>1. PICK b : b = Last(bs)
    OBVIOUS
  <2>2. Len(bs) \in Nat \ {0} /\ b = bs[Len(bs)] /\ b \in Info
    BY <1>6, <1>8, <2>1 DEF Last
  <2>3. /\ b.end_item = Len(l) /\ BlockRight(b, l)
        /\ b.start_item \in Nat /\ b.end_item \in Nat /\ b.end_pos \in Nat
    <3>1. Len(bs) \in 1 .. Len(bs)
      BY <2>2
    <3> QED
      BY <1>8, <2>2, <3>1 DEF BlocksRight, Info
  <2>4. /\ bs[1].start_item = 0
        /\ \A k \in 1 .. Len(bs) : bs[k] \in Info /\ BlockRight(bs[k], m)
        /\ \A k \in 1 .. Len(bs) - 1 : Joined(bs[k], bs[k + 1])
    BY <1>4, <1>6, <1>8 DEF BlocksRight
  <2>5. b.end_pos = PosIn(l, Len(l))
    BY <2>3 DEF BlockRight
  <2>6. CASE b.end_item - b.start_item >= PerBlock
    <3>1. PICK c : c = BlockInfo(b.end_item, b.end_item + 1, b.end_pos, b.end_pos + n + 1)
      OBVIOUS
    <3>2. /\ c \in Info /\ c.start_item = Len(l) /\ c.end_item = Len(l) + 1
          /\ c.start_pos = b.end_pos /\ c.end_pos = b.end_pos + n + 1
      BY <1>3, <2>3, <3>1 DEF BlockInfo, Info
    <3>3. BlockRight(c, m)
      BY <1>3, <1>5, <2>5, <3>2 DEF BlockRight
    <3>4. Joined(b, c)
      <4>1. PICK z \in Int : z = b.end_item - b.start_item
        BY <2>3
      <4>2. z <= PerBlock
        BY <2>3, <4>1 DEF BlockRight
      <4>3. z = PerBlock
        BY <1>5, <2>6, <4>1, <4>2
      <4> QED
        BY <2>3, <3>2, <4>1, <4>3 DEF Joined
    <3>5. AddToInfos(bs, n) = Append(bs, c)
      BY <1>8, <2>1, <2>6, <3>1 DEF AddToInfos
    <3>6. PICK cs : cs = Append(bs, c)
      OBVIOUS
    <3>7. /\ cs \in Seq(Info) /\ Len(cs) = Len(bs) + 1 /\ cs # <<>>
          /\ cs[Len(bs) + 1] = c /\ \A k \in 1 .. Len(bs) : cs[k] = bs[k]
      BY <1>6, <3>2, <3>6, AppendProperties
    <3>8. ASSUME NEW k \in 1 .. Len(cs) PROVE BlockRight(cs[k], m)
      <4>1. k \in 1 .. Len(bs) \/ k = Len(bs) + 1
        BY <1>6, <3>7
      <4> QED
        BY <2>4, <3>3, <3>7, <4>1
    <3>9. ASSUME NEW k \in 1 .. Len(cs) - 1 PROVE Joined(cs[k], cs[k + 1])
      <4>1. CASE k = Len(bs)
        <5>1. k \in 1 .. Len(bs)
          BY <2>2, <4>1
        <5> QED
          BY <2>2, <3>4, <3>7, <4>1, <5>1
      <4>2. CASE k # Len(bs)
        <5>1. k \in 1 .. Len(bs) - 1 /\ k \in 1 .. Len(bs) /\ k + 1 \in 1 .. Len(bs)
          BY <1>6, <3>7, <4>2
        <5> QED
          BY <2>4, <3>7, <5>1
      <4> QED
        BY <4>1, <4>2
    <3>10. cs[1].start_item = 0 /\ cs[Len(cs)].end_item = Len(m)
      <4>1. 1 \in 1 .. Len(bs)
        BY <2>2
      <4> QED
        BY <1>3, <2>4, <3>2, <3>7, <4>1
    <3>11. BlocksRight(cs, m)
      BY <1>3, <3>7, <3>8, <3>9, <3>10 DEF BlocksRight
    <3> QED
      BY <1>1, <1>2, <3>5, <3>6, <3>11
  <2>7. CASE ~(b.end_item - b.start_item >= PerBlock)
    <3>1. PICK i : i = b.end_item + 1
      OBVIOUS
    <3>2. PICK q : q = b.end_pos + n + 1
      OBVIOUS
    <3>3. PICK c : c = [b EXCEPT !.end_item = i, !.end_pos = q]
      OBVIOUS
    <3>4. i \in Nat /\ q \in Nat /\ i = Len(l) + 1
      BY <1>3, <2>3, <3>1, <3>2
    <3>5. /\ c \in Info /\ c.start_item = b.start_item /\ c.end_item = i
          /\ c.start_pos = b.start_pos /\ c.end_pos = q
      BY <2>2, <3>3, <3>4 DEF Info
    <3>6. BlockRight(c, m)
      <4>1. b.start_pos = PosIn(m, b.start_item) /\ b.start_item < b.end_item
        <5>1. BlockRight(b, m)
          BY <1>4, <2>2, <2>3
        <5> QED
          BY <5>1 DEF BlockRight
      <4>2. c.end_item - c.start_item <= PerBlock /\ c.start_item < c.end_item
        BY <1>5, <2>3, <2>7, <3>1, <3>5, <4>1
      <4>3. q = PosIn(m, i) /\ i <= Len(m)
        BY <1>3, <2>5, <3>2, <3>4
      <4> QED
        BY <3>5, <4>1, <4>2, <4>3 DEF BlockRight
    <3>7. AddToInfos(bs, n) = Append(Front(bs), c)
      BY <1>8, <2>1, <2>7, <3>1, <3>2, <3>3 DEF AddToInfos
    <3>8. PICK f : f = Front(bs)
      OBVIOUS
    <3>9. /\ f \in Seq(Info) /\ Len(f) = Len(bs) - 1
          /\ \A k \in 1 .. Len(bs) - 1 : f[k] = bs[k]
      <4>1. PICK z : z = Len(bs) - 1
        OBVIOUS
      <4>2. z \in Nat /\ z <= Len(bs)
        BY <2>2, <4>1
      <4>3. \A k \in 1 .. z : bs[k] \in Info
        BY <1>6, <4>2
      <4>4. f = SubSeq(bs, 1, z)
        BY <3>8, <4>1 DEF Front
      <4>5. /\ f \in Seq(Info) /\ Len(f) = z
            /\ \A k \in 1 .. z : f[k] = bs[k]
        BY <4>2, <4>3, <4>4, SubSeqProperties
      <4> QED
        BY <4>1, <4>5
    <3>10. PICK cs : cs = Append(f, c)
      OBVIOUS
    <3>11. /\ cs \in Seq(Info) /\ Len(cs) = Len(bs) /\ cs # <<>>
           /\ cs[Len(bs)] = c /\ \A k \in 1 .. Len(bs) - 1 : cs[k] = bs[k]
      <4>1. /\ cs \in Seq(Info) /\ Len(cs) = Len(f) + 1 /\ cs[Len(f) + 1] = c
            /\ \A k \in 1 .. Len(f) : cs[k] = f[k]
        BY <3>5, <3>9, <3>10, AppendProperties
      <4>2. Len(f) + 1 = Len(bs) /\ Len(f) = Len(bs) - 1
        BY <2>2, <3>9
      <4>3. cs # <<>>
        BY <2>2, <4>1, <4>2
      <4> QED
        BY <3>9, <4>1, <4>2, <4>3
    <3>12. ASSUME NEW k \in 1 .. Len(cs) PROVE BlockRight(cs[k], m)
      <4>1. k \in 1 .. Len(bs)
            /\ (k \in 1 .. Len(bs) - 1 \/ k = Len(bs))
        BY <2>2, <3>11
      <4> QED
        BY <2>4, <3>6, <3>11, <4>1
    <3>13. ASSUME NEW k \in 1 .. Len(cs) - 1 PROVE Joined(cs[k], cs[k + 1])
      <4>1. k \in 1 .. Len(bs) - 1 /\ Joined(bs[k], bs[k + 1]) /\ cs[k] = bs[k]
        BY <2>4, <3>11
      <4>2. cs[k + 1].start_item = bs[k + 1].start_item
        <5>1. CASE k + 1 = Len(bs)
          BY <2>2, <3>5, <3>11, <5>1
        <5>2. CASE k + 1 # Len(bs)
          <6>1. k + 1 \in 1 .. Len(bs) - 1
            BY <2>2, <4>1, <5>2
          <6> QED
            BY <3>11, <6>1
        <5> QED
          BY <5>1, <5>2
      <4> QED
        BY <4>1, <4>2 DEF Joined
    <3>14. cs[1].start_item = 0 /\ cs[Len(cs)].end_item = Len(m)
      <4>1. CASE Len(bs) = 1
        BY <1>3, <2>2, <2>4, <3>4, <3>5, <3>11, <4>1
      <4>2. CASE Len(bs) # 1
        <5>1. 1 \in 1 .. Len(bs) - 1
          <6>1. PICK z : z = Len(bs) - 1
            OBVIOUS
          <6>2. z \in Nat /\ 1 <= z
            BY <2>2, <4>2, <6>1
          <6> QED
            BY <6>1, <6>2
        <5> QED
          BY <1>3, <2>4, <3>4, <3>5, <3>11, <5>1
      <4> QED
        BY <4>1, <4>2
    <3>15. BlocksRight(cs, m)
      BY <1>3, <3>11, <3>12, <3>13, <3>14 DEF BlocksRight
    <3> QED
      BY <1>1, <1>2, <3>7, <3>8, <3>10, <3>15
  <2> QED
    BY <2>6, <2>7
<1> QED
  BY <1>7, <1>8

-----------------------------------------------------------------------------
(* A closed file, and what is left of one.                                 *)

\* The file of the items l with the block infos bs.
HeaderFor(l, bs) == [item_number |-> Len(l), block_number |-> Len(bs)]
Whole(l, bs) == Frames(l) \o (Index(bs) \o HeaderOf(HeaderFor(l, bs)))

LEMMA WholeWords ==
  ASSUME NEW l \in Seq(Seq(Payload)), NEW bs \in Seq(Info)
  PROVE  /\ Whole(l, bs) \in Seq(Int)
         /\ Len(Whole(l, bs)) = Len(Frames(l)) + 4 * Len(bs) + 8
         /\ Len(Frames(l)) \in Nat
         /\ \A j \in 1 .. Len(Frames(l)) : Whole(l, bs)[j] = Frames(l)[j]
         /\ \A j \in 1 .. 4 * Len(bs) :
              Whole(l, bs)[Len(Frames(l)) + j] = Index(bs)[j]
         /\ Whole(l, bs)[Len(Frames(l)) + 4 * Len(bs) + 3] = Len(bs)
         /\ Whole(l, bs)[Len(Frames(l)) + 4 * Len(bs) + 4] = Len(l)
<1>1. PICK h : h = HeaderOf(HeaderFor(l, bs))
  OBVIOUS
<1>2. Len(l) \in Nat /\ Len(bs) \in Nat
  OBVIOUS
<1>3. h \in Seq(Int) /\ Len(h) = 8 /\ h[3] = Len(bs) /\ h[4] = Len(l)
  BY <1>1, <1>2 DEF HeaderOf, HeaderFor, Magic
<1>4. PICK f : f = Frames(l)
  OBVIOUS
<1>5. f \in Seq(Int) /\ Len(f) \in Nat
  BY <1>4, PosTyped, LenProperties
<1>6. PICK i : i = Index(bs)
  OBVIOUS
<1>7. i \in Seq(Int) /\ Len(i) = 4 * Len(bs)
  <2>1. i \in Seq(Nat) /\ Len(i) = 4 * Len(bs) /\ Nat \subseteq Int
    BY <1>6, IndexWords
  <2> QED
    BY <2>1, SeqMonotonic
<1>8. PICK n \in Nat : n = 4 * Len(bs)
  BY <1>2
<1>9. PICK t : t = i \o h
  OBVIOUS
<1>10. /\ t \in Seq(Int) /\ Len(t) = Len(i) + Len(h)
       /\ \A j \in 1 .. Len(i) + Len(h) : t[j] = IF j <= Len(i) THEN i[j] ELSE h[j - Len(i)]
  <2>1. i \in Seq(Int) /\ h \in Seq(Int)
    BY <1>3, <1>7
  <2> QED
    BY <1>9, <2>1, ConcatProperties
<1>11. /\ t \in Seq(Int) /\ Len(t) = n + 8
       /\ \A j \in 1 .. n + 8 : t[j] = IF j <= n THEN i[j] ELSE h[j - n]
  BY <1>3, <1>7, <1>8, <1>10
<1>12. PICK m \in Nat : m = Len(f)
  BY <1>5
<1>13. PICK d : d = f \o t
  OBVIOUS
<1>14. /\ d \in Seq(Int) /\ Len(d) = Len(f) + Len(t)
       /\ \A j \in 1 .. Len(f) + Len(t) : d[j] = IF j <= Len(f) THEN f[j] ELSE t[j - Len(f)]
  BY <1>5, <1>11, <1>13, ConcatProperties
<1>15. /\ Len(d) = m + (n + 8)
       /\ \A j \in 1 .. m + (n + 8) : d[j] = IF j <= m THEN f[j] ELSE t[j - m]
  BY <1>11, <1>12, <1>14
<1>16. \A j \in 1 .. m : d[j] = f[j]
  BY <1>15
<1>17. ASSUME NEW j \in 1 .. n + 8 PROVE d[m + j] = t[j]
  <2>1. m + j \in 1 .. m + (n + 8) /\ ~(m + j <= m) /\ (m + j) - m = j
    OBVIOUS
  <2> QED
    BY <1>15, <2>1
<1>18. ASSUME NEW j \in 1 .. n PROVE d[m + j] = i[j]
  <2>1. j \in 1 .. n + 8 /\ j <= n
    OBVIOUS
  <2> QED
    BY <1>11, <1>17, <2>1
<1>19. d[m + n + 3] = h[3] /\ d[m + n + 4] = h[4]
  <2>1. /\ n + 3 \in 1 .. n + 8 /\ ~(n + 3 <= n) /\ (n + 3) - n = 3 /\ m + n + 3 = m + (n + 3)
        /\ n + 4 \in 1 .. n + 8 /\ ~(n + 4 <= n) /\ (n + 4) - n = 4 /\ m + n + 4 = m + (n + 4)
    OBVIOUS
  <2>2. t[n + 3] = h[3] /\ t[n + 4] = h[4]
    BY <1>11, <2>1
  <2> QED
    BY <1>17, <2>1, <2>2
<1>20. d = Whole(l, bs)
  BY <1>1, <1>4, <1>6, <1>9, <1>13 DEF Whole
<1>21. m + n + 8 = m + (n + 8)
  OBVIOUS
<1> QED
  BY <1>3, <1>4, <1>5, <1>6, <1>8, <1>12, <1>14, <1>15, <1>16, <1>18, <1>19, <1>20, <1>21

\* The magic number is in the header only, so a file that lost its end does
\* not open, unless nothing is left of it.
LEMMA TornRefused ==
  ASSUME NEW l \in Seq(Seq(Payload)), NEW bs \in Seq(Info),
         NEW k \in Nat, k < Len(Whole(l, bs))
  PROVE  HeaderAccepted(SubSeq(Whole(l, bs), 1, k)) => SubSeq(Whole(l, bs), 1, k) = <<>>
<1> DEFINE S == Int \ {Magic}
<1>1. PICK w : w = Whole(l, bs)
  OBVIOUS
<1>2. PICK m : m = Len(Frames(l))
  OBVIOUS
<1>3. PICK n : n = 4 * Len(bs)
  OBVIOUS
<1>4. /\ w \in Seq(Int) /\ Len(w) = m + n + 8 /\ m \in Nat
      /\ \A j \in 1 .. m : w[j] = Frames(l)[j]
      /\ \A j \in 1 .. n : w[m + j] = Index(bs)[j]
  BY <1>1, <1>2, <1>3, WholeWords
<1>5. n \in Nat
  BY <1>3
<1>6. Nat \subseteq S /\ Payload \subseteq S
  BY DEF Magic, Payload
<1>7. \A j \in 1 .. m : Frames(l)[j] \in S
  <2> HIDE DEF S
  <2>1. l \in Seq(Seq(S))
    <3>1. Seq(Payload) \subseteq Seq(S)
      BY <1>6, SeqMonotonic
    <3> QED
      BY <3>1, SeqMonotonic
  <2>2. Frames(l) \in Seq(S)
    BY <1>6, <2>1, FramesTyped
  <2> QED
    BY <1>2, <2>2, ElementOfSeq
<1>8. \A j \in 1 .. n : Index(bs)[j] \in S
  <2>1. Index(bs) \in Seq(Nat) /\ Len(Index(bs)) = n
    BY <1>3, IndexWords
  <2>2. \A j \in 1 .. n : Index(bs)[j] \in Nat
    BY <2>1, ElementOfSeq
  <2> QED
    BY <1>6, <2>2
<1>9. ASSUME NEW j \in 1 .. m + n PROVE w[j] # Magic
  <2>1. CASE j <= m
    <3>1. j \in 1 .. m
      BY <1>4, <1>5, <2>1
    <3> QED
      BY <1>4, <1>7, <3>1
  <2>2. CASE ~(j <= m)
    <3>1. PICK i : i = j - m
      OBVIOUS
    <3>a. m \in Nat /\ n \in Nat /\ j \in Nat /\ j <= m + n
      BY <1>4, <1>5
    <3>2. i \in 1 .. n /\ j = m + i
      BY <2>2, <3>1, <3>a
    <3> QED
      BY <1>4, <1>8, <3>2
  <2> QED
    BY <2>1, <2>2
<1>10. PICK d : d = SubSeq(w, 1, k)
  OBVIOUS
<1>11. Len(d) = k /\ \A i \in 1 .. k : d[i] = w[i]
  <2>1. \A i \in 1 .. k : w[i] \in Int
    BY <1>1, <1>4
  <2> QED
    BY <2>1, <1>10, SubSeqProperties
<1>12. ASSUME Len(d) >= HeaderWords, d[Len(d) - HeaderWords + 1] = Magic
       PROVE  FALSE
  <2>1. PICK j : j = k - 8 + 1
    OBVIOUS
  <2>2. j \in 1 .. m + n /\ j \in 1 .. k
    BY <1>1, <1>4, <1>5, <1>11, <1>12, <2>1 DEF HeaderWords
  <2>3. d[j] = Magic
    BY <1>11, <1>12, <2>1 DEF HeaderWords
  <2> QED
    BY <1>9, <1>11, <2>2, <2>3
<1> QED
  BY <1>1, <1>10, <1>12 DEF HeaderAccepted

-----------------------------------------------------------------------------
(* What was read.                                                          *)

Settled(g, j) == Cardinality({i \in 1 .. j : g[i].st # "small_buf"})

LEMMA SettledTyped ==
  ASSUME NEW g, NEW j \in Nat
  PROVE  Settled(g, j) \in Nat /\ IsFiniteSet({i \in 1 .. j : g[i].st # "small_buf"})
<1>1. IsFiniteSet(1 .. j)
  BY FS_Interval
<1>2. {i \in 1 .. j : g[i].st # "small_buf"} \subseteq 1 .. j
  OBVIOUS
<1>3. IsFiniteSet({i \in 1 .. j : g[i].st # "small_buf"})
  BY <1>1, <1>2, FS_Subset
<1> QED
  BY <1>3, FS_CardinalityType DEF Settled

LEMMA SettledNothing == Settled(<<>>, 0) = 0
<1>1. {i \in 1 .. 0 : <<>>[i].st # "small_buf"} = {}
  OBVIOUS
<1> QED
  BY <1>1, FS_EmptySet DEF Settled

LEMMA SettledAppend ==
  ASSUME NEW g \in Seq(ReadResult), NEW r \in ReadResult
  PROVE  /\ \A j \in 1 .. Len(g) : Settled(Append(g, r), j) = Settled(g, j)
         /\ Settled(Append(g, r), Len(g) + 1)
              = IF r.st = "small_buf" THEN Settled(g, Len(g)) ELSE Settled(g, Len(g)) + 1
<1>1. PICK h : h = Append(g, r)
  OBVIOUS
<1>2. PICK n \in Nat : n = Len(g)
  BY LenProperties
<1>3. h[n + 1] = r /\ \A i \in 1 .. n : h[i] = g[i]
  BY <1>1, <1>2, AppendProperties
<1> DEFINE S(f, j) == {i \in 1 .. j : f[i].st # "small_buf"}
<1>4. ASSUME NEW j \in 1 .. n PROVE S(h, j) = S(g, j)
  <2>1. \A i \in 1 .. j : h[i] = g[i]
    BY <1>3
  <2> QED
    BY <2>1
<1>5. S(h, n) = S(g, n)
  BY <1>3
<1>6. CASE r.st = "small_buf"
  <2>1. S(h, n + 1) = S(h, n)
    <3>1. \A i : i \in 1 .. n + 1 <=> (i \in 1 .. n \/ i = n + 1)
      OBVIOUS
    <3> QED
      BY <1>3, <1>6, <3>1
  <2> QED
    BY <1>1, <1>2, <1>4, <1>5, <1>6, <2>1 DEF Settled
<1>7. CASE r.st # "small_buf"
  <2>1. S(h, n + 1) = S(g, n) \cup {n + 1}
    <3>1. \A i : i \in 1 .. n + 1 <=> (i \in 1 .. n \/ i = n + 1)
      OBVIOUS
    <3> QED
      BY <1>3, <1>5, <1>7, <3>1
  <2>2. n + 1 \notin S(g, n)
    OBVIOUS
  <2>3. IsFiniteSet(S(g, n))
    BY SettledTyped
  <2> HIDE DEF S
  <2>4. Cardinality(S(h, n + 1)) = Cardinality(S(g, n)) + 1
    BY <2>1, <2>2, <2>3, FS_AddElement
  <2> QED
    BY <1>1, <1>2, <1>4, <1>7, <2>4 DEF Settled, S
<1> QED
  BY <1>6, <1>7

-----------------------------------------------------------------------------
(* The inductive invariant.                                                *)

\* The file was closed after the last item.
Complete ==
  \E bs \in Seq(Info) :
    /\ bs # <<>> /\ BlocksRight(bs, log)
    /\ header = HeaderFor(log, bs)
    /\ disk = Whole(log, bs)

\* The items read so far are the first ones; as long as there are more of
\* them, the reader is where the next one begins.
ReaderRight ==
  /\ \A j \in 1 .. Len(got) :
       got[j].st # "small_buf" /\ Settled(got, j) <= Len(log) =>
         got[j] = Read("succ", log[Settled(got, j)])
  /\ Settled(got, Len(got)) <= Len(log) =>
       ~eof /\ pos = PosIn(log, Settled(got, Len(got)))

Unread == got = <<>>

WriterRight ==
  /\ mode = "none" => log = <<>> /\ header = HeaderFor(<<>>, <<>>)
  /\ mode = "out" =>
       BlocksRight(infos, log) /\ header = HeaderFor(log, infos) /\ disk = Frames(log)

BlockFileInv ==
  /\ FileInv
  /\ log \in Seq(Seq(Payload))
  /\ WriterRight
  /\ mode = "closed" => Complete
  /\ mode = "torn" /\ HeaderAccepted(disk) => disk = <<>>
  /\ mode # "in" => Unread
  /\ mode = "in" /\ disk # <<>> => Complete /\ ReaderRight

-----------------------------------------------------------------------------
(* It holds in the beginning, and every step keeps it.                     *)

LEMMA BlockFileInit == FileInit => BlockFileInv
<1> SUFFICES ASSUME FileInit PROVE BlockFileInv
  OBVIOUS
<1> USE DEF FileInit
<1>1. FileInv
  <2>1. <<>> \in Seq(Int) /\ <<>> \in Seq(Info) /\ <<>> \in Seq(Seq(Int))
        /\ <<>> \in Seq(ReadResult) /\ Len(<<>>) = 0
    BY EmptySeq
  <2>2. header \in [item_number : Nat, block_number : Nat] /\ eof \in BOOLEAN
    OBVIOUS
  <2> QED
    BY <2>1, <2>2 DEF FileInv
<1>2. WriterRight
  BY EmptySeq DEF WriterRight, HeaderFor
<1>3. log \in Seq(Seq(Payload))
  BY EmptySeq
<1> QED
  BY <1>1, <1>2, <1>3 DEF BlockFileInv, Unread

LEMMA BlockOpenForWrite ==
  ASSUME BlockFileInv, OpenForWrite
  PROVE  BlockFileInv'
<1>1. FileInv' /\ mode' = "out" /\ log' = log /\ got' = got
  BY OpenForWriteStep DEF BlockFileInv, OpenForWrite
<1>2. /\ log = <<>> /\ infos = <<>> /\ header = HeaderFor(<<>>, <<>>) /\ Unread
      /\ infos' = infos /\ header' = header /\ disk' = <<>>
  BY DEF BlockFileInv, WriterRight, FileInv, OpenForWrite
<1>3. BlocksRight(<<>>, <<>>)
  BY EmptySeq DEF BlocksRight
<1>4. WriterRight'
  BY <1>1, <1>2, <1>3, FramesEmpty DEF WriterRight
<1> QED
  BY <1>1, <1>2, <1>4 DEF BlockFileInv, Unread

LEMMA BlockAppendItem ==
  ASSUME BlockFileInv, NEW item \in Seq(Payload), AppendItem(item)
  PROVE  BlockFileInv'
<1>0. item \in Seq(Int)
  <2>1. Payload \subseteq Int
    BY DEF Payload
  <2> QED
    BY <2>1, SeqMonotonic
<1>1. FileInv' /\ mode' = "out" /\ log' = Append(log, item)
  BY <1>0, AppendItemStep DEF BlockFileInv
<1>2. PICK l : l = log
  OBVIOUS
<1>3. PICK bs : bs = infos
  OBVIOUS
<1>4. /\ l \in Seq(Seq(Payload)) /\ BlocksRight(bs, l) /\ header = HeaderFor(l, bs)
      /\ disk = Frames(l) /\ Len(disk) = EndPos(bs) /\ bs \in Seq(Info) /\ Unread
      /\ disk \in Seq(Int)
  BY <1>2, <1>3 DEF BlockFileInv, WriterRight, AppendItem, FileInv
<1>5. PICK cs : cs = AddToInfos(bs, Len(item))
  OBVIOUS
<1>6. BlocksRight(cs, Append(l, item))
  BY <1>4, <1>5, BlocksGrow
<1>7. /\ Append(l, item) \in Seq(Seq(Payload)) /\ Len(Append(l, item)) = Len(l) + 1
      /\ Frames(Append(l, item)) = Frames(l) \o Frame(item) /\ Len(item) \in Nat
  BY <1>4, PosAppend
<1>8. cs \in Seq(Info) /\ cs # <<>> /\ EndPos(cs) = EndPos(bs) + Len(item) + 1
      /\ EndPos(bs) \in Nat
  BY <1>4, <1>5, <1>7, AddToInfosTyped
<1>9. infos' = cs /\ got' = got
      /\ header' = [item_number |-> header.item_number + 1, block_number |-> Len(cs)]
  BY <1>3, <1>5 DEF AppendItem
<1>10. header' = HeaderFor(Append(l, item), cs)
  BY <1>4, <1>7, <1>9 DEF HeaderFor
<1>11. disk' = Frames(Append(l, item))
  <2>1. PICK p : p = Last(cs).end_pos - 1 - Len(item)
    OBVIOUS
  <2>2. p = Len(disk)
    <3>1. Last(cs).end_pos = EndPos(bs) + Len(item) + 1
      BY <1>8 DEF EndPos
    <3> QED
      BY <1>4, <1>7, <1>8, <2>1, <3>1
  <2>3. PICK f : f = Frame(item)
    OBVIOUS
  <2>4. f \in Seq(Int)
    <3>1. Nat \subseteq Int
      OBVIOUS
    <3> QED
      BY <1>0, <2>3, <3>1, FrameWords
  <2>5. disk' = WriteAt(disk, p, f)
    BY <1>9, <2>1, <2>3 DEF AppendItem, Frame
  <2>6. WriteAt(disk, Len(disk), f) = disk \o f
    BY <1>4, <2>4, WriteAtEnd
  <2> QED
    BY <1>4, <1>7, <2>2, <2>3, <2>5, <2>6
<1>12. WriterRight'
  BY <1>1, <1>2, <1>6, <1>9, <1>10, <1>11 DEF WriterRight
<1> QED
  BY <1>1, <1>2, <1>4, <1>7, <1>9, <1>12 DEF BlockFileInv, Unread

\* The end of the file that close() writes.
LEMMA BlockClosed ==
  ASSUME BlockFileInv, mode = "out", infos # <<>>
  PROVE  ClosedDisk = Whole(log, infos)
<1>1. FileInv /\ disk = Frames(log) /\ header = HeaderFor(log, infos)
  BY DEF BlockFileInv, WriterRight
<1> QED
  BY <1>1, ClosedDiskTyped DEF Whole

LEMMA BlockCloseFile ==
  ASSUME BlockFileInv, CloseFile
  PROVE  BlockFileInv'
<1>1. FileInv' /\ mode' = "closed" /\ log' = log
  BY CloseFileStep DEF BlockFileInv
<1>2. /\ mode = "out" /\ infos # <<>> /\ disk' = ClosedDisk /\ header' = header
      /\ got' = got
  BY DEF CloseFile
<1>3. PICK bs : bs = infos
  OBVIOUS
<1>4. PICK l : l = log
  OBVIOUS
<1>5. BlocksRight(bs, l) /\ header = HeaderFor(l, bs) /\ bs \in Seq(Info) /\ Unread
      /\ l \in Seq(Seq(Payload))
  BY <1>2, <1>3, <1>4 DEF BlockFileInv, WriterRight, FileInv
<1>6. disk' = Whole(l, bs)
  BY <1>2, <1>3, <1>4, BlockClosed
<1>7. Complete'
  BY <1>1, <1>2, <1>3, <1>4, <1>5, <1>6 DEF Complete
<1>8. WriterRight'
  BY <1>1 DEF WriterRight
<1> QED
  BY <1>1, <1>2, <1>4, <1>5, <1>7, <1>8 DEF BlockFileInv, Unread

LEMMA BlockWriterDies ==
  ASSUME BlockFileInv, WriterDies
  PROVE  BlockFileInv'
<1>1. FileInv' /\ mode' = "torn" /\ log' = log
  BY WriterDiesStep DEF BlockFileInv
<1>2. mode = "out" /\ got' = got
  BY DEF WriterDies
<1>3. PICK bs : bs = infos
  OBVIOUS
<1>4. PICK l : l = log
  OBVIOUS
<1>5. BlocksRight(bs, l) /\ bs \in Seq(Info) /\ l \in Seq(Seq(Payload)) /\ Unread
      /\ disk = Frames(l)
  BY <1>2, <1>3, <1>4 DEF BlockFileInv, WriterRight, FileInv
<1>6. CASE bs = <<>>
  <2>1. disk = <<>> /\ Len(disk) = 0
    BY <1>5, <1>6, FramesEmpty, EmptySeq DEF BlocksRight
  <2>2. \E k \in 0 .. Len(disk) - 1 : disk' = SubSeq(disk, 1, k)
    BY <1>3, <1>6 DEF WriterDies
  <2> QED
    BY <2>1, <2>2
<1>7. CASE bs # <<>>
  <2>1. PICK w : w = Whole(l, bs)
    OBVIOUS
  <2>2. w = ClosedDisk
    BY <1>2, <1>3, <1>4, <1>7, <2>1, BlockClosed
  <2>3. PICK k \in 0 .. Len(w) - 1 : disk' = SubSeq(w, 1, k)
    BY <1>3, <1>7, <2>2 DEF WriterDies
  <2>4. Len(w) \in Nat
    BY <1>5, <2>1, WholeWords, LenProperties
  <2>5. k \in Nat /\ k < Len(w)
    BY <2>4
  <2>6. HeaderAccepted(SubSeq(w, 1, k)) => SubSeq(w, 1, k) = <<>>
    BY <1>5, <2>1, <2>5, TornRefused
  <2>7. HeaderAccepted(disk)' => disk' = <<>>
    BY <2>3, <2>6 DEF HeaderAccepted
  <2>8. WriterRight'
    BY <1>1 DEF WriterRight
  <2> QED
    BY <1>1, <1>2, <1>4, <1>5, <2>7, <2>8 DEF BlockFileInv, Unread
<1> QED
  BY <1>6, <1>7

\* A reader that begins is where the first item is.
LEMMA ReaderBegins ==
  ASSUME BlockFileInv, log' = log, got' = <<>>, pos' = 0, eof' = FALSE
  PROVE  ReaderRight'
<1>1. PICK l : l = log
  OBVIOUS
<1>2. l \in Seq(Seq(Payload)) /\ Len(l) \in Nat
  BY <1>1 DEF BlockFileInv
<1>3. PosIn(l, 0) = 0
  BY <1>2, PosTyped
<1>4. Len(<<>>) = 0 /\ 1 .. 0 = {}
  BY EmptySeq
<1> QED
  BY <1>1, <1>2, <1>3, <1>4, SettledNothing DEF ReaderRight

LEMMA BlockOpenForRead ==
  ASSUME BlockFileInv, OpenForRead
  PROVE  BlockFileInv'
<1>1. FileInv' /\ mode' = "in" /\ log' = log
  BY OpenForReadStep DEF BlockFileInv
<1>2. /\ mode \in {"closed", "torn"} /\ HeaderAccepted(disk) /\ pos' = 0 /\ eof' = FALSE
      /\ disk' = disk /\ header' = header /\ infos' = infos /\ got' = got
  BY DEF OpenForRead
<1>3. got = <<>> /\ log \in Seq(Seq(Payload))
  BY <1>2 DEF BlockFileInv, Unread
<1>4. ReaderRight'
  BY <1>1, <1>2, <1>3, ReaderBegins
<1>5. disk # <<>> => Complete
  BY <1>2 DEF BlockFileInv
<1>6. Complete => Complete'
  BY <1>1, <1>2 DEF Complete
<1>7. WriterRight'
  BY <1>1 DEF WriterRight
<1> QED
  BY <1>1, <1>2, <1>3, <1>4, <1>5, <1>6, <1>7 DEF BlockFileInv

LEMMA BlockResetReadItem ==
  ASSUME BlockFileInv, ResetReadItem
  PROVE  BlockFileInv'
<1>1. /\ mode = "in" /\ pos' = 0 /\ eof' = FALSE /\ got' = <<>>
      /\ UNCHANGED <<disk, mode, header, infos, log>>
  BY DEF ResetReadItem
<1>2. FileInv'
  <2>1. FileInv /\ got' \in Seq(ReadResult) /\ Len(disk) \in Nat
    BY <1>1, EmptySeq, LenProperties DEF BlockFileInv, FileInv
  <2>a. eof' \in BOOLEAN
    BY <1>1
  <2>2. pos' \in Nat /\ pos' <= Len(disk)
    BY <1>1, <2>1
  <2>3. mode' = "in" /\ disk' = disk /\ header' = header /\ infos' = infos /\ log' = log
    BY <1>1
  <2> QED
    BY <2>1, <2>a, <2>2, <2>3 DEF FileInv
<1>3. ReaderRight'
  BY <1>1, ReaderBegins
<1>4. Complete => Complete'
  BY <1>1 DEF Complete
<1>5. WriterRight'
  BY <1>1 DEF WriterRight
<1> QED
  BY <1>1, <1>2, <1>3, <1>4, <1>5 DEF BlockFileInv

\* As long as there are items, next_item returns the next one or asks for a
\* larger buffer and stays where it is.
LEMMA NextItemRight ==
  ASSUME BlockFileInv, Complete, NEW n \in Nat, NEW c \in Nat, c < Len(log),
         ~eof, pos = PosIn(log, c)
  PROVE  \/ /\ NextItem(n).res = Read("small_buf", NoData)
            /\ NextItem(n).pos = pos /\ NextItem(n).eof = FALSE
         \/ /\ NextItem(n).res = Read("succ", log[c + 1])
            /\ NextItem(n).pos = PosIn(log, c + 1) /\ NextItem(n).eof = FALSE
<1>1. PICK bs \in Seq(Info) : disk = Whole(log, bs)
  BY DEF Complete
<1>2. log \in Seq(Seq(Payload)) /\ log \in Seq(Seq(Int)) /\ disk \in Seq(Int)
      /\ Len(disk) \in Nat /\ pos \in Nat
  BY PosTyped, LenProperties DEF BlockFileInv, FileInv
<1>3. PICK x : x = log[c + 1]
  OBVIOUS
<1>4. x \in Seq(Int) /\ Len(x) \in Nat
  BY <1>2, <1>3
<1>5. PICK f : f = Frame(x)
  OBVIOUS
<1>6. /\ f \in Seq(Int) /\ Len(f) = Len(x) + 1 /\ f[1] = Len(x)
      /\ \A j \in 1 .. Len(x) : f[j + 1] = x[j]
  <2>1. Nat \subseteq Int
    OBVIOUS
  <2> QED
    BY <1>4, <1>5, <2>1, FrameWords
<1>7. PICK a : a = Frames(SubSeq(log, 1, c))
  OBVIOUS
<1>8. a \in Seq(Int) /\ Len(a) = pos
  <2>1. SubSeq(log, 1, c) \in Seq(Seq(Int)) /\ Nat \subseteq Int
    BY <1>2, SubSeqTyped
  <2> QED
    BY <1>7, <2>1, FramesTyped DEF PosIn
<1>9. PICK b : b = Frames(SubSeq(log, 1, c + 1))
  OBVIOUS
<1>10. b = a \o f /\ \E t \in Seq(Int) : Frames(log) = b \o t
  <2>1. Nat \subseteq Int
    OBVIOUS
  <2> QED
    <3>1. /\ Frames(SubSeq(log, 1, c + 1)) = Frames(SubSeq(log, 1, c)) \o Frame(log[c + 1])
          /\ \E t \in Seq(Int) : Frames(log) = Frames(SubSeq(log, 1, c + 1)) \o t
      <4>1. PICK l : l = log
        OBVIOUS
      <4>2. l \in Seq(Seq(Int)) /\ c < Len(l)
        BY <1>2, <4>1
      <4>3. /\ Frames(SubSeq(l, 1, c + 1)) = Frames(SubSeq(l, 1, c)) \o Frame(l[c + 1])
            /\ \E t \in Seq(Int) : Frames(l) = Frames(SubSeq(l, 1, c + 1)) \o t
        BY <2>1, <4>2, FramesCut
      <4> QED
        BY <4>1, <4>3
    <3> QED
      BY <1>3, <1>5, <1>7, <1>9, <3>1
<1>11. PICK t \in Seq(Int) : Frames(log) = b \o t
  BY <1>10
<1>12. PICK q \in Nat : q = Len(x)
  BY <1>4
<1>13. /\ b \in Seq(Int) /\ Len(b) = pos + (q + 1)
       /\ \A j \in 1 .. pos + (q + 1) : b[j] = IF j <= pos THEN a[j] ELSE f[j - pos]
  <2>1. /\ b \in Seq(Int) /\ Len(b) = Len(a) + Len(f)
        /\ \A j \in 1 .. Len(a) + Len(f) : b[j] = IF j <= Len(a) THEN a[j] ELSE f[j - Len(a)]
    <3>1. a \in Seq(Int) /\ f \in Seq(Int) /\ b = a \o f
      BY <1>6, <1>8, <1>10
    <3> QED
      BY <3>1, ConcatProperties
  <2>2. Len(a) = pos /\ Len(f) = q + 1
    BY <1>6, <1>8, <1>12
  <2> QED
    BY <2>1, <2>2
<1>14. /\ Len(Frames(log)) = Len(b) + Len(t) /\ Len(t) \in Nat
       /\ \A j \in 1 .. Len(b) : Frames(log)[j] = b[j]
  BY <1>11, <1>13, ConcatProperties
<1>15. /\ Len(Frames(log)) <= Len(disk) /\ Len(Frames(log)) \in Nat
       /\ \A j \in 1 .. Len(Frames(log)) : disk[j] = Frames(log)[j]
  <2>1. PICK l : l = log
    OBVIOUS
  <2>2. l \in Seq(Seq(Payload)) /\ Len(bs) \in Nat
    BY <1>2, <2>1, LenProperties
  <2>3. /\ Len(Whole(l, bs)) = Len(Frames(l)) + 4 * Len(bs) + 8 /\ Len(Frames(l)) \in Nat
        /\ \A j \in 1 .. Len(Frames(l)) : Whole(l, bs)[j] = Frames(l)[j]
    BY <2>2, WholeWords
  <2>4. Len(Frames(l)) <= Len(Whole(l, bs))
    BY <2>2, <2>3
  <2> QED
    BY <1>1, <2>1, <2>3, <2>4
<1>16. ASSUME NEW j \in 1 .. q + 1 PROVE disk[pos + j] = f[j]
  <2>1. pos + j \in 1 .. pos + (q + 1) /\ ~(pos + j <= pos) /\ (pos + j) - pos = j
    BY <1>2
  <2>2. pos + j \in 1 .. Len(b) /\ pos + j \in 1 .. Len(Frames(log))
    BY <1>13, <1>14, <1>15, <2>1
  <2> QED
    BY <1>13, <1>14, <1>15, <2>1, <2>2
<1>17. disk[pos + 1] = q /\ pos + 1 + q <= Len(disk) /\ pos < Len(disk)
  <2>1. disk[pos + 1] = q
    BY <1>6, <1>12, <1>16
  <2>2. PICK m \in Nat : m = Len(Frames(log))
    BY <1>15
  <2>3. PICK k \in Nat : k = Len(t)
    BY <1>14
  <2>4. m = pos + (q + 1) + k /\ m <= Len(disk)
    BY <1>13, <1>14, <1>15, <2>2, <2>3
  <2>5. pos + 1 + q <= Len(disk) /\ pos < Len(disk)
    <3>1. PICK z \in Nat : z = pos
      BY <1>2
    <3>2. PICK y \in Nat : y = Len(disk)
      BY <1>2
    <3>3. m = z + (q + 1) + k /\ m <= y
      BY <2>4, <3>1, <3>2
    <3>4. z + 1 + q <= y /\ z < y
      BY <3>3
    <3> QED
      BY <3>1, <3>2, <3>4
  <2> QED
    BY <2>1, <2>5
<1>18. CASE TooLarge(q, n)
  <2>1. NextItem(n) = [res |-> Read("small_buf", NoData), pos |-> pos, eof |-> FALSE]
    BY <1>2, <1>17, <1>18 DEF NextItem
  <2> QED
    BY <2>1
<1>19. CASE ~TooLarge(q, n)
  <2>1. PICK e : e = pos + 1 + q
    OBVIOUS
  <2>2. e \in Nat /\ e <= Len(disk)
    <3>1. PICK z \in Nat : z = pos
      BY <1>2
    <3>2. e = z + 1 + q
      BY <2>1, <3>1
    <3>3. e \in Nat
      BY <3>2
    <3> QED
      BY <1>17, <2>1, <3>3
  <2>3. Min({e, Len(disk)}) = e
    <3>1. PICK y \in Nat : y = Len(disk)
      BY <1>2
    <3>2. e <= y
      BY <2>2, <3>1
    <3>3. \E least \in {e, y} : \A z \in {e, y} : least <= z
      BY <2>2, <3>2
    <3>4. Min({e, y}) \in {e, y} /\ \A z \in {e, y} : Min({e, y}) <= z
      BY <3>3 DEF Min
    <3>5. Min({e, y}) = e
      BY <2>2, <3>2, <3>4
    <3> QED
      BY <3>1, <3>5
  <2>4. PICK d : d = SubSeq(disk, pos + 2, e)
    OBVIOUS
  <2>5. NextItem(n) = [res |-> Read("succ", d), pos |-> e, eof |-> e > Len(disk)]
    BY <1>2, <1>17, <1>19, <2>1, <2>3, <2>4 DEF NextItem
  <2>6. d = x
    <3>1. \A i \in pos + 2 .. e : disk[i] \in Int
      BY <1>2, <2>2
    <3>2. PICK s : s = pos + 2
      OBVIOUS
    <3>3. s \in Int /\ e - s + 1 = q /\ (s <= e <=> q # 0)
      <4>1. PICK z \in Nat : z = pos
        BY <1>2
      <4>2. s = z + 2 /\ e = z + 1 + q
        BY <2>1, <3>2, <4>1
      <4> QED
        BY <4>2
    <3>4. /\ d \in Seq(Int) /\ Len(d) = (IF s <= e THEN e - s + 1 ELSE 0)
          /\ \A i \in 1 .. e - s + 1 : d[i] = disk[s + i - 1]
      BY <2>2, <2>4, <3>1, <3>2, <3>3, SubSeqProperties
    <3>5. Len(d) = q /\ \A i \in 1 .. q : d[i] = disk[s + i - 1]
      BY <3>3, <3>4
    <3>6. ASSUME NEW i \in 1 .. q PROVE d[i] = x[i]
      <4>1. s + i - 1 = pos + (i + 1) /\ i + 1 \in 1 .. q + 1
        BY <1>2, <3>2
      <4>2. disk[pos + (i + 1)] = f[i + 1]
        BY <1>16, <4>1
      <4> QED
        BY <1>6, <1>12, <3>5, <4>1, <4>2
    <3> QED
      BY <1>4, <1>12, <3>4, <3>5, <3>6, SeqEqual
  <2>7. (e > Len(disk)) = FALSE
    BY <1>2, <2>2
  <2>8. PosIn(log, c + 1) = e
    BY <1>2, <1>9, <1>13, <2>1 DEF PosIn
  <2> QED
    <3>1. NextItem(n) = [res |-> Read("succ", d), pos |-> e, eof |-> FALSE]
      BY <2>5, <2>7
    <3>2. NextItem(n).res = Read("succ", d) /\ NextItem(n).pos = e /\ NextItem(n).eof = FALSE
      BY <3>1
    <3> QED
      BY <1>3, <2>6, <2>8, <3>2
<1> QED
  BY <1>18, <1>19

\* The request for a larger buffer leaves the reader where it is, wherever that is.
LEMMA SmallBufStays ==
  ASSUME FileInv, NEW n \in Nat, NextItem(n).res.st = "small_buf"
  PROVE  NextItem(n).pos = pos /\ NextItem(n).eof = FALSE
<1>1. Len(disk) \in Nat /\ pos \in Nat /\ eof \in BOOLEAN
  BY LenProperties DEF FileInv
<1> DEFINE w == disk[pos + 1]
           end == Min({pos + 1 + w, Len(disk)})
<1>2. CASE eof \/ pos >= Len(disk)
  <2>1. NextItem(n) = [res |-> Read("eof", NoData), pos |-> pos, eof |-> TRUE]
    BY <1>1, <1>2 DEF NextItem
  <2> QED
    BY <2>1 DEF Read
<1>3. CASE ~eof /\ pos < Len(disk) /\ TooLarge(w, n)
  <2>1. NextItem(n) = [res |-> Read("small_buf", NoData), pos |-> pos, eof |-> FALSE]
    BY <1>1, <1>3 DEF NextItem
  <2> QED
    BY <2>1
<1>4. CASE ~eof /\ pos < Len(disk) /\ ~TooLarge(w, n)
  <2>1. NextItem(n) = [res |-> Read("succ", SubSeq(disk, pos + 2, end)), pos |-> end,
                       eof |-> pos + 1 + w > Len(disk)]
    BY <1>1, <1>4 DEF NextItem
  <2> HIDE DEF end
  <2> QED
    BY <2>1 DEF Read
<1>5. \/ eof \/ pos >= Len(disk)
      \/ ~eof /\ pos < Len(disk) /\ TooLarge(w, n)
      \/ ~eof /\ pos < Len(disk) /\ ~TooLarge(w, n)
  <2>1. pos >= Len(disk) \/ pos < Len(disk)
    BY <1>1
  <2> QED
    BY <2>1
<1> QED
  BY <1>2, <1>3, <1>4, <1>5

LEMMA BlockCallNextItem ==
  ASSUME BlockFileInv, NEW n \in Nat, CallNextItem(n)
  PROVE  BlockFileInv'
<1>1. FileInv' /\ mode' = "in" /\ log' = log
  BY CallNextItemStep DEF BlockFileInv
<1>2. PICK r : r = NextItem(n)
  OBVIOUS
<1>3. /\ mode = "in" /\ got' = Append(got, r.res) /\ pos' = r.pos /\ eof' = r.eof
      /\ disk' = disk /\ header' = header /\ infos' = infos
  BY <1>2 DEF CallNextItem
<1>4. FileInv /\ log \in Seq(Seq(Payload))
  BY DEF BlockFileInv
<1>5. r.res \in ReadResult
  BY <1>2, <1>4, NextItemTyped
<1>6. Complete => Complete'
  BY <1>1, <1>3 DEF Complete
<1>7. WriterRight'
  BY <1>1 DEF WriterRight
<1>8. ASSUME disk # <<>> PROVE ReaderRight'
  <2>1. Complete /\ ReaderRight
    BY <1>3, <1>8 DEF BlockFileInv
  <2>2. PICK g : g = got
    OBVIOUS
  <2>3. PICK h : h = Append(g, r.res)
    OBVIOUS
  <2>4. g \in Seq(ReadResult) /\ Len(g) \in Nat
    BY <1>4, <2>2, LenProperties DEF FileInv
  <2>5. /\ Len(h) = Len(g) + 1 /\ h[Len(g) + 1] = r.res
        /\ \A j \in 1 .. Len(g) : h[j] = g[j]
    BY <1>5, <2>3, <2>4, AppendProperties
  <2>6. PICK c : c = Settled(g, Len(g))
    OBVIOUS
  <2>7. c \in Nat /\ Len(log) \in Nat
    BY <1>4, <2>4, <2>6, SettledTyped, LenProperties
  <2>8. /\ \A j \in 1 .. Len(g) : Settled(h, j) = Settled(g, j)
        /\ Settled(h, Len(g) + 1) = IF r.res.st = "small_buf" THEN c ELSE c + 1
    BY <1>5, <2>3, <2>4, <2>6, SettledAppend
  <2>9. /\ \A j \in 1 .. Len(g) :
             g[j].st # "small_buf" /\ Settled(g, j) <= Len(log) =>
               g[j] = Read("succ", log[Settled(g, j)])
        /\ c <= Len(log) => ~eof /\ pos = PosIn(log, c)
    BY <2>1, <2>2, <2>6 DEF ReaderRight
  <2>10. got' = h
    BY <1>3, <2>2, <2>3
  <2>11. ASSUME c < Len(log)
         PROVE  \/ /\ r.res.st = "small_buf" /\ r.pos = PosIn(log, c) /\ r.eof = FALSE
                \/ /\ r.res = Read("succ", log[c + 1])
                   /\ r.pos = PosIn(log, c + 1) /\ r.eof = FALSE
    <3>1. ~eof /\ pos = PosIn(log, c)
      BY <2>7, <2>9, <2>11
    <3>2. Read("small_buf", NoData).st = "small_buf"
      BY DEF Read
    <3> QED
      BY <1>2, <2>1, <2>7, <2>11, <3>1, <3>2, NextItemRight
  <2>12. Read("succ", log[c + 1]).st = "succ"
    BY DEF Read
  <2>13. ASSUME NEW j \in 1 .. Len(h), h[j].st # "small_buf", Settled(h, j) <= Len(log)
         PROVE  h[j] = Read("succ", log[Settled(h, j)])
    <3>1. CASE j \in 1 .. Len(g)
      BY <2>5, <2>8, <2>9, <2>13, <3>1
    <3>2. CASE j = Len(g) + 1
      <4>1. Settled(h, j) = c + 1 /\ h[j] = r.res
        BY <2>5, <2>8, <2>13, <3>2
      <4>2. c < Len(log)
        BY <2>7, <2>13, <4>1
      <4> QED
        BY <2>11, <2>13, <4>1, <4>2
    <3> QED
      BY <2>4, <2>5, <3>1, <3>2
  <2>14. ASSUME Settled(h, Len(h)) <= Len(log)
         PROVE  ~r.eof /\ r.pos = PosIn(log, Settled(h, Len(h)))
    <3>1. CASE r.res.st = "small_buf"
      <4>1. Settled(h, Len(h)) = c /\ c <= Len(log)
        BY <2>5, <2>8, <2>14, <3>1
      <4>2. CASE c < Len(log)
        BY <2>11, <2>12, <3>1, <4>1, <4>2
      <4>3. CASE c = Len(log)
        \* Behind the last item the reader asks for a larger buffer and stays, too.
        <5>1. ~eof /\ pos = PosIn(log, c)
          BY <2>9, <4>1
        <5>2. r.pos = pos /\ r.eof = FALSE
          BY <1>2, <1>4, <3>1, SmallBufStays
        <5> QED
          BY <4>1, <5>1, <5>2
      <4> QED
        BY <2>7, <4>1, <4>2, <4>3
    <3>2. CASE r.res.st # "small_buf"
      <4>1. Settled(h, Len(h)) = c + 1 /\ c + 1 <= Len(log)
        BY <2>5, <2>8, <2>14, <3>2
      <4>2. c < Len(log)
        BY <2>7, <4>1
      <4> QED
        BY <2>11, <3>2, <4>1, <4>2
    <3> QED
      BY <3>1, <3>2
  <2> QED
    BY <1>1, <1>3, <2>10, <2>13, <2>14 DEF ReaderRight
<1> QED
  BY <1>1, <1>3, <1>4, <1>6, <1>7, <1>8 DEF BlockFileInv

LEMMA BlockFileStep ==
  ASSUME BlockFileInv, [FileStep(Seq(Payload), Nat)]_fvars
  PROVE  BlockFileInv'
<1>1. CASE FileStep(Seq(Payload), Nat)
  BY <1>1, BlockOpenForWrite, BlockAppendItem, BlockCloseFile, BlockWriterDies,
     BlockOpenForRead, BlockResetReadItem, BlockCallNextItem DEF FileStep
<1>2. CASE UNCHANGED fvars
  <2>1. /\ disk' = disk /\ mode' = mode /\ header' = header /\ infos' = infos
        /\ pos' = pos /\ eof' = eof /\ log' = log /\ got' = got
    BY <1>2 DEF fvars
  <2>2. FileInv' /\ WriterRight' /\ (Complete => Complete') /\ (ReaderRight => ReaderRight')
    <3>1. FileInv'
      BY <2>1 DEF BlockFileInv, FileInv, EndPos
    <3>2. WriterRight'
      BY <2>1 DEF BlockFileInv, WriterRight
    <3>3. Complete => Complete'
      BY <2>1 DEF Complete
    <3>4. ReaderRight => ReaderRight'
      BY <2>1 DEF ReaderRight
    <3> QED
      BY <3>1, <3>2, <3>3, <3>4
  <2> QED
    BY <2>1, <2>2 DEF BlockFileInv, Unread, HeaderAccepted
<1> QED
  BY <1>1, <1>2

-----------------------------------------------------------------------------
(* The theorems.                                                           *)

\* What the index of a closed file says.
LEMMA CompleteIndexed ==
  ASSUME BlockFileInv, Complete
  PROVE  IndexRight
<1>1. PICK bs \in Seq(Info) : bs # <<>> /\ BlocksRight(bs, log) /\ disk = Whole(log, bs)
  BY DEF Complete
<1>2. PICK n \in Nat : n = Len(bs)
  BY LenProperties
<1>3. PICK f \in Nat : f = Len(Frames(log))
  BY WholeWords DEF BlockFileInv
<1>4. /\ Len(disk) = f + 4 * n + 8
      /\ \A j \in 1 .. 4 * n : disk[f + j] = Index(bs)[j]
      /\ disk[f + 4 * n + 3] = n /\ disk[f + 4 * n + 4] = Len(log)
  BY <1>1, <1>2, <1>3, WholeWords DEF BlockFileInv
<1>5. StoredHeader = [block_number |-> n, item_number |-> Len(log)]
  <2>1. PICK h : h = Len(disk) - HeaderWords
    OBVIOUS
  <2>2. h + 3 = f + 4 * n + 3 /\ h + 4 = f + 4 * n + 4
    BY <1>4, <2>1 DEF HeaderWords
  <2>3. StoredHeader = [block_number |-> disk[h + 3], item_number |-> disk[h + 4]]
    BY <2>1 DEF StoredHeader
  <2> QED
    BY <1>4, <2>2, <2>3
<1>6. ASSUME NEW k \in 1 .. n PROVE StoredInfo(k) = bs[k]
  <2>1. PICK b : b = Len(disk) - HeaderWords - 4 * (n - k + 1)
    OBVIOUS
  <2>2. /\ b + 1 = f + (4 * k - 3) /\ b + 2 = f + (4 * k - 2)
        /\ b + 3 = f + (4 * k - 1) /\ b + 4 = f + 4 * k
    BY <1>4, <2>1 DEF HeaderWords
  <2>3. /\ 4 * k - 3 \in 1 .. 4 * n /\ 4 * k - 2 \in 1 .. 4 * n
        /\ 4 * k - 1 \in 1 .. 4 * n /\ 4 * k \in 1 .. 4 * n
    OBVIOUS
  <2>4. /\ disk[b + 1] = Index(bs)[4 * k - 3] /\ disk[b + 2] = Index(bs)[4 * k - 2]
        /\ disk[b + 3] = Index(bs)[4 * k - 1] /\ disk[b + 4] = Index(bs)[4 * k]
    BY <1>4, <2>2, <2>3
  <2>5. /\ Index(bs)[4 * k - 3] = bs[k].start_item /\ Index(bs)[4 * k - 2] = bs[k].end_item
        /\ Index(bs)[4 * k - 1] = bs[k].start_pos /\ Index(bs)[4 * k] = bs[k].end_pos
    BY <1>2, IndexWords
  <2>6. StoredInfo(k) = BlockInfo(disk[b + 1], disk[b + 2], disk[b + 3], disk[b + 4])
    BY <1>5, <2>1 DEF StoredInfo
  <2>7. bs[k] \in Info
    BY <1>2, ElementOfSeq
  <2>8. bs[k] = BlockInfo(bs[k].start_item, bs[k].end_item, bs[k].start_pos, bs[k].end_pos)
    BY <2>7 DEF BlockInfo, Info
  <2> QED
    BY <2>4, <2>5, <2>6, <2>8
<1>7. n # 0 /\ 1 \in 1 .. n /\ n \in 1 .. n
  BY <1>1, <1>2
<1>8. PICK B : B = [k \in 1 .. n |-> StoredInfo(k)]
  OBVIOUS
<1>9. \A k \in 1 .. n : B[k] = bs[k]
  BY <1>6, <1>8
<1>10. B[1].start_item = 0 /\ B[n].end_item = Len(log)
  BY <1>1, <1>2, <1>7, <1>9 DEF BlocksRight
<1>11. ASSUME NEW k \in 1 .. n
       PROVE  /\ B[k].start_pos = ItemPos(B[k].start_item)
              /\ B[k].end_pos = ItemPos(B[k].end_item)
              /\ k < n => /\ B[k].end_item = B[k + 1].start_item
                          /\ B[k].end_item - B[k].start_item = PerBlock
  <2>1. BlockRight(bs[k], log)
    BY <1>1, <1>2 DEF BlocksRight
  <2>2. ASSUME k < n PROVE Joined(bs[k], bs[k + 1]) /\ k + 1 \in 1 .. n
    <3>1. k \in 1 .. n - 1 /\ k + 1 \in 1 .. n
      BY <2>2
    <3> QED
      BY <1>1, <1>2, <3>1 DEF BlocksRight
  <2> QED
    BY <1>9, <2>1, <2>2 DEF BlockRight, Joined, PosIn, ItemPos
<1>12. StoredHeader.block_number = n /\ StoredHeader.item_number = Len(log)
  BY <1>5
<1> QED
  BY <1>8, <1>10, <1>11, <1>12 DEF IndexRight

LEMMA BlockFileSound == BlockFileInv => FileSound
<1> SUFFICES ASSUME BlockFileInv PROVE FileSound
  OBVIOUS
<1>1. FileTypeOK
  <2>1. FileInv
    BY DEF BlockFileInv
  <2>2. \A k \in DOMAIN disk : disk[k] \in Int
    BY <2>1 DEF FileInv
  <2>3. header.item_number \in Nat /\ header.block_number \in Nat
    BY <2>1 DEF FileInv
  <2>4. \A k \in DOMAIN got : got[k].st \in {"succ", "small_buf", "eof"}
    <3>1. \A k \in DOMAIN got : got[k] \in ReadResult
      BY <2>1 DEF FileInv
    <3> QED
      BY <3>1 DEF ReadResult
  <2>5. pos \in 0 .. Len(disk)
    BY <2>1, LenProperties DEF FileInv
  <2>6. mode \in {"none", "out", "closed", "torn", "in"} /\ eof \in BOOLEAN
    BY <2>1 DEF FileInv
  <2> QED
    BY <2>2, <2>3, <2>4, <2>5, <2>6 DEF FileTypeOK
<1>2. ReadsBack
  <2>1. DOMAIN got = 1 .. Len(got)
    BY LenProperties DEF BlockFileInv, FileInv
  <2>2. mode = "in" /\ disk # <<>> => ReaderRight
    BY DEF BlockFileInv
  <2>3. \A j : SettledBy(j) = Settled(got, j)
    BY DEF SettledBy, Settled
  <2> QED
    BY <2>1, <2>2, <2>3 DEF ReadsBack, ReaderRight
<1>3. IndexRight
  <2>1. CASE mode = "closed"
    BY <2>1, CompleteIndexed DEF BlockFileInv
  <2>2. CASE mode # "closed"
    BY <2>2 DEF IndexRight
  <2> QED
    BY <2>1, <2>2
<1> QED
  BY <1>1, <1>2, <1>3 DEF FileSound

LEMMA BlockFileOpened == BlockFileInv => OpenedIsComplete
<1> SUFFICES ASSUME BlockFileInv, mode = "in", disk # <<>>
             PROVE  Len(disk) = Len(Frames(log)) + 4 * header.block_number + HeaderWords
  BY DEF OpenedIsComplete
<1>1. PICK bs \in Seq(Info) : header = HeaderFor(log, bs) /\ disk = Whole(log, bs)
  BY DEF BlockFileInv, Complete
<1>2. Len(Whole(log, bs)) = Len(Frames(log)) + 4 * Len(bs) + 8
  BY WholeWords DEF BlockFileInv
<1>3. header.block_number = Len(bs)
  BY <1>1 DEF HeaderFor
<1> QED
  BY <1>1, <1>2, <1>3 DEF HeaderWords

\* The block file as it is written and read, in every mode: the inductive invariant.
THEOREM BlockFileInvariant == BlockFileSpec => []BlockFileInv
<1>1. FileInit => BlockFileInv
  BY BlockFileInit
<1>2. BlockFileInv /\ [FileStep(Seq(Payload), Nat)]_fvars => BlockFileInv'
  BY BlockFileStep
<1> QED
  BY <1>1, <1>2, PTL DEF BlockFileSpec

\* The n-th item that next_item returns is the n-th that append_item wrote, whatever buffers
\* the reader asked with, and the block infos of a closed file are right.
THEOREM FileSoundHolds == BlockFileSpec => []FileSound
BY BlockFileInvariant, BlockFileSound, PTL

\* A file that opens and is not empty was closed by its writer: read_header() refuses what a
\* writer that died has left, wherever it died.
THEOREM OpenedIsCompleteHolds == BlockFileSpec => []OpenedIsComplete
BY BlockFileInvariant, BlockFileOpened, PTL

-----------------------------------------------------------------------------
(* Part II: the sealed data.                                              *)

-----------------------------------------------------------------------------
(* The inductive invariant.                                                *)

Item == DOMAIN Size
SealPcs == {"start", "loop", "return0", "return1", "sealed", "failed", "died",
            "done"}

\* The data hub's variables have their types.
HubTyped ==
  /\ src \in Seq(Item)
  /\ seal \in [pc : SealPcs, item : Item \cup {NoItem}, counter : Nat,
               batch : Seq(Int), size : Nat, hash : Seq(Int), cut : BOOLEAN]
  /\ seal.size < MaxItemSize
  /\ damaged \in BOOLEAN

\* What was hashed is the data read so far.
HubRead ==
  /\ seal.counter <= Len(src)
  /\ seal.hash = SubSeq(src, 1, seal.counter)

\* It is in the file or still in the batch.
HubKept == FlattenSeq(log) \o seal.batch = seal.hash

\* In the loop the item is the next one, unless its read failed.
HubLoop ==
  seal.pc = "loop" =>
    /\ seal.item # NoItem /\ seal.counter < Len(src) =>
         seal.item = src[seal.counter + 1]
    /\ seal.cut = Cut(seal.counter + 1, seal.item)

\* After the loop nothing is left in the batch, and all was read if no read
\* failed.
HubEnd ==
  seal.pc \in {"return0", "sealed", "done"} =>
    seal.batch = <<>> /\ (~seal.cut => seal.counter = Len(src))

\* Which of the file's modes goes with which part of seal_file.
HubModes ==
  /\ seal.pc = "start" => mode = "none" /\ seal.counter = 0
  /\ seal.pc \in {"loop", "return0", "return1"} => mode = "out"
  /\ seal.pc \in {"sealed", "failed"} => mode = "closed"
  /\ seal.pc = "died" => mode = "torn"
  /\ seal.pc = "done" => mode \in {"closed", "in"}

HubMeta == meta = IF seal.pc = "done" THEN seal.hash ELSE None

HubInv == HubRead /\ HubKept /\ HubLoop /\ HubEnd /\ HubModes /\ HubMeta

Provider == [end : BOOLEAN, items : Seq(Int), index : Nat, hash : Seq(Int)]

\* A provider's hash is of what it gave to the engine and of the rest of its
\* batch.
ProvidersInv ==
  /\ prov \in [DOMAIN prov -> Provider]
  /\ out \in [DOMAIN prov -> Seq(Int)]
  /\ \A p \in DOMAIN prov :
       /\ prov[p].index <= Len(prov[p].items)
       /\ prov[p].hash = out[p] \o SubSeq(prov[p].items, prov[p].index + 1,
                                          Len(prov[p].items))
       /\ prov[p].end => prov[p].index = Len(prov[p].items)

\* The verdict is about the published hash.
VerdictInv ==
  /\ verdict \in {"none", "ok", "refused"}
  /\ verdict # "none" => mode = "in"
  /\ verdict = "ok" => \A p \in DOMAIN prov : prov[p].hash = meta

SealedInv == FileInv /\ HubTyped /\ HubInv /\ ProvidersInv /\ VerdictInv

-----------------------------------------------------------------------------
(* Damage to the file.                                                     *)

\* A damaged list of batches is a list of batches.
LEMMA DamagesTyped ==
  ASSUME NEW l \in Seq(Seq(Int)), NEW d \in Damages(l)
  PROVE  d \in Seq(Seq(Int))
<1>0. Len(l) \in Nat /\ DOMAIN l = 1 .. Len(l)
  OBVIOUS
<1>a. ASSUME NEW m \in Nat \ {0}, NEW n \in Nat, n <= Len(l)
      PROVE  SubSeq(l, m, n) \in Seq(Seq(Int))
  <2>1. \A i \in m .. n : l[i] \in Seq(Int)
    BY <1>a, <1>0
  <2> QED
    BY <2>1, <1>a, SubSeqProperties
<1>b. ASSUME NEW k \in DOMAIN l
      PROVE  /\ SubSeq(l, 1, k - 1) \in Seq(Seq(Int))
             /\ SubSeq(l, k + 1, Len(l)) \in Seq(Seq(Int))
             /\ SubSeq(l, k, Len(l)) \in Seq(Seq(Int))
             /\ <<l[k]>> \in Seq(Seq(Int))
  <2>1. k - 1 \in Nat /\ k - 1 <= Len(l) /\ k + 1 \in Nat \ {0} /\ k \in Nat \ {0}
        /\ Len(l) <= Len(l) /\ l[k] \in Seq(Int)
    BY <1>0
  <2> QED
    BY <1>0, <1>a, <2>1
<1>1. ASSUME NEW k \in DOMAIN l, d = RemoveAt(l, k)
      PROVE  d \in Seq(Seq(Int))
  BY <1>1, <1>b, ConcatProperties DEF RemoveAt
<1>2. ASSUME NEW k \in DOMAIN l, d = InsertAt(l, k, l[k])
      PROVE  d \in Seq(Seq(Int))
  <2>1. SubSeq(l, 1, k - 1) \o <<l[k]>> \in Seq(Seq(Int))
    BY <1>b, ConcatProperties
  <2> QED
    BY <1>2, <1>b, <2>1, ConcatProperties DEF InsertAt
<1>3. ASSUME NEW j \in DOMAIN l, NEW k \in DOMAIN l,
             d = [l EXCEPT ![j] = l[k], ![k] = l[j]]
      PROVE  d \in Seq(Seq(Int))
  BY <1>0, <1>3
<1>4. ASSUME NEW k \in DOMAIN l, d = [l EXCEPT ![k] = <<Foreign>>]
      PROVE  d \in Seq(Seq(Int))
  BY <1>0, <1>4 DEF Foreign
<1> QED
  BY <1>1, <1>2, <1>3, <1>4 DEF Damages

LEMMA DamageStep ==
  ASSUME FileInv, Damage
  PROVE  FileInv' /\ mode' = mode /\ log' = log
<1>1. PICK l \in Damages(log) :
        disk' = Frames(l) \o SubSeq(disk, Len(Frames(log)) + 1, Len(disk))
  BY DEF Damage
<1>2. log \in Seq(Seq(Int)) /\ disk \in Seq(Int) /\ Len(disk) \in Nat
  BY DEF FileInv
<1>3. Frames(l) \in Seq(Int) /\ Len(Frames(log)) \in Nat
  <2>1. l \in Seq(Seq(Int)) /\ Nat \subseteq Int
    BY <1>1, <1>2, DamagesTyped
  <2>2. Frames(l) \in Seq(Int) /\ Frames(log) \in Seq(Int)
    BY <1>2, <2>1, FramesTyped
  <2> QED
    BY <2>2, LenProperties
<1>4. PICK m : m = Len(Frames(log)) + 1
  OBVIOUS
<1>5. SubSeq(disk, m, Len(disk)) \in Seq(Int)
  BY <1>2, <1>3, <1>4, SubSeqTyped
<1>6. disk' \in Seq(Int) /\ Len(disk') \in Nat
  BY <1>1, <1>3, <1>4, <1>5, ConcatProperties
<1> QED
  BY <1>6 DEF FileInv, Damage

-----------------------------------------------------------------------------
(* The data hub's steps.                                                   *)

LEMMA ItemFacts ==
  /\ Item \subseteq Int /\ NoItem \notin Item
  /\ \A i \in Item : Size[i] \in Nat
  /\ MaxItemSize \in Nat \ {0}
BY SealedAssumption DEF Item, NoItem

\* The data that is read, item by item.
LEMMA ReadOn ==
  ASSUME NEW s \in Seq(Int), NEW n \in Nat, n < Len(s)
  PROVE  Append(SubSeq(s, 1, n), s[n + 1]) = SubSeq(s, 1, n + 1)
<1>1. 1 \in 1 .. Len(s) /\ n + 1 \in 1 .. Len(s) /\ (n + 1) - 1 = n
  OBVIOUS
<1>2. SubSeq(s, 1, n + 1) = SubSeq(s, 1, (n + 1) - 1) \o <<s[n + 1]>>
  BY <1>1, SubSeqRecursiveSecond
<1>3. SubSeq(s, 1, n) \in Seq(Int) /\ s[n + 1] \in Int
  BY <1>1, SubSeqTyped
<1>4. Append(SubSeq(s, 1, n), s[n + 1]) = SubSeq(s, 1, n) \o <<s[n + 1]>>
  BY <1>3, AppendIsConcat
<1> QED
  BY <1>1, <1>2, <1>4

\* An item behind the batch is one behind all of the data.
LEMMA BehindBatch ==
  ASSUME NEW f \in Seq(Int), NEW b \in Seq(Int), NEW i \in Int
  PROVE  f \o Append(b, i) = Append(f \o b, i)
<1>1. Append(b, i) = b \o <<i>> /\ <<i>> \in Seq(Int)
  BY AppendIsConcat
<1>2. f \o b \in Seq(Int)
  BY ConcatProperties
<1>3. Append(f \o b, i) = (f \o b) \o <<i>>
  BY <1>2, AppendIsConcat
<1>4. (f \o b) \o <<i>> = f \o (b \o <<i>>)
  BY <1>1, ConcatAssociative
<1> QED
  BY <1>1, <1>3, <1>4

\* The providers and the verdict do not see the data hub.
LEMMA HubFrame ==
  ASSUME ProvidersInv, VerdictInv, mode # "in",
         UNCHANGED <<prov, out, verdict>>
  PROVE  ProvidersInv' /\ VerdictInv'
<1>1. ProvidersInv'
  BY DEF ProvidersInv
<1>2. verdict = "none"
  BY DEF VerdictInv
<1> QED
  BY <1>1, <1>2 DEF VerdictInv

LEMMA SealStartStep ==
  ASSUME SealedInv, SealStart
  PROVE  SealedInv'
<1>0. FileInv /\ HubTyped /\ HubInv /\ ProvidersInv /\ VerdictInv
  BY DEF SealedInv
<1>1. FileInv' /\ mode' = "out" /\ log' = log
  BY <1>0, OpenForWriteStep DEF SealStart
<1>2. PICK first \in ItemData(1) :
        seal' = [seal EXCEPT !.item = first, !.cut = Cut(1, first),
                   !.pc = IF TooBig(first) THEN "return1" ELSE "loop"]
  BY DEF SealStart
<1> DEFINE c == Cut(1, first)
           q == IF TooBig(first) THEN "return1" ELSE "loop"
<1>3. /\ c \in BOOLEAN /\ q \in {"return1", "loop"}
      /\ c = (first = NoItem /\ 1 <= Len(src))
      /\ seal' = [seal EXCEPT !.item = first, !.cut = c, !.pc = q]
  BY <1>2 DEF Cut
<1>4. /\ first \in Item \cup {NoItem}
      /\ first # NoItem /\ 0 < Len(src) => first = src[1]
  BY <1>0, <1>2 DEF ItemData, HubTyped
<1> HIDE DEF c, q
<1>5. /\ seal' \in [pc : SealPcs, item : Item \cup {NoItem}, counter : Nat,
                    batch : Seq(Int), size : Nat, hash : Seq(Int), cut : BOOLEAN]
      /\ seal'.pc = q /\ seal'.item = first /\ seal'.cut = c
      /\ seal'.counter = seal.counter /\ seal'.batch = seal.batch
      /\ seal'.size = seal.size /\ seal'.hash = seal.hash
  BY <1>0, <1>3, <1>4 DEF HubTyped, SealPcs
<1>6. /\ seal.pc = "start" /\ seal.counter = 0 /\ mode = "none"
      /\ seal'.pc \in {"return1", "loop"}
  BY <1>0, <1>3, <1>5 DEF SealStart, HubInv, HubModes
<1>7. meta' = meta /\ src' = src
  BY DEF SealStart
<1>8. HubTyped'
  BY <1>0, <1>5 DEF HubTyped, SealStart
<1>9. HubInv'
  <2>1. HubRead'
    BY <1>0, <1>5, <1>7 DEF HubInv, HubRead
  <2>2. HubKept'
    BY <1>0, <1>1, <1>5 DEF HubInv, HubKept
  <2>3. HubLoop'
    <3>1. seal.cut' = c /\ seal.item' = first /\ seal.counter' = 0
      BY <1>5, <1>6
    <3>2. c = Cut(seal.counter + 1, seal.item)'
      BY <1>3, <1>7, <3>1 DEF Cut
    <3>3. seal.cut' = Cut(seal.counter + 1, seal.item)'
      BY <3>1, <3>2
    <3>4. (seal.item # NoItem /\ seal.counter < Len(src) =>
             seal.item = src[seal.counter + 1])'
      BY <1>4, <1>7, <3>1
    <3> QED
      BY <3>3, <3>4 DEF HubLoop
  <2>4. HubEnd' /\ HubModes'
    BY <1>1, <1>6 DEF HubEnd, HubModes
  <2>5. HubMeta'
    BY <1>0, <1>6, <1>7 DEF HubInv, HubMeta
  <2> QED
    BY <2>1, <2>2, <2>3, <2>4, <2>5 DEF HubInv
<1>10. ProvidersInv' /\ VerdictInv'
  BY <1>0, <1>6, HubFrame DEF SealStart
<1> QED
  BY <1>1, <1>8, <1>9, <1>10 DEF SealedInv

LEMMA SealItemStep ==
  ASSUME SealedInv, SealItem
  PROVE  SealedInv'
<1>0. FileInv /\ HubTyped /\ HubInv /\ ProvidersInv /\ VerdictInv
  BY DEF SealedInv
<1> DEFINE batch == Append(seal.batch, seal.item)
           size == seal.size + Size[seal.item]
           full == size >= MaxItemSize
           hash == Append(seal.hash, seal.item)
<1>1. PICK next \in ItemData(seal.counter + 2) :
        /\ IF full THEN AppendItem(batch) ELSE UNCHANGED fvars
        /\ seal' = [pc |-> IF TooBig(next) THEN "return1" ELSE "loop",
                    item |-> next,
                    counter |-> seal.counter + 1,
                    batch |-> IF full THEN <<>> ELSE batch,
                    size |-> IF full THEN 0 ELSE size,
                    hash |-> hash,
                    cut |-> Cut(seal.counter + 2, next)]
  BY DEF SealItem
<1>2. /\ seal.counter \in Nat /\ seal.batch \in Seq(Int) /\ seal.size \in Nat
      /\ seal.hash \in Seq(Int) /\ src \in Seq(Item) /\ Len(src) \in Nat
  BY <1>0 DEF HubTyped
<1>a. seal.pc = "loop" /\ mode = "out" /\ meta = None /\ seal.counter < Len(src)
  BY <1>0 DEF SealItem, InLoop, HubInv, HubModes, HubMeta
<1>b. seal.item = src[seal.counter + 1]
  BY <1>0 DEF SealItem, InLoop, HubInv, HubLoop
<1>3. seal.item \in Item /\ seal.item \in Int /\ src \in Seq(Int)
  <2>1. src \in Seq(Int)
    BY <1>2, ItemFacts, SeqMonotonic
  <2>2. seal.item \in Item
    BY <1>2, <1>a, <1>b
  <2> QED
    BY <2>1, <2>2, ItemFacts
<1>4. /\ batch \in Seq(Int) /\ size \in Nat /\ hash \in Seq(Int)
  BY <1>2, <1>3, ItemFacts
<1>5. /\ next \in Item \cup {NoItem}
      /\ next # NoItem /\ seal.counter + 1 < Len(src) =>
           next = src[seal.counter + 2]
  BY <1>1, <1>2 DEF ItemData
<1>6. Cut(seal.counter + 2, next) \in BOOLEAN
  BY DEF Cut
<1>7. seal' \in [pc : SealPcs, item : Item \cup {NoItem}, counter : Nat,
                 batch : Seq(Int), size : Nat, hash : Seq(Int), cut : BOOLEAN]
      /\ seal'.size < MaxItemSize
  <2> HIDE DEF batch, size, hash
  <2>1. (IF full THEN <<>> ELSE batch) \in Seq(Int)
    BY <1>4
  <2>2. (IF full THEN 0 ELSE size) \in Nat /\ (IF full THEN 0 ELSE size) < MaxItemSize
    BY <1>4, ItemFacts
  <2>3. (IF TooBig(next) THEN "return1" ELSE "loop") \in SealPcs
    BY DEF SealPcs
  <2>4. seal.counter + 1 \in Nat
    BY <1>2
  <2> HIDE DEF full
  <2> QED
    BY <1>1, <1>4, <1>5, <1>6, <2>1, <2>2, <2>3, <2>4
<1>8. /\ seal'.pc \in {"return1", "loop"} /\ seal'.item = next
      /\ seal'.counter = seal.counter + 1
      /\ seal'.batch = IF full THEN <<>> ELSE batch
      /\ seal'.hash = hash /\ seal'.cut = Cut(seal.counter + 2, next)
  <2> HIDE DEF batch, size, hash, full
  <2> QED
    BY <1>1
<1>9. /\ FileInv' /\ mode' = "out"
      /\ log' = IF full THEN Append(log, batch) ELSE log
  <2>1. CASE full
    <3>1. PICK b : b = batch
      OBVIOUS
    <3>2. AppendItem(b)
      BY <1>1, <2>1, <3>1 DEF AppendItem
    <3> QED
      BY <1>0, <1>4, <2>1, <3>1, <3>2, AppendItemStep
  <2>2. CASE ~full
    BY <1>0, <1>1, <1>a, <2>2 DEF fvars, FileInv, EndPos
  <2> QED
    BY <2>1, <2>2
<1>10. HubTyped'
  BY <1>0, <1>7 DEF HubTyped, SealItem
<1>11. hash = SubSeq(src, 1, seal.counter + 1)
  <2>1. PICK n \in Nat : n = seal.counter
    BY <1>2
  <2>2. hash = Append(SubSeq(src, 1, n), src[n + 1])
    BY <1>0, <1>b, <2>1 DEF HubInv, HubRead
  <2> QED
    BY <1>3, <1>a, <2>1, <2>2, ReadOn
<1>12. (FlattenSeq(log) \o seal.batch)' = hash
  <2>1. log \in Seq(Seq(Int)) /\ FlattenSeq(log) \in Seq(Int)
    BY <1>0, FlattenTyped DEF FileInv
  <2>2. FlattenSeq(log) \o batch = hash
    <3>1. FlattenSeq(log) \o batch = Append(FlattenSeq(log) \o seal.batch, seal.item)
      BY <1>2, <1>3, <2>1, BehindBatch
    <3> QED
      BY <1>0, <3>1 DEF HubInv, HubKept
  <2>3. CASE full
    <3>1. FlattenSeq(Append(log, batch)) = FlattenSeq(log) \o batch
      BY <1>4, <2>1, FlattenAppend
    <3>2. log' = Append(log, batch) /\ seal'.batch = <<>>
      BY <1>8, <1>9, <2>3
    <3>3. hash \o <<>> = hash
      BY <1>4, ConcatEmptySeq
    <3> HIDE DEF batch, hash
    <3> QED
      BY <2>2, <3>1, <3>2, <3>3
  <2>4. CASE ~full
    <3>1. log' = log /\ seal'.batch = batch
      BY <1>8, <1>9, <2>4
    <3> HIDE DEF batch, hash
    <3> QED
      BY <2>2, <3>1
  <2> QED
    BY <2>3, <2>4
<1>13. HubInv'
  <2>1. meta' = None /\ src' = src
    BY <1>a DEF SealItem
  <2> HIDE DEF batch, hash, full
  <2>2. HubRead'
    BY <1>2, <1>a, <1>8, <1>11, <2>1 DEF HubRead
  <2>3. HubKept'
    BY <1>8, <1>12 DEF HubKept
  <2>4. HubLoop'
    <3>1. seal.cut' = Cut(seal.counter + 2, next) /\ seal.item' = next
          /\ seal.counter' = seal.counter + 1
      BY <1>8
    <3>2. Cut(seal.counter + 2, next) = Cut(seal.counter + 1, seal.item)'
      BY <1>2, <2>1, <3>1 DEF Cut
    <3>3. seal.cut' = Cut(seal.counter + 1, seal.item)'
      BY <3>1, <3>2
    <3>4. (seal.item # NoItem /\ seal.counter < Len(src) =>
             seal.item = src[seal.counter + 1])'
      BY <1>2, <1>5, <2>1, <3>1
    <3> QED
      BY <3>3, <3>4 DEF HubLoop
  <2>5. HubEnd' /\ HubModes'
    BY <1>8, <1>9 DEF HubEnd, HubModes
  <2>6. HubMeta'
    BY <1>8, <2>1 DEF HubMeta
  <2> QED
    BY <2>2, <2>3, <2>4, <2>5, <2>6 DEF HubInv
<1>14. ProvidersInv' /\ VerdictInv'
  BY <1>0, <1>a, HubFrame DEF SealItem
<1> QED
  BY <1>9, <1>10, <1>13, <1>14 DEF SealedInv

\* After a step of the hub that ends the loop or follows it.
LEMMA SealEndStep ==
  ASSUME SealedInv, NEW q \in SealPcs, NEW b \in Seq(Int), NEW n \in Nat,
         n < MaxItemSize,
         seal' = [seal EXCEPT !.pc = q, !.batch = b, !.size = n],
         UNCHANGED <<src, damaged>>
  PROVE  /\ HubTyped' /\ HubRead'
         /\ seal'.pc = q /\ seal'.batch = b /\ seal'.hash = seal.hash
         /\ seal'.counter = seal.counter /\ seal'.cut = seal.cut
<1>1. HubTyped /\ HubRead
  BY DEF SealedInv, HubInv
<1>2. /\ seal' \in [pc : SealPcs, item : Item \cup {NoItem}, counter : Nat,
                    batch : Seq(Int), size : Nat, hash : Seq(Int), cut : BOOLEAN]
      /\ seal'.pc = q /\ seal'.batch = b /\ seal'.hash = seal.hash
      /\ seal'.size = n
      /\ seal'.counter = seal.counter /\ seal'.cut = seal.cut
  BY <1>1 DEF HubTyped
<1> QED
  BY <1>1, <1>2 DEF HubTyped, HubRead

LEMMA SealRestStep ==
  ASSUME SealedInv, SealRest
  PROVE  SealedInv'
<1>0. FileInv /\ HubTyped /\ HubInv /\ ProvidersInv /\ VerdictInv
  BY DEF SealedInv
<1>1. /\ seal.counter \in Nat /\ seal.batch \in Seq(Int) /\ seal.hash \in Seq(Int)
      /\ Len(src) \in Nat /\ seal.cut \in BOOLEAN /\ log \in Seq(Seq(Int))
  BY <1>0 DEF HubTyped, FileInv
<1>2. seal.pc = "loop" /\ mode = "out" /\ meta = None
  BY <1>0 DEF SealRest, HubInv, HubModes, HubMeta
<1>3. /\ HubTyped' /\ HubRead'
      /\ seal'.pc = "return0" /\ seal'.batch = <<>> /\ seal'.hash = seal.hash
      /\ seal'.counter = seal.counter /\ seal'.cut = seal.cut
  <2>1. seal' = [seal EXCEPT !.pc = "return0", !.batch = <<>>, !.size = 0]
        /\ UNCHANGED <<src, damaged>>
    BY DEF SealRest
  <2>2. "return0" \in SealPcs /\ <<>> \in Seq(Int) /\ 0 \in Nat /\ 0 < MaxItemSize
    BY ItemFacts DEF SealPcs
  <2> QED
    BY <2>1, <2>2, SealEndStep
<1>4. FileInv' /\ mode' = "out" /\ (FlattenSeq(log) \o seal.batch)' = seal.hash
  <2>0. seal.hash \o <<>> = seal.hash /\ FlattenSeq(log) \in Seq(Int)
    BY <1>1, ConcatEmptySeq, FlattenTyped
  <2>1. CASE seal.batch # <<>>
    <3>1. PICK b : b = seal.batch
      OBVIOUS
    <3>2. AppendItem(b)
      BY <2>1, <3>1 DEF SealRest, AppendItem
    <3>3. FileInv' /\ mode' = "out" /\ log' = Append(log, b)
      BY <1>0, <1>1, <3>1, <3>2, AppendItemStep
    <3>4. FlattenSeq(Append(log, b)) = FlattenSeq(log) \o b
      BY <1>1, <3>1, FlattenAppend
    <3>5. FlattenSeq(log)' = seal.hash
      BY <1>0, <3>1, <3>3, <3>4 DEF HubInv, HubKept
    <3> QED
      BY <1>3, <2>0, <3>3, <3>5
  <2>2. CASE seal.batch = <<>>
    <3>1. UNCHANGED fvars
      BY <2>2 DEF SealRest
    <3>2. FileInv' /\ mode' = "out"
      BY <1>0, <1>2, <3>1 DEF fvars, FileInv, EndPos
    <3>3. (FlattenSeq(log) \o seal.batch)' = FlattenSeq(log) \o seal.batch
      BY <1>3, <2>2, <3>1 DEF fvars
    <3> QED
      BY <1>0, <3>2, <3>3 DEF HubInv, HubKept
  <2> QED
    BY <2>1, <2>2
<1>5. ~seal.cut => seal.counter = Len(src)
  <2>1. seal.cut = Cut(seal.counter + 1, seal.item) /\ seal.counter <= Len(src)
    BY <1>0, <1>2 DEF HubInv, HubLoop, HubRead
  <2>2. seal.item = NoItem \/ ~(seal.counter < Len(src))
    BY DEF SealRest, InLoop
  <2>3. ~seal.cut => ~Cut(seal.counter + 1, seal.item)
    BY <2>1, Zenon
  <2>4. ~Cut(seal.counter + 1, seal.item) => seal.counter = Len(src)
    BY <1>1, <2>1, <2>2 DEF Cut
  <2> QED
    BY <2>3, <2>4, Zenon
<1>6. HubInv'
  <2>1. HubKept'
    BY <1>3, <1>4 DEF HubKept
  <2>2. HubLoop' /\ HubModes'
    BY <1>3, <1>4 DEF HubLoop, HubModes
  <2>3. src' = src /\ meta' = meta
    BY DEF SealRest
  <2>4. HubEnd'
    BY <1>3, <1>5, <2>3 DEF HubEnd
  <2>5. HubMeta'
    BY <1>2, <1>3, <2>3 DEF HubMeta
  <2> QED
    BY <1>3, <2>1, <2>2, <2>4, <2>5 DEF HubInv
<1>7. ProvidersInv' /\ VerdictInv'
  BY <1>0, <1>2, HubFrame DEF SealRest
<1> QED
  BY <1>3, <1>4, <1>6, <1>7 DEF SealedInv

\* The file is closed, or left as it is when the writer dies.
LEMMA SealLeaveStep ==
  ASSUME SealedInv, SealReturn \/ SealDies
  PROVE  SealedInv'
<1>0. FileInv /\ HubTyped /\ HubInv /\ ProvidersInv /\ VerdictInv
  BY DEF SealedInv
<1>1. mode = "out" /\ UNCHANGED <<src, meta, damaged, prov, out, verdict>>
  BY DEF SealReturn, SealDies, CloseFile, WriterDies
<1>2. seal.pc \in {"loop", "return0", "return1"} /\ meta = None
  BY <1>0, <1>1 DEF HubInv, HubModes, HubMeta, HubTyped, SealPcs
<1>3. PICK q \in {"sealed", "failed", "died"} :
        /\ seal' = [seal EXCEPT !.pc = q]
        /\ q = "sealed" => seal.pc = "return0"
        /\ IF q = "died" THEN WriterDies ELSE CloseFile
  <2>1. CASE SealReturn
    <3>1. PICK q : q = IF seal.pc = "return0" THEN "sealed" ELSE "failed"
      OBVIOUS
    <3>2. seal' = [seal EXCEPT !.pc = q] /\ CloseFile
      BY <2>1, <3>1 DEF SealReturn
    <3> QED
      BY <3>1, <3>2
  <2>2. CASE SealDies
    BY <2>2 DEF SealDies
  <2> QED
    BY <2>1, <2>2
<1>4. FileInv' /\ log' = log /\ mode' = IF q = "died" THEN "torn" ELSE "closed"
  BY <1>0, <1>3, CloseFileStep, WriterDiesStep
<1>5. /\ seal' \in [pc : SealPcs, item : Item \cup {NoItem}, counter : Nat,
                    batch : Seq(Int), size : Nat, hash : Seq(Int), cut : BOOLEAN]
      /\ seal'.pc = q /\ seal'.batch = seal.batch /\ seal'.hash = seal.hash
      /\ seal'.size = seal.size
      /\ seal'.counter = seal.counter /\ seal'.cut = seal.cut
  BY <1>0, <1>3 DEF HubTyped, SealPcs
<1>6. HubTyped'
  BY <1>0, <1>1, <1>5 DEF HubTyped
<1>7. HubInv'
  <2>1. HubRead'
    BY <1>0, <1>1, <1>5 DEF HubInv, HubRead
  <2>2. HubKept'
    BY <1>0, <1>4, <1>5 DEF HubInv, HubKept
  <2>3. HubLoop' /\ HubModes'
    BY <1>3, <1>4, <1>5 DEF HubLoop, HubModes
  <2>4. HubEnd'
    BY <1>0, <1>1, <1>3, <1>5 DEF HubInv, HubEnd
  <2>5. HubMeta'
    BY <1>1, <1>2, <1>3, <1>5 DEF HubMeta
  <2> QED
    BY <2>1, <2>2, <2>3, <2>4, <2>5 DEF HubInv
<1>8. ProvidersInv' /\ VerdictInv'
  BY <1>0, <1>1, HubFrame
<1> QED
  BY <1>4, <1>6, <1>7, <1>8 DEF SealedInv

LEMMA PublishStep ==
  ASSUME SealedInv, Publish
  PROVE  SealedInv'
<1>0. FileInv /\ HubTyped /\ HubInv /\ ProvidersInv /\ VerdictInv
  BY DEF SealedInv
<1>1. /\ seal.pc = "sealed" /\ meta' = seal.hash
      /\ seal' = [seal EXCEPT !.pc = "done"]
      /\ UNCHANGED <<fvars, src, damaged, prov, out, verdict>>
  BY DEF Publish
<1>2. mode = "closed"
  BY <1>0, <1>1 DEF HubInv, HubModes
<1>3. FileInv' /\ mode' = mode /\ log' = log
  BY <1>0, <1>1 DEF fvars, FileInv, EndPos
<1>5. /\ seal' \in [pc : SealPcs, item : Item \cup {NoItem}, counter : Nat,
                    batch : Seq(Int), size : Nat, hash : Seq(Int), cut : BOOLEAN]
      /\ seal'.pc = "done" /\ seal'.batch = seal.batch /\ seal'.hash = seal.hash
      /\ seal'.size = seal.size
      /\ seal'.counter = seal.counter /\ seal'.cut = seal.cut
  BY <1>0, <1>1 DEF HubTyped, SealPcs
<1>6. HubTyped'
  BY <1>0, <1>1, <1>5 DEF HubTyped
<1>7. HubInv'
  <2>1. HubRead'
    BY <1>0, <1>1, <1>5 DEF HubInv, HubRead
  <2>2. HubKept'
    BY <1>0, <1>3, <1>5 DEF HubInv, HubKept
  <2>3. HubLoop' /\ HubModes'
    BY <1>2, <1>3, <1>5 DEF HubLoop, HubModes
  <2>4. HubEnd'
    BY <1>0, <1>1, <1>5 DEF HubInv, HubEnd
  <2>5. HubMeta'
    BY <1>1, <1>5 DEF HubMeta
  <2> QED
    BY <2>1, <2>2, <2>3, <2>4, <2>5 DEF HubInv
<1>8. ProvidersInv' /\ VerdictInv'
  BY <1>0, <1>1, <1>2, HubFrame
<1> QED
  BY <1>3, <1>6, <1>7, <1>8 DEF SealedInv

-----------------------------------------------------------------------------
(* The host's and the analyzer's steps.                                    *)

\* The data hub does not see the file being damaged or read.
LEMMA ReadFrame ==
  ASSUME HubTyped, HubInv, UNCHANGED <<src, seal, meta>>, damaged' \in BOOLEAN,
         log' = log, meta # None \/ mode = "in", mode' \in {"closed", "in"}
  PROVE  HubTyped' /\ HubInv'
<1>1. HubTyped'
  BY DEF HubTyped
<1>2. HubRead' /\ HubKept' /\ HubEnd' /\ HubMeta'
  BY DEF HubInv, HubRead, HubKept, HubEnd, HubMeta
<1>3. HubLoop'
  BY DEF HubInv, HubLoop, Cut
<1>4. seal.pc = "done"
  BY DEF HubInv, HubMeta, HubModes, HubTyped, SealPcs
<1>5. HubModes'
  BY <1>4 DEF HubModes
<1> QED
  BY <1>1, <1>2, <1>3, <1>5 DEF HubInv

LEMMA DamagedStep ==
  ASSUME SealedInv, Damage
  PROVE  SealedInv'
<1>0. FileInv /\ HubTyped /\ HubInv /\ ProvidersInv /\ VerdictInv
  BY DEF SealedInv
<1>1. FileInv' /\ mode' = mode /\ log' = log
  BY <1>0, DamageStep
<1>2. /\ mode = "closed" /\ meta # None /\ damaged' = TRUE
      /\ UNCHANGED <<src, seal, meta, prov, out, verdict>>
  BY DEF Damage
<1>3. HubTyped' /\ HubInv'
  BY <1>0, <1>1, <1>2, ReadFrame
<1>4. ProvidersInv' /\ VerdictInv'
  BY <1>0, <1>2, HubFrame
<1> QED
  BY <1>1, <1>3, <1>4 DEF SealedInv

LEMMA FeedDatasourceStep ==
  ASSUME SealedInv, FeedDatasource
  PROVE  SealedInv'
<1>0. FileInv /\ HubTyped /\ HubInv /\ ProvidersInv /\ VerdictInv
  BY DEF SealedInv
<1>1. FileInv' /\ mode' = "in" /\ log' = log
  BY <1>0, OpenForReadStep DEF FeedDatasource
<1>2. /\ meta # None /\ mode # "in"
      /\ UNCHANGED <<src, seal, meta, damaged, prov, out, verdict>>
  BY DEF FeedDatasource, OpenForRead, svars
<1>3. damaged' \in BOOLEAN
  BY <1>0, <1>2 DEF HubTyped
<1>4. HubTyped' /\ HubInv'
  BY <1>0, <1>1, <1>2, <1>3, ReadFrame
<1>5. ProvidersInv' /\ VerdictInv'
  BY <1>0, <1>2, HubFrame
<1> QED
  BY <1>1, <1>4, <1>5 DEF SealedInv

LEMMA CheckStep ==
  ASSUME SealedInv, CheckActualDataHash
  PROVE  SealedInv'
<1>0. FileInv /\ HubTyped /\ HubInv /\ ProvidersInv /\ VerdictInv
  BY DEF SealedInv
<1>1. /\ mode = "in" /\ UNCHANGED <<fvars, src, seal, meta, damaged, prov, out>>
      /\ verdict' = IF \A p \in DOMAIN prov : prov[p].hash = meta
                    THEN "ok" ELSE "refused"
  BY DEF CheckActualDataHash
<1>2. FileInv' /\ mode' = "in" /\ log' = log
  BY <1>0, <1>1 DEF fvars, FileInv, EndPos
<1>3. damaged' \in BOOLEAN
  BY <1>0, <1>1 DEF HubTyped
<1>4. HubTyped' /\ HubInv'
  BY <1>0, <1>1, <1>2, <1>3, ReadFrame
<1>5. ProvidersInv'
  BY <1>0, <1>1 DEF ProvidersInv
<1>6. VerdictInv'
  BY <1>1, <1>2 DEF VerdictInv
<1> QED
  BY <1>2, <1>4, <1>5, <1>6 DEF SealedInv

\* One provider changes and keeps its part of the invariant.
LEMMA ProviderFrame ==
  ASSUME ProvidersInv, NEW p \in DOMAIN prov, NEW q \in Provider, NEW u \in Seq(Int),
         prov' = [prov EXCEPT ![p] = q], out' = [out EXCEPT ![p] = u],
         q.index <= Len(q.items),
         q.hash = u \o SubSeq(q.items, q.index + 1, Len(q.items)),
         q.end => q.index = Len(q.items)
  PROVE  ProvidersInv'
<1>1. DOMAIN prov' = DOMAIN prov
  OBVIOUS
<1>2. prov' \in [DOMAIN prov -> Provider] /\ out' \in [DOMAIN prov -> Seq(Int)]
  BY DEF ProvidersInv
<1>3. prov'[p] = q /\ out'[p] = u
  BY DEF ProvidersInv
<1>4. ASSUME NEW x \in DOMAIN prov, x # p
      PROVE  prov'[x] = prov[x] /\ out'[x] = out[x]
  BY <1>4 DEF ProvidersInv
<1>5. ASSUME NEW x \in DOMAIN prov
      PROVE  /\ prov'[x].index <= Len(prov'[x].items)
             /\ prov'[x].hash = out'[x] \o SubSeq(prov'[x].items, prov'[x].index + 1,
                                                Len(prov'[x].items))
             /\ prov'[x].end => prov'[x].index = Len(prov'[x].items)
  <2>1. CASE x = p
    BY <1>3, <2>1
  <2>2. CASE x # p
    BY <1>4, <2>2 DEF ProvidersInv
  <2> QED
    BY <2>1, <2>2
<1> QED
  BY <1>1, <1>2, <1>5 DEF ProvidersInv

\* The hash of a provider, when it gives the next item of its batch.
LEMMA NextInBatchStep ==
  ASSUME SealedInv, NEW p \in DOMAIN prov, NextInBatch(p)
  PROVE  SealedInv'
<1>0. FileInv /\ HubTyped /\ HubInv /\ ProvidersInv /\ VerdictInv
  BY DEF SealedInv
<1>1. /\ mode = "in" /\ verdict = "none" /\ ~prov[p].end
      /\ prov[p].index < Len(prov[p].items)
      /\ prov' = [prov EXCEPT ![p].index = @ + 1]
      /\ out' = [out EXCEPT ![p] = Append(@, prov[p].items[prov[p].index + 1])]
      /\ UNCHANGED <<fvars, src, seal, meta, damaged, verdict>>
  BY DEF NextInBatch
<1>2. FileInv' /\ mode' = "in" /\ log' = log
  BY <1>0, <1>1 DEF fvars, FileInv, EndPos
<1>3. damaged' \in BOOLEAN
  BY <1>0, <1>1 DEF HubTyped
<1>4. HubTyped' /\ HubInv'
  BY <1>0, <1>1, <1>2, <1>3, ReadFrame
<1>5. VerdictInv'
  BY <1>1, <1>2 DEF VerdictInv
<1>6. ProvidersInv'
  <2>1. PICK r : r = prov[p]
    OBVIOUS
  <2>2. PICK o : o = out[p]
    OBVIOUS
  <2>3. /\ r \in Provider /\ o \in Seq(Int)
        /\ r.hash = o \o SubSeq(r.items, r.index + 1, Len(r.items))
    BY <1>0, <2>1, <2>2 DEF ProvidersInv
  <2>4. /\ r.index \in Nat /\ r.items \in Seq(Int) /\ Len(r.items) \in Nat
        /\ r.index < Len(r.items) /\ r.items[r.index + 1] \in Int
        /\ r.index + 1 <= Len(r.items)
    <3>1. r.index \in Nat /\ r.items \in Seq(Int) /\ Len(r.items) \in Nat
          /\ r.index < Len(r.items)
      BY <1>1, <2>1, <2>3 DEF Provider
    <3> QED
      BY <3>1
  <2> DEFINE q == [r EXCEPT !.index = r.index + 1]
             u == Append(o, r.items[r.index + 1])
  <2>5. prov' = [prov EXCEPT ![p] = q] /\ out' = [out EXCEPT ![p] = u]
    BY <1>1, <2>1, <2>2
  <2>6. /\ q \in Provider /\ q.index = r.index + 1 /\ q.items = r.items
        /\ q.hash = r.hash /\ q.end = r.end
    <3>1. PICK i \in Nat : i = r.index + 1
      BY <2>4
    <3>2. q = [r EXCEPT !.index = i] /\ r \in Provider
      BY <2>3, <3>1
    <3> HIDE DEF q
    <3>3. /\ q \in Provider /\ q.index = i /\ q.items = r.items
          /\ q.hash = r.hash /\ q.end = r.end
      BY <3>2 DEF Provider
    <3> QED
      BY <3>1, <3>3
  <2>7. u \o SubSeq(r.items, r.index + 2, Len(r.items))
          = o \o SubSeq(r.items, r.index + 1, Len(r.items))
    BY <2>3, <2>4, TakeNext
  <2>8. u \in Seq(Int)
    BY <2>3, <2>4
  <2> HIDE DEF q, u
  <2>9. q.hash = u \o SubSeq(q.items, q.index + 1, Len(q.items))
    <3>1. q.index + 1 = r.index + 2
      BY <2>4, <2>6
    <3> QED
      BY <2>3, <2>6, <2>7, <3>1
  <2>10. /\ q.index <= Len(q.items)
         /\ q.end => q.index = Len(q.items)
    BY <1>1, <2>1, <2>4, <2>6
  <2> QED
    BY <1>0, <2>5, <2>6, <2>8, <2>9, <2>10, ProviderFrame
<1> QED
  BY <1>2, <1>4, <1>5, <1>6 DEF SealedInv

LEMMA NextBatchStep ==
  ASSUME SealedInv, NEW p \in DOMAIN prov, NextBatch(p)
  PROVE  SealedInv'
<1>0. FileInv /\ HubTyped /\ HubInv /\ ProvidersInv /\ VerdictInv
  BY DEF SealedInv
<1>1. PICK b : b = NextDataBatch
  OBVIOUS
<1> DEFINE ok == b.ok /\ b.data # <<Foreign>>
<1>2. /\ mode = "in" /\ verdict = "none" /\ ~prov[p].end
      /\ prov[p].index >= Len(prov[p].items)
      /\ CallNextItem(BufSize)
      /\ prov' = [prov EXCEPT ![p] =
              IF ok THEN [end |-> FALSE, items |-> b.data, index |-> 1,
                          hash |-> Chain(@.hash, b.data)]
              ELSE [@ EXCEPT !.end = TRUE]]
      /\ out' = IF ok THEN [out EXCEPT ![p] = Append(@, Head(b.data))] ELSE out
      /\ UNCHANGED <<src, seal, meta, damaged, verdict>>
  BY <1>1 DEF NextBatch
<1>3. FileInv' /\ mode' = "in" /\ log' = log
  BY <1>0, <1>2, CallNextItemStep, BlockFileAssumption
<1>4. damaged' \in BOOLEAN
  BY <1>0, <1>2 DEF HubTyped
<1>5. HubTyped' /\ HubInv'
  BY <1>0, <1>2, <1>3, <1>4, ReadFrame
<1>6. VerdictInv'
  BY <1>2, <1>3 DEF VerdictInv
<1>7. b.data \in Seq(Int) /\ (ok => b.data # <<>>)
  <2>1. PICK x : x = NextItem(BufSize).res
    OBVIOUS
  <2>2. x \in ReadResult
    BY <1>0, <2>1, NextItemTyped, BlockFileAssumption
  <2>3. b = [ok |-> x.st = "succ" /\ x.data # <<>>, data |-> x.data]
    BY <1>1, <2>1 DEF NextDataBatch
  <2>4. b.ok = (x.st = "succ" /\ x.data # <<>>) /\ b.data = x.data
    BY <2>3
  <2>5. x.data \in Seq(Int)
    BY <2>2 DEF ReadResult
  <2> QED
    BY <2>4, <2>5
<1>8. PICK r : r = prov[p]
  OBVIOUS
<1>9. PICK o : o = out[p]
  OBVIOUS
<1>10. /\ r \in Provider /\ o \in Seq(Int) /\ r.index = Len(r.items)
       /\ r.hash = o \o SubSeq(r.items, r.index + 1, Len(r.items))
  <2>1. /\ r \in Provider /\ o \in Seq(Int)
        /\ r.index <= Len(r.items) /\ r.index >= Len(r.items)
        /\ r.hash = o \o SubSeq(r.items, r.index + 1, Len(r.items))
    BY <1>0, <1>2, <1>8, <1>9 DEF ProvidersInv
  <2>2. r.index \in Nat /\ Len(r.items) \in Nat
    BY <2>1 DEF Provider
  <2> QED
    BY <2>1, <2>2
<1>11. r.hash = o /\ r.items \in Seq(Int)
  <2>1. r.items \in Seq(Int)
    BY <1>10 DEF Provider
  <2> QED
    BY <1>10, <2>1, NothingLeft
<1>12. CASE ok
  <2> DEFINE q == [end |-> FALSE, items |-> b.data, index |-> 1,
                   hash |-> o \o b.data]
             u == Append(o, Head(b.data))
  <2>1. prov' = [prov EXCEPT ![p] = q] /\ out' = [out EXCEPT ![p] = u]
    BY <1>2, <1>8, <1>9, <1>11, <1>12 DEF Chain
  <2>2. o \o b.data \in Seq(Int)
    BY <1>7, <1>10, ConcatProperties
  <2>3. /\ Len(b.data) \in Nat /\ 1 <= Len(b.data) /\ b.data[1] \in Int
        /\ Head(b.data) = b.data[1]
    BY <1>7, <1>12
  <2>4. u \in Seq(Int)
    BY <1>10, <2>3
  <2>5. u \o SubSeq(b.data, 2, Len(b.data)) = o \o b.data
    <3>1. PICK i \in Nat : i + 1 = 1 /\ i + 2 = 2 /\ i < Len(b.data)
      BY <2>3
    <3>2. Append(o, b.data[i + 1]) \o SubSeq(b.data, i + 2, Len(b.data))
            = o \o SubSeq(b.data, i + 1, Len(b.data))
      BY <1>7, <1>10, <3>1, TakeNext
    <3>3. Append(o, b.data[1]) \o SubSeq(b.data, 2, Len(b.data))
            = o \o SubSeq(b.data, 1, Len(b.data))
      BY <3>1, <3>2
    <3>4. SubSeq(b.data, 1, Len(b.data)) = b.data
      BY <1>7, SubSeqFull
    <3>5. u = Append(o, b.data[1])
      BY <2>3
    <3> HIDE DEF u
    <3> QED
      BY <3>3, <3>4, <3>5
  <2>6. /\ q \in Provider /\ q.end = FALSE /\ q.items = b.data /\ q.index = 1
        /\ q.hash = o \o b.data
    BY <1>7, <2>2 DEF Provider
  <2> HIDE DEF q, u
  <2>7. q.index + 1 = 2
    BY <2>6
  <2>8. q.hash = u \o SubSeq(q.items, q.index + 1, Len(q.items))
    BY <2>5, <2>6, <2>7
  <2>9. q.index <= Len(q.items) /\ (q.end => q.index = Len(q.items))
    BY <2>3, <2>6
  <2>10. ProvidersInv'
    BY <1>0, <2>1, <2>4, <2>6, <2>8, <2>9, ProviderFrame
  <2> QED
    BY <1>3, <1>5, <1>6, <2>10 DEF SealedInv
<1>13. CASE ~ok
  <2> DEFINE q == [r EXCEPT !.end = TRUE]
  <2>1. prov' = [prov EXCEPT ![p] = q] /\ out' = out
    BY <1>2, <1>8, <1>13
  <2>2. out' = [out EXCEPT ![p] = o]
    BY <1>0, <1>9, <2>1 DEF ProvidersInv
  <2>3. /\ q \in Provider /\ q.items = r.items /\ q.index = r.index
        /\ q.hash = r.hash
    BY <1>10 DEF Provider
  <2> HIDE DEF q
  <2>4. q.hash = o \o SubSeq(q.items, q.index + 1, Len(q.items))
    BY <1>10, <2>3
  <2>5. q.index <= Len(q.items) /\ (q.end => q.index = Len(q.items))
    BY <1>10, <1>11, <2>3
  <2>6. ProvidersInv'
    BY <1>0, <1>10, <2>1, <2>2, <2>3, <2>4, <2>5, ProviderFrame
  <2> QED
    BY <1>3, <1>5, <1>6, <2>6 DEF SealedInv
<1> QED
  BY <1>12, <1>13

-----------------------------------------------------------------------------
(* The theorems.                                                           *)

LEMMA InitSealed ==
  ASSUME Init
  PROVE  SealedInv
<1>1. FileInv
  <2>1. /\ disk = <<>> /\ mode = "none" /\ infos = <<>> /\ pos = 0 /\ eof = FALSE
        /\ log = <<>> /\ got = <<>>
        /\ header = [item_number |-> 0, block_number |-> 0]
    BY DEF Init, FileInit
  <2>2. header \in [item_number : Nat, block_number : Nat]
    BY <2>1
  <2>3. /\ disk \in Seq(Int) /\ infos \in Seq(Info) /\ log \in Seq(Seq(Int))
        /\ got \in Seq(ReadResult) /\ Len(disk) = 0
    BY <2>1
  <2>4. pos \in Nat /\ pos <= Len(disk) /\ (mode # "in" => pos = 0)
    <3>1. pos = 0 /\ Len(disk) = 0
      BY <2>1, <2>3
    <3> QED
      BY <3>1
  <2>a. eof \in BOOLEAN
    BY <2>1
  <2>5. /\ mode \in {"none", "out", "closed", "torn", "in"}
        /\ mode = "none" => infos = <<>>
        /\ mode # "out"
    BY <2>1
  <2> QED
    BY <2>2, <2>3, <2>4, <2>a, <2>5 DEF FileInv
<1>2. src \in Seq(Item)
  <2>1. PICK m \in 0 .. MaxData : src \in [1 .. m -> Item]
    BY SealedAssumption DEF Init, BoundedSeq, SeqOf, Item
  <2>2. m \in Nat
    BY SealedAssumption
  <2> QED
    BY <2>1, <2>2
<1>3. seal = [pc |-> "start", item |-> NoItem, counter |-> 0, batch |-> <<>>,
              size |-> 0, hash |-> <<>>, cut |-> FALSE]
  BY DEF Init
<1>4. HubTyped
  <2>1. <<>> \in Seq(Int) /\ 0 < MaxItemSize
    BY ItemFacts
  <2>2. seal \in [pc : SealPcs, item : Item \cup {NoItem}, counter : Nat,
                  batch : Seq(Int), size : Nat, hash : Seq(Int), cut : BOOLEAN]
        /\ seal.size = 0
    BY <1>3, <2>1 DEF SealPcs
  <2>3. damaged \in BOOLEAN
    BY DEF Init
  <2> QED
    BY <1>2, <2>1, <2>2, <2>3 DEF HubTyped
<1>5. HubInv
  <2>1. Len(src) \in Nat /\ SubSeq(src, 1, 0) = <<>>
    BY <1>2, SubSeqEmpty
  <2>2. HubRead
    BY <1>3, <2>1 DEF HubRead
  <2>3. HubKept
    <3>1. FlattenSeq(log) = <<>>
      BY DEF Init, FileInit, FlattenSeq
    <3>2. <<>> \o <<>> = <<>>
      OBVIOUS
    <3> QED
      BY <1>3, <3>1, <3>2 DEF HubKept
  <2>4. HubLoop /\ HubEnd /\ HubModes /\ HubMeta
    BY <1>3 DEF Init, FileInit, HubLoop, HubEnd, HubModes, HubMeta
  <2> QED
    BY <2>2, <2>3, <2>4 DEF HubInv
<1>6. ProvidersInv
  <2>1. PICK n \in 1 .. MaxProviders :
          /\ prov = [p \in 1..n |-> [end |-> FALSE, items |-> <<>>, index |-> 0, hash |-> <<>>]]
          /\ out = [p \in 1..n |-> <<>>]
    BY DEF Init
  <2> DEFINE r == [end |-> FALSE, items |-> <<>>, index |-> 0, hash |-> <<>>]
  <2>2. r \in Provider /\ r.end = FALSE /\ r.items = <<>> /\ r.index = 0 /\ r.hash = <<>>
    BY DEF Provider
  <2>3. prov = [p \in 1..n |-> r]
    BY <2>1
  <2> HIDE DEF r
  <2>4. prov \in [DOMAIN prov -> Provider] /\ out \in [DOMAIN prov -> Seq(Int)]
    <3>1. DOMAIN prov = 1 .. n /\ prov \in [1 .. n -> Provider]
      BY <2>2, <2>3
    <3>2. PICK e : e = <<>>
      OBVIOUS
    <3>3. e \in Seq(Int) /\ out = [p \in 1 .. n |-> e]
      BY <2>1, <3>2
    <3> QED
      BY <3>1, <3>3
  <2>5. ASSUME NEW p \in DOMAIN prov
        PROVE  prov[p] = r /\ out[p] = <<>>
    BY <2>1, <2>3
  <2>6. <<>> \o SubSeq(<<>>, 0 + 1, 0) = <<>>
    OBVIOUS
  <2>7. Len(<<>>) = 0
    OBVIOUS
  <2> QED
    BY <2>2, <2>4, <2>5, <2>6, <2>7 DEF ProvidersInv
<1>7. VerdictInv
  BY DEF Init, VerdictInv
<1> QED
  BY <1>1, <1>4, <1>5, <1>6, <1>7 DEF SealedInv

LEMMA SealedStep ==
  ASSUME SealedInv, [Next]_vars
  PROVE  SealedInv'
<1>1. CASE SealStart
  BY <1>1, SealStartStep
<1>2. CASE SealItem
  BY <1>2, SealItemStep
<1>3. CASE SealRest
  BY <1>3, SealRestStep
<1>4. CASE SealReturn \/ SealDies
  BY <1>4, SealLeaveStep
<1>5. CASE Publish
  BY <1>5, PublishStep
<1>6. CASE Damage
  BY <1>6, DamagedStep
<1>7. CASE FeedDatasource
  BY <1>7, FeedDatasourceStep
<1>8. CASE Provide
  BY <1>8, NextInBatchStep, NextBatchStep DEF Provide
<1>9. CASE EndParse \/ StopEarly
  BY <1>9, CheckStep DEF EndParse, StopEarly
<1>10. CASE UNCHANGED vars
  <2>1. FileInv /\ HubTyped /\ HubInv /\ ProvidersInv /\ VerdictInv
    BY DEF SealedInv
  <2>2. UNCHANGED <<fvars, svars>>
    BY <1>10 DEF vars
  <2>3. FileInv'
    BY <2>1, <2>2 DEF fvars, FileInv, EndPos
  <2>4. HubTyped'
    BY <2>1, <2>2 DEF svars, HubTyped
  <2>5. HubRead' /\ HubKept' /\ HubEnd' /\ HubModes' /\ HubMeta'
    BY <2>1, <2>2 DEF fvars, svars, HubInv, HubRead, HubKept, HubEnd, HubModes, HubMeta
  <2>6. HubLoop'
    BY <2>1, <2>2 DEF svars, HubInv, HubLoop, Cut
  <2>7. ProvidersInv'
    BY <2>1, <2>2 DEF svars, ProvidersInv
  <2>8. VerdictInv'
    BY <2>1, <2>2 DEF fvars, svars, VerdictInv
  <2> QED
    BY <2>3, <2>4, <2>5, <2>6, <2>7, <2>8 DEF SealedInv, HubInv
<1> QED
  BY <1>1, <1>2, <1>3, <1>4, <1>5, <1>6, <1>7, <1>8, <1>9, <1>10 DEF Next

\* Sealing and reading keep the invariant, whatever fails and whatever the
\* host does to the file.
THEOREM SealedInvariant == Spec => []SealedInv
<1>1. Init => SealedInv
  BY InitSealed
<1>2. SealedInv /\ [Next]_vars => SealedInv'
  BY SealedStep
<1> QED
  BY <1>1, <1>2, PTL DEF Spec

\* The counters of seal_file, of the block file and of the providers stay in
\* their ranges, and a published hash is that of the data up to the first
\* failed read, which is the data the closed file holds.
THEOREM SealingSoundHolds == Spec => []SealingSound
<1>1. SealedInv => TypeOK
  <2> SUFFICES ASSUME SealedInv PROVE TypeOK
    OBVIOUS
  <2>0. FileInv /\ HubTyped /\ HubInv /\ ProvidersInv /\ VerdictInv
    BY DEF SealedInv
  <2>1. FileTypeOK
    <3>1. /\ disk \in Seq(Int) /\ Len(disk) \in Nat /\ got \in Seq(ReadResult)
          /\ pos \in Nat /\ pos <= Len(disk)
          /\ header \in [item_number : Nat, block_number : Nat]
          /\ mode \in {"none", "out", "closed", "torn", "in"} /\ eof \in BOOLEAN
      BY <2>0 DEF FileInv
    <3>2. \A k \in DOMAIN disk : disk[k] \in Int
      BY <3>1
    <3>3. pos \in 0 .. Len(disk)
      BY <3>1
    <3>4. \A k \in DOMAIN got : got[k].st \in {"succ", "small_buf", "eof"}
      <4>1. \A k \in DOMAIN got : got[k] \in ReadResult
        BY <3>1
      <4> QED
        BY <4>1 DEF ReadResult
    <3> QED
      BY <3>1, <3>2, <3>3, <3>4 DEF FileTypeOK
  <2>2. /\ seal.pc \in SealPcs /\ seal.item \in Item \cup {NoItem}
        /\ seal.size \in Nat /\ seal.size < MaxItemSize
    BY <2>0 DEF HubTyped
  <2>3. seal.size \in 0 .. MaxItemSize - 1
    BY <2>2, ItemFacts
  <2>4. verdict \in {"none", "ok", "refused"}
    BY <2>0 DEF VerdictInv
  <2>5. ASSUME NEW p \in DOMAIN prov
        PROVE  prov[p].index \in 0 .. Len(prov[p].items)
    <3>1. prov[p] \in Provider /\ prov[p].index <= Len(prov[p].items)
      BY <2>0 DEF ProvidersInv
    <3>2. prov[p].index \in Nat /\ Len(prov[p].items) \in Nat
      BY <3>1 DEF Provider
    <3> QED
      BY <3>1, <3>2
  <2> QED
    BY <2>1, <2>2, <2>3, <2>4, <2>5 DEF TypeOK, SealPcs, Item
<1>2. SealedInv => SealedComplete
  <2> SUFFICES ASSUME SealedInv, meta # None
               PROVE  /\ IsPrefix(meta, src) /\ (~seal.cut => meta = src)
                      /\ FlattenSeq(log) = meta
                      /\ mode \in {"closed", "in"}
    BY DEF SealedComplete
  <2>0. FileInv /\ HubTyped /\ HubInv
    BY DEF SealedInv
  <2>1. seal.pc = "done" /\ meta = seal.hash
    BY <2>0 DEF HubInv, HubMeta
  <2>2. /\ mode \in {"closed", "in"} /\ seal.batch = <<>>
        /\ ~seal.cut => seal.counter = Len(src)
    BY <2>0, <2>1 DEF HubInv, HubModes, HubEnd
  <2>3. seal.counter \in Nat /\ seal.counter <= Len(src) /\ src \in Seq(Item)
        /\ meta = SubSeq(src, 1, seal.counter)
    BY <2>0, <2>1 DEF HubInv, HubRead, HubTyped
  <2>4. IsPrefix(meta, src)
    BY <2>3, PrefixOfSeq
  <2>5. ~seal.cut => meta = src
    <3>1. SubSeq(src, 1, Len(src)) = src
      BY <2>3, SubSeqFull
    <3> QED
      BY <2>2, <2>3, <3>1
  <2>6. FlattenSeq(log) = meta
    <3>1. FlattenSeq(log) \in Seq(Int)
      BY <2>0, FlattenTyped DEF FileInv
    <3>2. FlattenSeq(log) \o <<>> = FlattenSeq(log)
      BY <3>1, ConcatEmptySeq
    <3>3. FlattenSeq(log) \o seal.batch = seal.hash
      BY <2>0 DEF HubInv, HubKept
    <3> QED
      BY <2>1, <2>2, <3>2, <3>3
  <2> QED
    BY <2>2, <2>4, <2>5, <2>6
<1> QED
  BY <1>1, <1>2, SealedInvariant, PTL DEF SealingSound

\* When check_actual_data_hash passes, every provider has given the engine a
\* prefix of the sealed data, and all of it if it has read to its end.
THEOREM VerifiedIsSealedHolds == Spec => []VerifiedIsSealed
<1>1. SealedInv => VerifiedIsSealed
  <2> SUFFICES ASSUME SealedInv, verdict = "ok", NEW p \in DOMAIN prov
               PROVE  IsPrefix(out[p], meta) /\ (prov[p].end => out[p] = meta)
    BY DEF VerifiedIsSealed
  <2>1. PICK r : r = prov[p]
    OBVIOUS
  <2>2. PICK o : o = out[p]
    OBVIOUS
  <2>3. /\ r \in Provider /\ o \in Seq(Int) /\ r.index <= Len(r.items)
        /\ r.hash = o \o SubSeq(r.items, r.index + 1, Len(r.items))
        /\ r.end => r.index = Len(r.items)
    BY <2>1, <2>2 DEF SealedInv, ProvidersInv
  <2>4. r.hash = meta
    BY <2>1 DEF SealedInv, VerdictInv
  <2>5. r.items \in Seq(Int) /\ r.index \in Nat /\ Len(r.items) \in Nat
        /\ r.index + 1 \in Nat \ {0}
    BY <2>3 DEF Provider
  <2>6. SubSeq(r.items, r.index + 1, Len(r.items)) \in Seq(Int)
    BY <2>5, SubSeqTyped
  <2>7. IsPrefix(o, meta)
    BY <2>3, <2>4, <2>6, PrefixOfConcat
  <2>8. r.end => o = meta
    BY <2>3, <2>4, <2>5, NothingLeft
  <2> QED
    BY <2>1, <2>2, <2>7, <2>8
<1> QED
  BY <1>1, SealedInvariant, PTL

-----------------------------------------------------------------------------
(* Part III: the key files.                                                *)

KeyFile == [st : {"none", "partial", "whole"}, pkey : Pubs, sealed : Pubs]

KeyStoreTypeOK ==
  /\ dir \in [KsNames -> KeyFile]
  /\ tool \in [pc : {"idle", "named", "writing"}, pair : KeyFile, key : Pubs]
  /\ tool.pc # "idle" => tool.key \in KsKeys /\ tool.pair.st = "whole"
  /\ made \subseteq KsKeys

\* A file is where its public key says.
FilesNamed == \A n \in KsNames : dir[n].st = "whole" => FileName(dir[n].pkey) = n

\* A key that was reported and not removed or written over has its file.
ReportedStored == \A k \in made \ gone : dir[FileName(k)] = Package(k, k)

\* A tool that is writing has already spoilt the keys whose file it writes.
WritingSpoils ==
  tool.pc = "writing" =>
    \A k \in made : FileName(k) = FileName(tool.pair.pkey) => k \in gone

KeyStoreInv ==
  /\ KeyStoreTypeOK
  /\ FilesNamed
  /\ ReportedStored
  /\ WritingSpoils
  /\ LoadedIsAsked

LEMMA KeyNames == \A k \in Pubs : FileName(k) \in KsNames
  BY KeyStoreAssumption DEF FileName, KsNames

LEMMA PackageType ==
  /\ NoFile \in KeyFile /\ NoFile.st = "none"
  /\ Partial \in KeyFile /\ Partial.st = "partial"
  /\ \A p, q \in Pubs : /\ Package(p, q) \in KeyFile
                        /\ Package(p, q).st = "whole"
                        /\ Package(p, q).pkey = p /\ Package(p, q).sealed = q
  BY DEF KeyFile, NoFile, Partial, Package, Pubs

LEMMA KeyStoreInvInit == KeyStoreInit => KeyStoreInv
  <1> SUFFICES ASSUME KeyStoreInit PROVE KeyStoreInv
    OBVIOUS
  <1>1. NoKey \in Pubs
    BY DEF Pubs
  <1>2. KeyStoreTypeOK
    BY <1>1, PackageType DEF KeyStoreInit, KeyStoreTypeOK
  <1>3. FilesNamed
    BY PackageType DEF KeyStoreInit, FilesNamed
  <1>4. ReportedStored /\ WritingSpoils /\ LoadedIsAsked
    BY DEF KeyStoreInit, ReportedStored, WritingSpoils, LoadedIsAsked, NoAnswer
  <1> QED BY <1>2, <1>3, <1>4 DEF KeyStoreInv

\* load_and_check_key_pair answers success for the key that was asked only.
LEMMA LoadResultAsked ==
  ASSUME NEW k
  PROVE  /\ LoadResult(k).asked = k
         /\ LoadResult(k).ret = "success" => LoadResult(k).skey = k
  BY DEF LoadResult, PublicMatches, SamePublic

\* It finds a key whose file holds it, and does not find one whose file
\* holds anything else under its name.
LEMMA LoadResultFound ==
  ASSUME KeyStoreTypeOK, NEW k \in KsKeys
  PROVE  LoadResult(k).ret = "success" <=>
           dir[FileName(k)].st = "whole" /\ dir[FileName(k)].sealed = k
  <1> DEFINE f == dir[FileName(k)]
  <1>1. k # NoKey /\ f \in KeyFile
    BY KeyNames, KeyStoreAssumption DEF Pubs, KeyStoreTypeOK
  <1>2. CASE f.st = "none"
    BY <1>2 DEF LoadResult, load_key_pair_if_not_exist, ocall_load_key_pair, WholeFile
  <1>3. CASE f.st = "partial"
    BY <1>3 DEF LoadResult, load_key_pair_if_not_exist, ocall_load_key_pair, WholeFile
  <1>4. CASE f.st = "whole"
    <2>1. ocall_load_key_pair(k) = [ret |-> "success", sealed |-> f.sealed]
      BY <1>4 DEF ocall_load_key_pair, WholeFile
    <2>2. CASE f.sealed = NoKey
      <3>1. load_key_pair_if_not_exist(k) = [ret |-> "unseal_failed", sealed |-> NoKey]
        BY <2>1, <2>2 DEF load_key_pair_if_not_exist
      <3>2. load_key_pair_if_not_exist(k).ret = "unseal_failed"
        BY <3>1
      <3>3. LoadResult(k).ret # "success"
        BY <3>2 DEF LoadResult
      <3> QED BY <1>1, <2>2, <3>3
    <2>3. CASE f.sealed # NoKey
      <3>1. load_key_pair_if_not_exist(k) = [ret |-> "success", sealed |-> f.sealed]
        BY <2>1, <2>3 DEF load_key_pair_if_not_exist
      <3> QED BY <1>4, <3>1 DEF LoadResult, PublicMatches, SamePublic
    <2> QED BY <2>2, <2>3
  <1> QED BY <1>1, <1>2, <1>3, <1>4 DEF KeyFile

LEMMA KeyStoreInvStep ==
  ASSUME KeyStoreInv, [KeyStoreNext]_kvars
  PROVE  KeyStoreInv'
  <1> USE DEF KeyStoreInv
  <1>0. KsKeys \subseteq Pubs /\ NoKey \in Pubs
    BY DEF Pubs
  <1>1. CASE UNCHANGED kvars
    BY <1>1 DEF kvars, KeyStoreTypeOK, FilesNamed, ReportedStored, WritingSpoils,
                LoadedIsAsked
  <1>2. ASSUME NEW k \in KsKeys, Generate(k) PROVE KeyStoreInv'
    <2>1. PICK pair \in Generated(k) :
            tool' = [pc |-> "named", pair |-> pair, key |-> k]
      BY <1>2 DEF Generate
    <2>2. pair \in KeyFile /\ pair.st = "whole"
      BY <1>0, PackageType DEF Generated
    <2>3. UNCHANGED <<dir, answered, made, gone>>
      BY <1>2 DEF Generate
    <2>4. KeyStoreTypeOK'
      BY <1>0, <2>1, <2>2, <2>3 DEF KeyStoreTypeOK
    <2> QED BY <2>1, <2>3, <2>4
            DEF FilesNamed, ReportedStored, WritingSpoils, LoadedIsAsked
  <1>3. ASSUME NEW k \in KsKeys, load_and_check_key_pair(k) PROVE KeyStoreInv'
    <2>1. UNCHANGED <<dir, tool, made, gone>> /\ answered' = LoadResult(k)
      BY <1>3 DEF load_and_check_key_pair
    <2>2. LoadedIsAsked'
      BY <2>1, LoadResultAsked DEF LoadedIsAsked
    <2> QED BY <2>1, <2>2
            DEF KeyStoreTypeOK, FilesNamed, ReportedStored, WritingSpoils
  <1>4. CASE RefuseUser \/ ToolDies
    <2>1. /\ tool' = [pc |-> "idle", pair |-> NoFile, key |-> NoKey]
          /\ UNCHANGED <<dir, answered, made, gone>>
      BY <1>4 DEF RefuseUser, ToolDies
    <2>2. KeyStoreTypeOK'
      BY <1>0, <2>1, PackageType DEF KeyStoreTypeOK
    <2> QED BY <2>1, <2>2
            DEF FilesNamed, ReportedStored, WritingSpoils, LoadedIsAsked
  <1>5. CASE BeginWrite
    <2> DEFINE m == FileName(tool.pair.pkey)
    <2>1. /\ tool.pc = "named" /\ tool' = [tool EXCEPT !.pc = "writing"]
          /\ dir' = [dir EXCEPT ![m] = Partial]
          /\ gone' = gone \cup {k \in made : FileName(k) = m}
          /\ UNCHANGED <<answered, made>>
      BY <1>5 DEF BeginWrite
    <2>2. m \in KsNames
      BY KeyNames DEF KeyStoreTypeOK, KeyFile
    <2>3. KeyStoreTypeOK'
      BY <2>1, <2>2, PackageType DEF KeyStoreTypeOK
    <2>4. \A n \in KsNames : dir'[n] = IF n = m THEN Partial ELSE dir[n]
      BY <2>1 DEF KeyStoreTypeOK
    <2>5. FilesNamed'
      BY <2>4, PackageType DEF FilesNamed
    <2>6. ReportedStored'
      <3> SUFFICES ASSUME NEW k \in made' \ gone'
                   PROVE  dir'[FileName(k)] = Package(k, k)
        BY DEF ReportedStored
      <3>1. k \in made \ gone /\ FileName(k) # m /\ FileName(k) \in KsNames
        BY <1>0, <2>1, KeyNames DEF KeyStoreTypeOK
      <3> QED BY <2>4, <3>1 DEF ReportedStored
    <2>7. tool'.pair = tool.pair
      BY <2>1 DEF KeyStoreTypeOK
    <2>8. WritingSpoils'
      BY <2>1, <2>7 DEF WritingSpoils
    <2> QED BY <2>1, <2>3, <2>5, <2>6, <2>8 DEF LoadedIsAsked
  <1>6. CASE write_key_pair_to_file
    <2> DEFINE m == FileName(tool.pair.pkey)
    <2>1. /\ tool.pc = "writing" /\ dir' = [dir EXCEPT ![m] = tool.pair]
          /\ made' = Reported
          /\ tool' = [pc |-> "idle", pair |-> NoFile, key |-> NoKey]
          /\ UNCHANGED <<answered, gone>>
      BY <1>6 DEF write_key_pair_to_file
    <2>2. /\ m \in KsNames /\ tool.pair \in KeyFile /\ tool.pair.st = "whole"
          /\ tool.key \in KsKeys
      BY <2>1, KeyNames DEF KeyStoreTypeOK, KeyFile
    <2>3. KeyStoreTypeOK'
      BY <1>0, <2>1, <2>2, PackageType DEF KeyStoreTypeOK, Reported
    <2>4. \A n \in KsNames : dir'[n] = IF n = m THEN tool.pair ELSE dir[n]
      BY <2>1 DEF KeyStoreTypeOK
    <2>5. FilesNamed'
      BY <2>4 DEF FilesNamed
    <2>6. ReportedStored'
      <3> SUFFICES ASSUME NEW k \in made' \ gone'
                   PROVE  dir'[FileName(k)] = Package(k, k)
        BY DEF ReportedStored
      <3>1. CASE k \in made
        <4>1. FileName(k) # m /\ FileName(k) \in KsNames /\ k \notin gone
          BY <1>0, <2>1, <3>1, KeyNames DEF KeyStoreTypeOK, WritingSpoils
        <4> QED BY <2>4, <3>1, <4>1 DEF ReportedStored
      <3>2. CASE k \notin made
        <4>1. k = tool.key /\ tool.pair = Package(k, k)
          BY <2>1, <3>2 DEF Reported
        <4>2. m = FileName(k)
          BY <1>0, <2>2, <4>1, PackageType
        <4> QED BY <2>2, <2>4, <4>1, <4>2
      <3> QED BY <3>1, <3>2
    <2> QED BY <2>1, <2>3, <2>5, <2>6 DEF WritingSpoils, LoadedIsAsked
  <1>7. ASSUME NEW m \in KsNames, remove_key(m) PROVE KeyStoreInv'
    <2>1. /\ dir' = [dir EXCEPT ![m] = NoFile]
          /\ gone' = gone \cup {k \in made : FileName(k) = m}
          /\ UNCHANGED <<tool, answered, made>>
      BY <1>7 DEF remove_key
    <2>2. KeyStoreTypeOK'
      BY <2>1, PackageType DEF KeyStoreTypeOK
    <2>3. \A n \in KsNames : dir'[n] = IF n = m THEN NoFile ELSE dir[n]
      BY <2>1 DEF KeyStoreTypeOK
    <2>4. FilesNamed'
      BY <2>3, PackageType DEF FilesNamed
    <2>5. ReportedStored'
      <3> SUFFICES ASSUME NEW k \in made' \ gone'
                   PROVE  dir'[FileName(k)] = Package(k, k)
        BY DEF ReportedStored
      <3>1. k \in made \ gone /\ FileName(k) # m /\ FileName(k) \in KsNames
        BY <1>0, <2>1, KeyNames DEF KeyStoreTypeOK
      <3> QED BY <2>3, <3>1 DEF ReportedStored
    <2> QED BY <2>1, <2>2, <2>4, <2>5 DEF WritingSpoils, LoadedIsAsked
  <1>8. CASE list_keys
    <2>1. UNCHANGED <<dir, tool, answered, made, gone>>
      BY <1>8 DEF list_keys
    <2> QED BY <2>1 DEF KeyStoreTypeOK, FilesNamed, ReportedStored,
                        WritingSpoils, LoadedIsAsked
  <1> QED BY <1>1, <1>2, <1>3, <1>4, <1>5, <1>6, <1>7, <1>8 DEF KeyStoreNext

LEMMA KeyStoreInvariant == KeyStoreSpec => []KeyStoreInv
  <1>1. KeyStoreInv /\ [KeyStoreNext]_kvars => KeyStoreInv'
    BY KeyStoreInvStep
  <1> QED BY <1>1, KeyStoreInvInit, PTL DEF KeyStoreSpec

\* The key manager gets the key it asks for or none, and every key that was
\* reported as created and not removed or written over loads, whatever tool
\* processes died in between and whichever keys share a file name.
THEOREM KeysLoadHolds == KeyStoreSpec => []KeysLoad
  <1>1. KeyStoreInv => KeysLoad
    <2> SUFFICES ASSUME KeyStoreInv PROVE ReportedLoads
      BY DEF KeysLoad, KeyStoreInv
    <2> SUFFICES ASSUME NEW k \in made \ gone PROVE LoadResult(k).ret = "success"
      BY DEF ReportedLoads
    <2>1. k \in KsKeys /\ k \in Pubs
      BY DEF KeyStoreInv, KeyStoreTypeOK, Pubs
    <2>2. dir[FileName(k)] = Package(k, k)
      BY DEF KeyStoreInv, ReportedStored
    <2>3. dir[FileName(k)].st = "whole" /\ dir[FileName(k)].sealed = k
      BY <2>1, <2>2, PackageType
    <2> QED BY <2>1, <2>3, LoadResultFound DEF KeyStoreInv
  <1> QED BY <1>1, KeyStoreInvariant, PTL

\* A list that ends shows every key that is reported and still there, and
\* what it shows as failed does not load.
THEOREM ListIsCompleteHolds == KeyStoreSpec => ListIsComplete
  <1> DEFINE A == listed' # listed /\ listed'.ended =>
                    /\ made \ gone \subseteq listed'.shown
                    /\ \A k \in listed'.failed \ {NoKey} : LoadResult(k).ret # "success"
  <1>1. ASSUME KeyStoreInv, [KeyStoreNext]_kvars PROVE [A]_kvars
    <2> SUFFICES ASSUME listed' # listed, listed'.ended
                 PROVE  /\ made \ gone \subseteq listed'.shown
                        /\ \A k \in listed'.failed \ {NoKey} :
                             LoadResult(k).ret # "success"
      OBVIOUS
    <2>1. list_keys
      BY <1>1 DEF kvars, KeyStoreNext, Generate, load_and_check_key_pair,
           RefuseUser, BeginWrite, write_key_pair_to_file, ToolDies, remove_key
    <2> DEFINE shownOf(seen) == {n \in seen : WholeFile(n)}
    <2>2. PICK seen \in SUBSET Present :
            /\ IF seen = shownOf(seen) THEN ListedAll(seen)
               ELSE Cardinality(seen \ shownOf(seen)) = 1
            /\ listed' = [ended |-> seen = shownOf(seen),
                          shown |-> {dir[n].pkey : n \in shownOf(seen)},
                          failed |-> {dir[n].pkey :
                             n \in {m \in shownOf(seen) : ~CanDecrypt(dir[m])}}]
      BY <2>1 DEF list_keys
    <2>3. seen = shownOf(seen) /\ seen = Present
      BY <2>2 DEF ListedAll
    <2>4. /\ listed'.shown = {dir[n].pkey : n \in Present}
          /\ listed'.failed = {dir[n].pkey :
                                 n \in {m \in Present : ~CanDecrypt(dir[m])}}
      BY <2>2, <2>3
    <2>5. \A n \in Present : n \in KsNames /\ dir[n].st = "whole"
      BY <2>3 DEF WholeFile, Present
    <2>6. ASSUME NEW k \in made \ gone PROVE k \in listed'.shown
      <3>1. k \in Pubs /\ FileName(k) \in KsNames
        BY <1>1, KeyNames DEF KeyStoreInv, KeyStoreTypeOK, Pubs
      <3>2. dir[FileName(k)] = Package(k, k)
        BY <1>1 DEF KeyStoreInv, ReportedStored
      <3>3. dir[FileName(k)].st = "whole" /\ dir[FileName(k)].pkey = k
        BY <3>1, <3>2, PackageType
      <3>4. FileName(k) \in Present
        BY <3>1, <3>3 DEF Present
      <3> QED BY <2>4, <3>3, <3>4
    <2>7. ASSUME NEW k \in listed'.failed \ {NoKey}
          PROVE  LoadResult(k).ret # "success"
      <3>1. PICK n \in Present : k = dir[n].pkey /\ ~CanDecrypt(dir[n])
        BY <2>4
      <3>2. /\ n \in KsNames /\ dir[n].st = "whole" /\ FileName(k) = n
            /\ k \in KsKeys
        BY <1>1, <2>5, <3>1
           DEF KeyStoreInv, KeyStoreTypeOK, KeyFile, FilesNamed, Pubs
      <3>3. dir[FileName(k)].sealed # k
        BY <3>1, <3>2 DEF CanDecrypt
      <3> QED BY <1>1, <3>2, <3>3, LoadResultFound DEF KeyStoreInv
    <2> QED BY <2>6, <2>7
  <1> QED BY <1>1, KeyStoreInvariant, PTL DEF KeyStoreSpec, ListIsComplete

-----------------------------------------------------------------------------
(* Part IV: the files of an enclave.                                       *)

NumberOf == 2^IdBits
StreamState == [st : {"absent", "closed", "open"}, file : BrFiles \cup {"none"}, pos : Nat]

BridgeTypeOK ==
  /\ nextId \in Ids
  /\ streams \in [Ids -> StreamState]
  /\ handle \in [BrHandles -> [id : Ids, file : BrFiles \cup {"none"}, pos : Nat]]
  /\ epoch \in [opens : Nat, started : Nat, all : Nat, clean : BOOLEAN]

\* Numbers are handed out in order, up to the last one, then zero.
NumbersInOrder ==
  /\ epoch.opens + 1 < NumberOf => nextId = epoch.opens + 1
  /\ epoch.opens + 1 = NumberOf => nextId = 0

\* Until they run out, the numbers in use were handed out before, and each
\* to one cxxfile.
NumbersDistinct ==
  epoch.clean /\ epoch.opens <= NumberOf =>
    /\ \A h \in BrHandles : handle[h].id <= epoch.opens
    /\ \A i \in Ids : streams[i].st = "open" => i <= epoch.opens
    /\ \A g, h \in BrHandles : handle[g].id # 0 /\ handle[g].id = handle[h].id => g = h

BridgeInv ==
  /\ BridgeTypeOK
  /\ NumbersInOrder
  /\ NumbersDistinct
  /\ OwnStream
  /\ StreamsHeld

LEMMA IdsRange == /\ NumberOf \in Nat /\ NumberOf > 1
                  /\ Ids = 0 .. NumberOf - 1 /\ 0 \in Ids /\ 1 \in Ids
  BY FileBridgeAssumption DEF NumberOf, Ids

LEMMA ModSmall == \A a, b \in Nat : a < b => a % b = a
  OBVIOUS

LEMMA StreamTypes ==
  /\ NoStream \in StreamState /\ NoStream.st = "absent"
  /\ Unopened \in StreamState /\ Unopened.st = "closed"
  /\ \A f \in BrFiles \cup {"none"}, p \in Nat :
       /\ Stream(f, p) \in StreamState
       /\ Stream(f, p).st = "open" /\ Stream(f, p).file = f /\ Stream(f, p).pos = p
  BY DEF NoStream, Unopened, Stream, StreamState

LEMMA BridgeInvInit == FileBridgeInit => BridgeInv
  <1> SUFFICES ASSUME FileBridgeInit PROVE BridgeInv
    OBVIOUS
  <1>1. BridgeTypeOK
    BY IdsRange, StreamTypes DEF FileBridgeInit, BridgeTypeOK, Closed
  <1>2. \A i \in Ids : streams[i].st = "absent"
    BY StreamTypes DEF FileBridgeInit
  <1>3. /\ \A h \in BrHandles : handle[h].id = 0
        /\ epoch.opens = 0 /\ nextId = 1
    BY DEF FileBridgeInit, Closed
  <1> QED BY <1>1, <1>2, <1>3, IdsRange
          DEF BridgeInv, NumbersInOrder, NumbersDistinct, OwnStream, HasStream, StreamsHeld

\* All streams of the host go away.
LEMMA NoStreamsStep ==
  ASSUME BridgeInv, streams' = [i \in Ids |-> NoStream], UNCHANGED handle,
         BridgeTypeOK', NumbersInOrder',
         epoch'.clean => \/ \A h \in BrHandles : handle[h].id = 0
                         \/ UNCHANGED epoch
  PROVE  BridgeInv'
  <1>1. \A i \in Ids : streams'[i].st = "absent"
    BY StreamTypes
  <1>2. OwnStream' /\ StreamsHeld'
    BY <1>1 DEF OwnStream, HasStream, StreamsHeld, BridgeTypeOK
  <1>3. NumbersDistinct'
    BY <1>1 DEF NumbersDistinct, BridgeInv, BridgeTypeOK
  <1> QED BY <1>2, <1>3 DEF BridgeInv

LEMMA OpenStep ==
  ASSUME BridgeInv, NEW h \in BrHandles, NEW f \in BrFiles, open(h, f)
  PROVE  BridgeInv'
  <1> DEFINE n == nextId
             old == streams[n]
  <1>1. PICK works \in BOOLEAN :
          /\ streams' = [streams EXCEPT ![n] =
                           KeepOld(old, IF works THEN Stream(f, 0) ELSE Unopened)]
          /\ IF streams'[n].st = "open" /\ n # 0
             THEN /\ handle' = [handle EXCEPT ![h] = [id |-> n, file |-> f, pos |-> 0]]
                  /\ orphans' = IF handle[h].id = 0 THEN orphans
                                ELSE orphans \cup {handle[h].id}
             ELSE /\ UNCHANGED handle
                  /\ orphans' = IF streams'[n].st = "open" THEN orphans \cup {0}
                                ELSE orphans
    BY DEF open, fopen_ocall, BridgeInv, BridgeTypeOK
  <1>2. /\ nextId' = (n + 1) % NumberOf
        /\ epoch' = [epoch EXCEPT !.opens = @ + 1, !.all = @ + 1]
    BY DEF open, AfterOpen, NumberOf
  <1>3. /\ n \in Ids /\ n \in Nat /\ old \in StreamState
        /\ epoch.opens \in Nat /\ epoch'.opens = epoch.opens + 1
        /\ epoch'.clean = epoch.clean
    BY <1>2, IdsRange DEF BridgeInv, BridgeTypeOK
  <1> DEFINE s == KeepOld(old, IF works THEN Stream(f, 0) ELSE Unopened)
  <1>4. /\ s \in StreamState
        /\ old.st = "open" => s = old
        /\ old.st # "open" /\ s.st = "open" => s = Stream(f, 0)
    BY <1>3, StreamTypes DEF KeepOld
  <1>5. \A i \in Ids : streams'[i] = IF i = n THEN s ELSE streams[i]
    BY <1>1, <1>3 DEF BridgeInv, BridgeTypeOK
  <1> HIDE DEF s
  <1>6. nextId' \in Ids
    BY <1>2, <1>3, IdsRange
  <1>7. BridgeTypeOK'
    <2>1. streams' \in [Ids -> StreamState]
      BY <1>1, <1>3, <1>4 DEF s, BridgeInv, BridgeTypeOK
    <2>2. handle' \in [BrHandles -> [id : Ids, file : BrFiles \cup {"none"}, pos : Nat]]
      BY <1>1, <1>3 DEF BridgeInv, BridgeTypeOK
    <2>3. epoch' \in [opens : Nat, started : Nat, all : Nat, clean : BOOLEAN]
      <3>1. epoch.opens + 1 \in Nat /\ epoch.all + 1 \in Nat
        BY <1>3 DEF BridgeInv, BridgeTypeOK
      <3>2. epoch \in [opens : Nat, started : Nat, all : Nat, clean : BOOLEAN]
        BY DEF BridgeInv, BridgeTypeOK
      <3> QED BY <1>2, <3>1, <3>2
    <2> QED BY <1>6, <2>1, <2>2, <2>3 DEF BridgeTypeOK
  <1>8. NumbersInOrder'
    <2>1. epoch.opens + 2 < NumberOf => nextId' = epoch.opens + 2
      <3> SUFFICES ASSUME epoch.opens + 2 < NumberOf PROVE nextId' = epoch.opens + 2
        OBVIOUS
      <3>1. n + 1 = epoch.opens + 2
        BY <1>3, IdsRange DEF BridgeInv, NumbersInOrder
      <3>2. n + 1 \in Nat /\ n + 1 < NumberOf /\ NumberOf \in Nat
        BY <1>3, <3>1, IdsRange
      <3>3. (n + 1) % NumberOf = n + 1
        BY <3>2, ModSmall
      <3> QED BY <1>2, <3>1, <3>3
    <2>2. epoch.opens + 2 = NumberOf => nextId' = 0
      <3> SUFFICES ASSUME epoch.opens + 2 = NumberOf PROVE nextId' = 0
        OBVIOUS
      <3>1. n + 1 = NumberOf
        BY <1>3, IdsRange DEF BridgeInv, NumbersInOrder
      <3>2. NumberOf % NumberOf = 0
        BY IdsRange
      <3> QED BY <1>2, <3>1, <3>2
    <2> QED BY <1>3, <2>1, <2>2, IdsRange DEF NumbersInOrder
  <1>9. ASSUME epoch.clean, epoch.opens + 1 <= NumberOf
        PROVE  /\ n = epoch.opens + 1 \/ n = 0
               /\ n # 0 => old.st # "open"
               /\ \A g \in BrHandles : n # 0 => handle[g].id # n
    <2>1. n = epoch.opens + 1 \/ n = 0
      BY <1>3, <1>9, IdsRange DEF BridgeInv, NumbersInOrder
    <2>2. epoch.opens <= NumberOf
      BY <1>3, <1>9, IdsRange
    <2> QED BY <1>3, <1>9, <2>1, <2>2 DEF BridgeInv, NumbersDistinct
  <1>10. \A g \in BrHandles :
           handle'[g] = IF g = h /\ streams'[n].st = "open" /\ n # 0
                        THEN [id |-> n, file |-> f, pos |-> 0] ELSE handle[g]
    BY <1>1 DEF BridgeInv, BridgeTypeOK
  <1>11. \A g \in BrHandles : handle[g].id \in Ids /\ handle[g].id \in Nat
    BY IdsRange DEF BridgeInv, BridgeTypeOK
  <1>12. NumbersDistinct'
    <2> SUFFICES ASSUME epoch.clean, epoch.opens + 1 <= NumberOf
                 PROVE  /\ \A g \in BrHandles : handle'[g].id <= epoch.opens + 1
                        /\ \A i \in Ids : streams'[i].st = "open" => i <= epoch.opens + 1
                        /\ \A g, k \in BrHandles :
                             handle'[g].id # 0 /\ handle'[g].id = handle'[k].id => g = k
      BY <1>3 DEF NumbersDistinct
    <2>1. /\ n = epoch.opens + 1 \/ n = 0
          /\ n # 0 => \A g \in BrHandles : handle[g].id # n
      BY <1>9
    <2>2. /\ \A g \in BrHandles : handle[g].id <= epoch.opens
          /\ \A i \in Ids : streams[i].st = "open" => i <= epoch.opens
          /\ \A g, k \in BrHandles :
               handle[g].id # 0 /\ handle[g].id = handle[k].id => g = k
      BY <1>3, IdsRange DEF BridgeInv, NumbersDistinct
    <2>3. \A g \in BrHandles : handle'[g].id = IF g = h /\ streams'[n].st = "open" /\ n # 0
                                               THEN n ELSE handle[g].id
      BY <1>10
    <2>4. \A g \in BrHandles : handle'[g].id <= epoch.opens + 1
      BY <1>3, <1>11, <2>1, <2>2, <2>3
    <2>5. \A i \in Ids : streams'[i].st = "open" => i <= epoch.opens + 1
      BY <1>3, <1>5, <2>1, <2>2, IdsRange
    <2>6. \A g, k \in BrHandles :
            handle'[g].id # 0 /\ handle'[g].id = handle'[k].id => g = k
      BY <2>1, <2>2, <2>3
    <2> QED BY <2>4, <2>5, <2>6
  <1>13. OwnStream'
    <2> SUFFICES ASSUME epoch.clean, epoch.opens + 1 <= NumberOf,
                        NEW g \in BrHandles, HasStream(g)'
                 PROVE  streams'[handle'[g].id] = Stream(handle'[g].file, handle'[g].pos)
      BY <1>3 DEF OwnStream, NumberOf
    <2>1. CASE handle'[g] = [id |-> n, file |-> f, pos |-> 0] /\ n # 0
      <3>1. streams'[n] = s /\ s.st = "open"
        BY <1>3, <1>5, <2>1 DEF HasStream
      <3>2. s = Stream(f, 0)
        BY <1>4, <1>9, <2>1, <3>1
      <3> QED BY <2>1, <3>1, <3>2
    <2>2. CASE handle'[g] = handle[g] /\ ~(handle'[g] = [id |-> n, file |-> f, pos |-> 0] /\ n # 0)
      <3>1. handle[g].id # 0 /\ handle[g].id # n
        BY <1>9, <2>2 DEF HasStream
      <3>2. streams'[handle[g].id] = streams[handle[g].id]
        BY <1>5, <1>11, <3>1
      <3>3. HasStream(g) /\ epoch.opens <= NumberOf
        BY <1>3, <2>2, <3>1, <3>2, IdsRange DEF HasStream
      <3> QED BY <2>2, <3>2, <3>3 DEF BridgeInv, OwnStream, NumberOf
    <2> QED BY <1>10, <2>1, <2>2
  <1>14. StreamsHeld'
    <2> SUFFICES ASSUME NEW i \in Ids, streams'[i].st = "open"
                 PROVE  i \in orphans' \/ \E g \in BrHandles : i # 0 /\ handle'[g].id = i
      BY DEF StreamsHeld
    <2>1. CASE i = n /\ n # 0
      <3>1. handle'[h].id = n
        BY <1>10, <2>1
      <3> QED BY <2>1, <3>1
    <2>2. CASE i = n /\ n = 0
      BY <1>1, <2>2
    <2>3. CASE i # n
      <3>1. streams[i].st = "open"
        BY <1>5, <2>3
      <3>2. CASE i \in orphans
        BY <1>1, <3>2
      <3>3. ASSUME NEW g \in BrHandles, i # 0, handle[g].id = i
            PROVE  i \in orphans' \/ handle'[g].id = i
        <4>1. CASE handle'[g] = handle[g]
          BY <3>3, <4>1
        <4>2. CASE g = h /\ streams'[n].st = "open" /\ n # 0
          BY <1>1, <3>3, <4>2
        <4> QED BY <1>10, <4>1, <4>2
      <3> QED BY <3>1, <3>2, <3>3 DEF BridgeInv, StreamsHeld
    <2> QED BY <2>1, <2>2, <2>3
  <1> QED BY <1>7, <1>8, <1>12, <1>13, <1>14 DEF BridgeInv

LEMMA CloseStep ==
  ASSUME BridgeInv, NEW h \in BrHandles, close(h)
  PROVE  BridgeInv'
  <1> DEFINE i == handle[h].id
  <1>1. /\ i # 0 /\ streams' = [streams EXCEPT ![i] = NoStream]
        /\ orphans' = orphans \ {i}
        /\ handle' = [handle EXCEPT ![h] = Closed]
        /\ UNCHANGED <<nextId, epoch>>
    BY DEF close, fclose_ocall
  <1>2. i \in Ids /\ Closed.id = 0
    BY DEF BridgeInv, BridgeTypeOK, Closed
  <1>3. \A j \in Ids : streams'[j] = IF j = i THEN NoStream ELSE streams[j]
    BY <1>1 DEF BridgeInv, BridgeTypeOK
  <1>4. \A g \in BrHandles : handle'[g] = IF g = h THEN Closed ELSE handle[g]
    BY <1>1 DEF BridgeInv, BridgeTypeOK
  <1>5. BridgeTypeOK'
    BY <1>1, <1>2, IdsRange, StreamTypes DEF BridgeInv, BridgeTypeOK, Closed
  <1>6. NumbersInOrder'
    BY <1>1 DEF BridgeInv, NumbersInOrder
  <1>7. NumbersDistinct'
    <2>1. epoch.opens \in Nat
      BY DEF BridgeInv, BridgeTypeOK
    <2> QED BY <1>1, <1>2, <1>3, <1>4, <2>1, StreamTypes DEF BridgeInv, NumbersDistinct
  <1>8. OwnStream'
    BY <1>1, <1>2, <1>3, <1>4, StreamTypes
       DEF BridgeInv, BridgeTypeOK, OwnStream, HasStream
  <1>9. StreamsHeld'
    BY <1>1, <1>2, <1>3, <1>4, StreamTypes DEF BridgeInv, StreamsHeld
  <1> QED BY <1>5, <1>6, <1>7, <1>8, <1>9 DEF BridgeInv

\* read, write and seek: the stream and the cxxfile move together.
LEMMA MoveStep ==
  ASSUME BridgeInv, NEW h \in BrHandles, NEW p \in Nat, handle[h].id # 0,
         streams' = Moved(handle[h].id, p),
         streams[handle[h].id].st = "open" =>
           handle' = [handle EXCEPT ![h].pos = p] \/ ~(epoch.clean /\ epoch.opens <= NumberOf),
         streams[handle[h].id].st # "open" => UNCHANGED handle,
         \A g \in BrHandles : handle'[g].id = handle[g].id,
         BridgeTypeOK', UNCHANGED <<nextId, epoch, orphans>>
  PROVE  BridgeInv'
  <1> DEFINE i == handle[h].id
  <1>1. i \in Ids
    BY DEF BridgeInv, BridgeTypeOK
  <1>2. \A j \in Ids : streams'[j] = IF j = i /\ streams[i].st = "open"
                                     THEN [streams[i] EXCEPT !.pos = p] ELSE streams[j]
    BY <1>1 DEF BridgeInv, BridgeTypeOK, Moved
  <1>3. \A j \in Ids : streams'[j].st = streams[j].st
    BY <1>2 DEF BridgeInv, BridgeTypeOK, StreamState
  <1>4. NumbersInOrder' /\ NumbersDistinct' /\ StreamsHeld'
    BY <1>3 DEF BridgeInv, NumbersInOrder, NumbersDistinct, StreamsHeld
  <1>5. OwnStream'
    <2> SUFFICES ASSUME epoch.clean, epoch.opens <= NumberOf, NEW g \in BrHandles,
                        HasStream(g)'
                 PROVE  streams'[handle'[g].id] = Stream(handle'[g].file, handle'[g].pos)
      BY DEF OwnStream, NumberOf
    <2>1. /\ HasStream(g) /\ handle'[g].id = handle[g].id
          /\ streams[handle[g].id] = Stream(handle[g].file, handle[g].pos)
          /\ handle[g].id \in Ids
      BY <1>3 DEF BridgeInv, BridgeTypeOK, OwnStream, HasStream, NumberOf
    <2>2. CASE g = h
      <3>1. streams[i].st = "open"
        BY <2>1, <2>2 DEF HasStream
      <3>2. handle'[h].file = handle[h].file /\ handle'[h].pos = p
        BY <3>1 DEF BridgeInv, BridgeTypeOK
      <3>3. streams'[i] = [streams[i] EXCEPT !.pos = p]
        BY <1>1, <1>2, <3>1
      <3> QED BY <2>1, <2>2, <3>2, <3>3 DEF Stream
    <2>3. CASE g # h
      <3>1. handle[g].id # i
        BY <2>1, <2>3 DEF BridgeInv, NumbersDistinct, HasStream
      <3>2. streams'[handle[g].id] = streams[handle[g].id]
        BY <1>2, <2>1, <3>1
      <3>3. handle'[g] = handle[g]
        BY <2>3 DEF BridgeInv, BridgeTypeOK
      <3> QED BY <2>1, <3>2, <3>3
    <2> QED BY <2>2, <2>3
  <1> QED BY <1>4, <1>5 DEF BridgeInv

LEMMA BridgeInvStep ==
  ASSUME BridgeInv, [FileBridgeNext]_bvars
  PROVE  BridgeInv'
  <1>1. CASE UNCHANGED bvars
    BY <1>1 DEF bvars, BridgeInv, BridgeTypeOK, NumbersInOrder, NumbersDistinct,
                OwnStream, HasStream, StreamsHeld
  <1>2. CASE init_sgx_cxxfile
    <2>1. /\ nextId' = 1 /\ streams' = [i \in Ids |-> NoStream]
          /\ epoch' = [epoch EXCEPT !.opens = 0, !.started = @ + 1,
                         !.clean = \A h \in BrHandles : handle[h].id = 0]
          /\ UNCHANGED handle
      BY <1>2 DEF init_sgx_cxxfile
    <2>2. /\ epoch'.opens = 0
          /\ epoch'.clean => \A h \in BrHandles : handle[h].id = 0
      BY <2>1 DEF BridgeInv, BridgeTypeOK
    <2>3. epoch' \in [opens : Nat, started : Nat, all : Nat, clean : BOOLEAN]
      <3>1. epoch.started + 1 \in Nat /\ (\A h \in BrHandles : handle[h].id = 0) \in BOOLEAN
        BY DEF BridgeInv, BridgeTypeOK
      <3>2. epoch \in [opens : Nat, started : Nat, all : Nat, clean : BOOLEAN]
        BY DEF BridgeInv, BridgeTypeOK
      <3> DEFINE c == \A h \in BrHandles : handle[h].id = 0
      <3>3. c \in BOOLEAN /\ epoch' = [epoch EXCEPT !.opens = 0, !.started = @ + 1, !.clean = c]
        BY <2>1, <3>1
      <3> HIDE DEF c
      <3> QED BY <3>1, <3>2, <3>3
    <2>4. BridgeTypeOK'
      BY <2>1, <2>3, IdsRange, StreamTypes DEF BridgeInv, BridgeTypeOK
    <2>5. NumbersInOrder'
      BY <2>1, <2>2, IdsRange DEF NumbersInOrder
    <2> QED BY <2>1, <2>2, <2>4, <2>5, NoStreamsStep
  <1>3. CASE shutdown_sgx_cxxfile
    <2>1. /\ streams' = [i \in Ids |-> NoStream]
          /\ UNCHANGED <<nextId, handle, epoch>>
      BY <1>3 DEF shutdown_sgx_cxxfile
    <2>2. BridgeTypeOK' /\ NumbersInOrder'
      BY <2>1, StreamTypes DEF BridgeInv, BridgeTypeOK, NumbersInOrder
    <2> QED BY <2>1, <2>2, NoStreamsStep
  <1>4. ASSUME NEW h \in BrHandles, close(h) PROVE BridgeInv'
    BY <1>4, CloseStep
  <1>5. ASSUME NEW h \in BrHandles, NEW f \in BrFiles, open(h, f) PROVE BridgeInv'
    BY <1>5, OpenStep
  <1>6. ASSUME NEW h \in BrHandles, read(h) PROVE BridgeInv'
    <2> DEFINE i == handle[h].id
               p == streams[i].pos + 1
    <2>1. /\ i # 0 /\ streams' = Moved(i, p)
          /\ handle' = [handle EXCEPT ![h].pos = IF streams[i].st = "open" THEN @ + 1 ELSE @]
          /\ UNCHANGED <<nextId, epoch, orphans>>
      BY <1>6 DEF read
    <2>2. /\ i \in Ids /\ streams[i] \in StreamState /\ p \in Nat
          /\ handle[h].pos + 1 \in Nat
      BY DEF BridgeInv, BridgeTypeOK, StreamState
    <2>3. streams[i].st = "open" /\ epoch.clean /\ epoch.opens <= NumberOf =>
            handle[h].pos + 1 = p
      <3>1. streams[i].st = "open" /\ epoch.clean /\ epoch.opens <= NumberOf =>
              streams[i] = Stream(handle[h].file, handle[h].pos)
        BY <2>1 DEF BridgeInv, OwnStream, HasStream, NumberOf
      <3> QED BY <3>1 DEF Stream
    <2>4. BridgeTypeOK'
      <3>1. streams' \in [Ids -> StreamState]
        BY <2>1, <2>2 DEF BridgeInv, BridgeTypeOK, Moved, StreamState
      <3>2. handle' \in [BrHandles -> [id : Ids, file : BrFiles \cup {"none"}, pos : Nat]]
        BY <2>1, <2>2 DEF BridgeInv, BridgeTypeOK
      <3> QED BY <2>1, <3>1, <3>2 DEF BridgeInv, BridgeTypeOK
    <2>5. \A g \in BrHandles : handle'[g].id = handle[g].id
      BY <2>1 DEF BridgeInv, BridgeTypeOK
    <2>6. streams[i].st # "open" => UNCHANGED handle
      BY <2>1 DEF BridgeInv, BridgeTypeOK
    <2>7. streams[i].st = "open" => handle' = [handle EXCEPT ![h].pos = p]
                                    \/ ~(epoch.clean /\ epoch.opens <= NumberOf)
      BY <2>1, <2>3
    <2> HIDE DEF p
    <2> QED BY <2>1, <2>2, <2>4, <2>5, <2>6, <2>7, MoveStep
  <1>7. ASSUME NEW h \in BrHandles, seekg(h, 0) PROVE BridgeInv'
    <2> DEFINE i == handle[h].id
    <2>1. /\ i # 0 /\ streams' = Moved(i, 0)
          /\ handle' = [handle EXCEPT ![h].pos = IF streams[i].st = "open" THEN 0 ELSE @]
          /\ UNCHANGED <<nextId, epoch, orphans>>
      BY <1>7 DEF seekg
    <2>2. i \in Ids /\ streams[i] \in StreamState
      BY DEF BridgeInv, BridgeTypeOK
    <2>4. BridgeTypeOK'
      <3>1. streams' \in [Ids -> StreamState]
        BY <2>1, <2>2 DEF BridgeInv, BridgeTypeOK, Moved, StreamState
      <3>2. handle' \in [BrHandles -> [id : Ids, file : BrFiles \cup {"none"}, pos : Nat]]
        BY <2>1, <2>2 DEF BridgeInv, BridgeTypeOK
      <3> QED BY <2>1, <3>1, <3>2 DEF BridgeInv, BridgeTypeOK
    <2>5. \A g \in BrHandles : handle'[g].id = handle[g].id
      BY <2>1 DEF BridgeInv, BridgeTypeOK
    <2>6. streams[i].st # "open" => UNCHANGED handle
      BY <2>1 DEF BridgeInv, BridgeTypeOK
    <2>7. streams[i].st = "open" => handle' = [handle EXCEPT ![h].pos = 0]
      BY <2>1
    <2> QED BY <2>1, <2>2, <2>4, <2>5, <2>6, <2>7, MoveStep
  <1> QED BY <1>1, <1>2, <1>3, <1>4, <1>5, <1>6, <1>7 DEF FileBridgeNext

\* Each cxxfile has its own stream and each open stream its cxxfile, until
\* the stream numbers run out or the bridge is started again under an open
\* file, for any width of a number.
THEOREM StreamsSoundHolds == FileBridgeSpec => []StreamsSound
  <1>1. BridgeInv /\ [FileBridgeNext]_bvars => BridgeInv'
    BY BridgeInvStep
  <1>2. BridgeInv => StreamsSound
    BY DEF BridgeInv, StreamsSound
  <1> QED BY <1>1, <1>2, BridgeInvInit, PTL DEF FileBridgeSpec
=============================================================================
