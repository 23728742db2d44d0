------------------------------ MODULE Dataflow ------------------------------
(***************************************************************************)
(* The hpda engine: a graph of functors (extractors, processors, outputs)  *)
(* that engine::run() drives until every output has ended.  The engine     *)
(* pulls: it walks from the outputs to the inputs that have no value       *)
(* (to_process), and lets the functors on the way back (processing) make   *)
(* theirs.                                                                 *)
(*                                                                         *)
(* An item is <<key, data>>.  Functors are numbered so that a functor's    *)
(* predecessors come before it: they are passed to its constructor.        *)
(***************************************************************************)
EXTENDS Integers, FiniteSets, SequencesExt

CONSTANTS
  Graphs,   \* records [kind, preds, input]; input[n]: what extractor n holds
  Keep,     \* keys that pass the predicate of a filter
  Bad       \* keys of the records that do not convert in to_type

Kinds == {"raw", "tap", "filter", "trim", "to_type", "all", "output", "split",
          "concat", "union", "intersection", "difference", "group"}

ASSUME GraphAssumption ==
  \A g \in Graphs :
    /\ Len(g.kind) \in Nat \ {0}
    /\ \A n \in 1 .. Len(g.kind) : g.kind[n] \in Kinds /\ g.preds[n] \in Seq(1 .. n - 1)

VARIABLES
  graph,    \* the functors of this run
  outputs,  \* find_outputs(), in the order of an unordered_map
  pc,       \* the loop of run() that is next
  queue,    \* to_process
  stack,    \* processing
  status,   \* m_status
  fn,       \* m_has_value and the members of each functor
  made      \* history: what each functor made, in order

vars == <<graph, outputs, pc, queue, stack, status, fn, made>>

Node == 1 .. Len(graph.kind)
Kind(n) == graph.kind[n]
Preds(n) == graph.preds[n]
Sinks == {"output", "split"}            \* subclasses of output_base
Readers == {"raw", "tap"}               \* raw_data, also behind a split
NoItem == <<0, 0>>

\* val is m_data of a processor; data the m_data vector of a raw_data,
\* memory_output or all; pos is m_index + 1 of a raw_data and m_index of a
\* concat; grouping, last and acc belong to groupby and its aggregator.
NewFunctor(g, n) ==
  [has |-> FALSE, val |-> NoItem, pos |-> 0, grouping |-> FALSE, last |-> 0,
   acc |-> 0, data |-> IF g.kind[n] = "raw" THEN g.input[n] ELSE <<>>]

Value(n) ==
  CASE Kind(n) \in Readers -> fn[n].data[fn[n].pos]
    [] Kind(n) = "all" -> Last(fn[n].data)
    [] OTHER -> fn[n].val

-----------------------------------------------------------------------------
(* process() of each functor: its result and the functors after it.        *)

Result(ok, f) == [ok |-> ok, fn |-> f]

\* The upper streams that have a value (by position), and their keys.
Live(n) == {k \in DOMAIN Preds(n) : fn[Preds(n)[k]].has}
KeyAt(n, k) == Value(Preds(n)[k])[1]
LeastKey(n, K) == Min({KeyAt(n, k) : k \in K})

\* reset_done_value of the upper streams at positions K, after functor n
\* has become r.
Consume(n, r, K) ==
  [m \in Node |->
     IF m = n THEN r
     ELSE IF \E k \in K : Preds(n)[k] = m THEN [fn[m] EXCEPT !.has = FALSE]
     ELSE fn[m]]

RawProcess(n) ==
  IF fn[n].data = <<>> THEN Result(FALSE, fn)
  ELSE Result(fn[n].pos + 1 <= Len(fn[n].data),
              [fn EXCEPT ![n] = [@ EXCEPT !.pos = fn[n].pos + 1]])

FilterForgetsConsume(n) ==
  LET v == Value(Preds(n)[1])
      ok == v[1] \in Keep
  IN IF Live(n) = {} THEN Result(FALSE, fn)
     ELSE Result(ok, Consume(n, [fn[n] EXCEPT !.val = IF ok THEN v ELSE @],
                             IF ok THEN {1} ELSE {}))

FilterProcess(n) ==
  LET v == Value(Preds(n)[1])
      ok == v[1] \in Keep
  IN IF Live(n) = {} THEN Result(FALSE, fn)
     ELSE Result(ok, Consume(n, [fn[n] EXCEPT !.val = IF ok THEN v ELSE @], {1}))

TrimProcess(n) ==
  IF Live(n) = {} THEN Result(FALSE, fn)
  ELSE Result(TRUE, Consume(n, [fn[n] EXCEPT !.val = Value(Preds(n)[1])], {1}))

\* A record that does not convert is left where it is.
ToTypeProcess(n) ==
  IF Live(n) = {} \/ Value(Preds(n)[1])[1] \in Bad THEN Result(FALSE, fn)
  ELSE TrimProcess(n)

\* memory_output and all: the same process().
CollectProcess(n) ==
  IF Live(n) = {} THEN Result(FALSE, fn)
  ELSE Result(TRUE, Consume(n, [fn[n] EXCEPT
                !.data = Append(fn[n].data, Value(Preds(n)[1]))], {1}))

\* split copies its input to the streams made by new_split_stream.
SplitProcess(n) ==
  IF Live(n) = {} THEN Result(FALSE, fn)
  ELSE LET v == Value(Preds(n)[1])
           f == Consume(n, fn[n], {1})
       IN Result(TRUE, [m \in Node |->
            IF Kind(m) = "tap" /\ Preds(m)[1] = n
            THEN [f[m] EXCEPT !.data = Append(f[m].data, v)] ELSE f[m]])

\* concat skips streams without a value for good.
ConcatProcess(n) ==
  LET ahead == {k \in Live(n) : k > fn[n].pos}
      k == Min(ahead)
  IN IF ahead = {}
     THEN Result(FALSE, [fn EXCEPT ![n] = [@ EXCEPT !.pos = Len(Preds(n))]])
     ELSE Result(TRUE, Consume(n, [fn[n] EXCEPT !.pos = k - 1,
                                  !.val = Value(Preds(n)[k])], {k}))

\* ordered_union takes the least key, from the first stream that has it.
UnionKeepsEqual(n) ==
  LET least == {k \in Live(n) : KeyAt(n, k) = LeastKey(n, Live(n))}
  IN IF Live(n) = {} THEN Result(FALSE, fn)
     ELSE Result(TRUE, Consume(n,
            [fn[n] EXCEPT !.val = Value(Preds(n)[Min(least)])], {Min(least)}))

UnionProcess(n) ==
  LET least == {k \in Live(n) : KeyAt(n, k) = LeastKey(n, Live(n))}
  IN IF Live(n) = {} \/ Len(Preds(n)) < 2 THEN Result(FALSE, fn)
     ELSE Result(TRUE, Consume(n,
            [fn[n] EXCEPT !.val = Value(Preds(n)[Min(least)])], least))

\* ordered_intersection waits for all streams; the fields of the last one
\* overwrite those of the others.
IntersectionProcess(n) ==
  LET all == DOMAIN Preds(n)
      least == {k \in all : KeyAt(n, k) = LeastKey(n, all)}
      ok == least = all
  IN IF Live(n) # all \/ Len(Preds(n)) < 2 THEN Result(FALSE, fn)
     ELSE Result(ok, Consume(n, IF ok
            THEN [fn[n] EXCEPT !.val = Value(Preds(n)[Len(Preds(n))])]
            ELSE fn[n], least))

\* ordered_difference: the least key is dropped wherever another stream has
\* it; otherwise it is the first stream's.
DifferenceProcess(n) ==
  LET least == {k \in Live(n) : KeyAt(n, k) = LeastKey(n, Live(n))}
      ok == least = {1}
  IN IF 1 \notin Live(n) \/ Len(Preds(n)) < 2 THEN Result(FALSE, fn)
     ELSE Result(ok, Consume(n, IF ok
            THEN [fn[n] EXCEPT !.val = Value(Preds(n)[1])] ELSE fn[n], least))

\* groupby with the sum aggregator.  The key column of m_data is set when a
\* group begins, the aggregate when it ends.
GroupProcess(n) ==
  LET s == fn[n]
      v == Value(Preds(n)[1])
  IN
  CASE Live(n) = {} /\ ~s.grouping -> Result(FALSE, fn)
    [] Live(n) = {} /\ s.grouping ->
         Result(TRUE, [fn EXCEPT ![n] = [s EXCEPT !.grouping = FALSE,
                                           !.val = <<s.val[1], s.acc>>]])
    [] Live(n) # {} /\ s.grouping /\ s.last = v[1] ->
         Result(FALSE, Consume(n, [s EXCEPT !.acc = s.acc + v[2]], {1}))
    [] Live(n) # {} /\ s.grouping /\ s.last # v[1] ->
         Result(TRUE, Consume(n, [s EXCEPT !.val = <<v[1], s.acc>>,
                                    !.last = v[1], !.acc = v[2]], {1}))
    [] Live(n) # {} /\ ~s.grouping ->
         Result(FALSE, Consume(n, [s EXCEPT !.grouping = TRUE, !.last = v[1],
                                     !.val = <<v[1], s.val[2]>>,
                                     !.acc = v[2]], {1}))

Process(n) ==
  CASE Kind(n) \in Readers -> RawProcess(n)
    [] Kind(n) = "filter" -> FilterProcess(n)
    [] Kind(n) = "trim" -> TrimProcess(n)
    [] Kind(n) = "to_type" -> ToTypeProcess(n)
    [] Kind(n) \in {"all", "output"} -> CollectProcess(n)
    [] Kind(n) = "split" -> SplitProcess(n)
    [] Kind(n) = "concat" -> ConcatProcess(n)
    [] Kind(n) = "union" -> UnionProcess(n)
    [] Kind(n) = "intersection" -> IntersectionProcess(n)
    [] Kind(n) = "difference" -> DifferenceProcess(n)
    [] Kind(n) = "group" -> GroupProcess(n)

-----------------------------------------------------------------------------
(* engine::run().                                                          *)

\* done_value(): a value is there to be taken, except after an output.
Done(n, f) == [f EXCEPT ![n] = [@ EXCEPT !.has = Kind(n) \notin Sinks]]

\* The functors of seq that are in S, in the order they are asked.  One is
\* marked when it is asked, so that it is asked once if it is there twice.
Ask(seq, S) ==
  LET asked[k \in 0 .. Len(seq)] ==
        IF k = 0 THEN <<>>
        ELSE IF seq[k] \in S /\ seq[k] \notin ToSet(asked[k - 1])
             THEN Append(asked[k - 1], seq[k]) ELSE asked[k - 1]
  IN asked[Len(seq)]

\* The inputs of n that are asked for a value, in the order of m_predecessors.
WantedAlsoQueued(n, f, st) ==
  Ask(Preds(n), {m \in Node : ~f[m].has /\ st[m] # "end"})
Wanted(n, f, st) ==
  Ask(Preds(n), {m \in Node : ~f[m].has /\ st[m] \notin {"to_p", "end"}})

Mark(st, ms) == [m \in Node |-> IF m \in ToSet(ms) THEN "to_p" ELSE st[m]]
Log(n, r) ==
  made' = IF ~r.ok THEN made
          ELSE [made EXCEPT ![n] = Append(@,
                  CASE Kind(n) \in Readers -> r.fn[n].data[r.fn[n].pos]
                    [] Kind(n) \in {"all", "output"} -> Last(r.fn[n].data)
                    [] Kind(n) = "split" -> Value(Preds(n)[1])
                    [] OTHER -> r.fn[n].val)]

\* build_graph, find_outputs and the first entries of to_process.
Start(g, order) ==
  /\ graph = g
  /\ outputs = order
  /\ queue = order
  /\ stack = <<>>
  /\ status = [n \in 1 .. Len(g.kind) |->
                 IF n \in ToSet(order) THEN "to_p" ELSE "null"]
  /\ fn = [n \in 1 .. Len(g.kind) |-> NewFunctor(g, n)]
  /\ made = [n \in 1 .. Len(g.kind) |-> <<>>]
  /\ pc = "bfs"

FindOutputs(g) ==
  {n \in 1 .. Len(g.kind) : \A m \in 1 .. Len(g.kind) :
     n \notin ToSet(g.preds[m])}

Init == \E g \in Graphs : \E order \in SetToSeqs(FindOutputs(g)) :
          Start(g, order)

\* 1. BFS, an extractor at its front: it has no predecessors.
BfsExtractor ==
  /\ pc = "bfs"
  /\ Preds(Head(queue)) = <<>>
  /\ LET f == Head(queue)
         r == Process(f)
     IN /\ fn' = IF r.ok THEN Done(f, r.fn) ELSE r.fn
        /\ status' = [status EXCEPT ![f] = IF r.ok THEN "null" ELSE "end"]
        /\ Log(f, r)
  /\ queue' = Tail(queue)
  /\ pc' = IF queue' = <<>> THEN "pop" ELSE "bfs"
  /\ UNCHANGED <<graph, outputs, stack>>

BfsProcessor ==
  /\ pc = "bfs"
  /\ Preds(Head(queue)) # <<>>
  /\ LET f == Head(queue)
         st == [status EXCEPT ![f] = "p"]
         ms == Wanted(f, fn, st)
     IN /\ stack' = Append(stack, f)
        /\ status' = Mark(st, ms)
        /\ queue' = Tail(queue) \o ms
  /\ pc' = IF queue' = <<>> THEN "pop" ELSE "bfs"
  /\ UNCHANGED <<graph, outputs, fn, made>>

\* 2. pop stack: the top functor makes a value, or asks its inputs for one,
\* or ends.
PopValue ==
  /\ pc = "pop"
  /\ stack # <<>>
  /\ LET f == Last(stack)
         r == Process(f)
     IN /\ r.ok
        /\ fn' = Done(f, r.fn)
        /\ status' = [status EXCEPT ![f] = "null"]
        /\ Log(f, r)
  /\ stack' = Front(stack)
  /\ UNCHANGED <<graph, outputs, pc, queue>>

PopAgain ==
  /\ pc = "pop"
  /\ stack # <<>>
  /\ LET f == Last(stack)
         r == Process(f)
         g == [r.fn EXCEPT ![f] = [@ EXCEPT !.has = FALSE]]
         ms == Wanted(f, g, status)
     IN /\ ~r.ok
        /\ fn' = g
        /\ IF ms # <<>>
           THEN /\ queue' = ms
                /\ status' = Mark(status, ms)
                /\ pc' = "bfs"
                /\ UNCHANGED stack
           ELSE /\ stack' = Front(stack)
                /\ status' = [status EXCEPT ![f] = "end"]
                /\ UNCHANGED <<queue, pc>>
  /\ UNCHANGED <<graph, outputs, made>>

\* 3. prepare BFS: the outputs that have not ended ask again.
PrepareAll ==
  /\ pc = "pop"
  /\ stack = <<>>
  /\ queue' = outputs
  /\ status' = Mark(status, outputs)
  /\ pc' = "bfs"
  /\ UNCHANGED <<graph, outputs, stack, fn, made>>

PrepareBfs ==
  /\ pc = "pop"
  /\ stack = <<>>
  /\ LET ms == Ask(outputs, {m \in Node : status[m] \notin {"end", "to_p"}})
     IN /\ queue' = ms
        /\ status' = Mark(status, ms)
        /\ pc' = IF ms = <<>> THEN "done" ELSE "bfs"
  /\ UNCHANGED <<graph, outputs, stack, fn, made>>

Returned == pc = "done" /\ UNCHANGED vars

Step == BfsExtractor \/ BfsProcessor \/ PopValue \/ PopAgain \/ PrepareBfs
Next == Step \/ Returned

\* run() is one thread that nothing blocks.
Spec == Init /\ [][Next]_vars /\ WF_vars(Step)

-----------------------------------------------------------------------------
(* What the functors are for: the items each should make, from those its   *)
(* upper streams should.                                                   *)

ItemOf(seq, key) == CHOOSE x \in ToSet(seq) : x[1] = key
Keys(seq) == {x[1] : x \in ToSet(seq)}
Ascending(S) == SetToSortSeq(S, <)

\* Runs of equal keys: where they begin, and their sums.  The key column of
\* a result is that of the group after it (of its own group for the last):
\* m_data holds the next group's key when the result is taken.
GroupSums(seq) ==
  LET starts == Ascending({k \in DOMAIN seq :
                             k = 1 \/ seq[k][1] # seq[k - 1][1]})
      end(j) == IF j = Len(starts) THEN Len(seq) ELSE starts[j + 1] - 1
  IN [j \in DOMAIN starts |->
        <<seq[starts[Min({j + 1, Len(starts)})]][1],
          FoldLeft(LAMBDA a, x : a + x[2], 0, SubSeq(seq, starts[j], end(j)))>>]

UpToBad(seq) ==
  LET bad == {k \in DOMAIN seq : seq[k][1] \in Bad}
  IN IF bad = {} THEN seq ELSE SubSeq(seq, 1, Min(bad) - 1)

Meaning ==
  LET M[n \in Node] ==
        LET ps == Preds(n)
            others == UNION {Keys(M[ps[k]]) : k \in 2 .. Len(ps)}
            every == Keys(M[ps[1]]) \cup others
            common == {x \in every : \A k \in DOMAIN ps : x \in Keys(M[ps[k]])}
            first(x) == Min({k \in DOMAIN ps : x \in Keys(M[ps[k]])})
        IN CASE Kind(n) = "raw" -> graph.input[n]
             [] Kind(n) = "filter" ->
                  SelectSeq(M[ps[1]], LAMBDA x : x[1] \in Keep)
             [] Kind(n) = "to_type" -> UpToBad(M[ps[1]])
             [] Kind(n) = "concat" -> FlattenSeq([k \in DOMAIN ps |-> M[ps[k]]])
             [] Kind(n) = "union" ->
                  [j \in 1 .. Cardinality(every) |->
                     LET x == Ascending(every)[j]
                     IN ItemOf(M[ps[first(x)]], x)]
             [] Kind(n) = "intersection" ->
                  [j \in 1 .. Cardinality(common) |->
                     ItemOf(M[ps[Len(ps)]], Ascending(common)[j])]
             [] Kind(n) = "difference" ->
                  SelectSeq(M[ps[1]], LAMBDA x : x[1] \notin others)
             [] Kind(n) = "group" -> GroupSums(M[ps[1]])
             [] OTHER -> M[ps[1]]
  IN M

-----------------------------------------------------------------------------
(* Properties.                                                             *)

\* The type invariant.
TypeOK ==
  /\ pc \in {"bfs", "pop", "done"}
  /\ queue \in Seq(Node) /\ stack \in Seq(Node)
  /\ status \in [Node -> {"null", "to_p", "p", "end"}]
  /\ \A n \in Node : fn[n].has \in BOOLEAN /\ fn[n].pos \in Nat

\* QueuedOnce: a functor is marked to_p exactly while it waits in
\* to_process, and waits there once: run() relies on the mark alone to keep
\* two consumers from asking the same functor twice.
QueuedOnce ==
  /\ \A n \in Node : status[n] = "to_p" <=> n \in ToSet(queue)
  /\ IsInjective(queue)
  /\ (pc = "bfs") <=> queue # <<>>

\* EndedComplete: run() marks a functor ended only when it has made all it
\* ever could; nothing is dropped because an input was asked too early, was
\* on the stack twice, or had a value waiting when its consumer gave up.
EndedComplete ==
  \A n \in Node : status[n] = "end" => made[n] = Meaning[n]

\* InOrder: what a functor has made so far is the beginning of what it
\* should make: no item twice, out of order, or taken by the wrong branch.
InOrder == \A n \in Node : IsPrefix(made[n], Meaning[n])

\* RunEnds: run() returns, and then every output has received everything.
RunEnds == <>[](pc = "done" /\ \A n \in ToSet(outputs) : made[n] = Meaning[n])

\* The status flags of engine::run are well formed in every graph, and no functor is
\* queued twice (the two parts above).
QueueSound ==
  TypeOK /\ QueuedOnce
=============================================================================
