----------------------------- MODULE MCDataflow -----------------------------
(* Dataflow for TLC: one graph per shape the functors can be put together  *)
(* in, with every input of the bound.                                      *)
EXTENDS Dataflow

CONSTANTS
  MaxKey,   \* bound: keys of the items
  MaxLen    \* bound: items of an unordered input

\* Ordered inputs, as the ordered_* functors need them; the data column
\* tells the extractor an item came from.
Ordered(src) ==
  {[j \in 1 .. Cardinality(S) |-> <<Ascending(S)[j], src>>] :
     S \in SUBSET (1 .. MaxKey)}
Unordered == BoundedSeq({<<k, 1>> : k \in 1 .. MaxKey}, MaxLen)

\* A shape and the inputs of its extractors, which come first.
Shapes(kind, preds, inputs) ==
  {[kind |-> kind, preds |-> preds, input |-> in] : in \in inputs}
One(S) == {<<x>> : x \in S}
Two == Ordered(1) \X Ordered(2)
Three == Ordered(1) \X Ordered(2) \X Ordered(3)

Pipelines ==
  \* extractor, to_type, filter, all, trim, output
  Shapes(<<"raw", "to_type", "filter", "all", "trim", "output">>,
         <<<<>>, <<1>>, <<2>>, <<3>>, <<4>>, <<5>>>>, One(Unordered))
  \cup Shapes(<<"raw", "group", "output">>, <<<<>>, <<1>>, <<2>>>>, One(Unordered))
  \cup Shapes(<<"raw", "filter", "group", "output">>,
              <<<<>>, <<1>>, <<2>>, <<3>>>>, One(Unordered))

SetGraphs ==
  UNION {Shapes(<<"raw", "raw", op, "output">>,
                <<<<>>, <<>>, <<1, 2>>, <<3>>>>, Two) :
           op \in {"union", "intersection", "difference", "concat"}}
  \* a filter in front of one stream, a set operation in front of the other
  \cup UNION {Shapes(<<"raw", "raw", "raw", "filter", op, "union", "output">>,
                <<<<>>, <<>>, <<>>, <<1>>, <<2, 3>>, <<4, 5>>, <<6>>>>, Three) :
           op \in {"intersection", "difference"}}
  \* a stream that is an input twice
  \cup Shapes(<<"raw", "filter", "union", "output">>,
              <<<<>>, <<1>>, <<2, 2>>, <<3>>>>, One(Ordered(1)))
  \cup Shapes(<<"raw", "raw", "raw", "difference", "output">>,
              <<<<>>, <<>>, <<>>, <<1, 2, 3>>, <<4>>>>, Three)

\* A split stream read by two branches of different length that meet again,
\* and a third read by an output of its own.
SplitGraphs ==
  Shapes(<<"raw", "filter", "split", "tap", "tap", "output", "output">>,
         <<<<>>, <<1>>, <<2>>, <<3>>, <<3>>, <<4>>, <<5>>>>, One(Unordered))
  \cup UNION {Shapes(<<"raw", "split", "tap", "tap", "filter", "trim", op, "output",
                "tap", "output">>,
         <<<<>>, <<1>>, <<2>>, <<2>>, <<4>>, <<5>>, <<3, 6>>, <<7>>, <<2>>, <<9>>>>,
         One(Ordered(1))) : op \in {"union", "intersection", "difference", "concat"}}

MCGraphs == Pipelines \cup SetGraphs \cup SplitGraphs
=============================================================================
