---------------------------- MODULE MCBlockFile ----------------------------
(* BlockFile for TLC: every file of up to MaxItems items, read with every  *)
(* sequence of buffer sizes.                                               *)
EXTENDS BlockFile

CONSTANTS
  MaxItems,   \* bound: items in the file
  MaxWords,   \* bound: words in an item
  MaxCalls,   \* bound: calls of next_item
  SmallBuf    \* in_size of a reader that asks with a small buffer

Items == BoundedSeq({-1, -2}, MaxWords) \ {<<>>}

FileNext ==
  FileStep(IF Len(log) < MaxItems THEN Items ELSE {},
           IF Len(got) < MaxCalls THEN {SmallBuf, BufSize} ELSE {})

FileSpec == FileInit /\ [][FileNext]_fvars
=============================================================================
