------------------------------- MODULE MCLoader -------------------------------
(***************************************************************************)
(* Loader for TLC: a region of two windows, each of two write units, next  *)
(* to a smaller one that ends inside a window, a block and a write unit,   *)
(* and two addresses past the map.  GDB's packets and the files cross a    *)
(* window, cross the regions, or run off the map; a file also skips a      *)
(* segment or overlaps itself.                                             *)
(***************************************************************************)
EXTENDS Loader

TwoStarts == [f \in 1 .. 2 |-> IF f = 1 THEN 0 ELSE 8]
TwoLengths == [f \in 1 .. 2 |-> IF f = 1 THEN 8 ELSE 3]
TwoBlocks == [f \in 1 .. 2 |-> IF f = 1 THEN 4 ELSE 2]

TwoData == {"d", "e"}

SomeRanges == {<<0, 4>>, <<0, 11>>, <<1, 1>>, <<2, 5>>, <<3, 1>>, <<7, 2>>, <<9, 3>>, <<11, 1>>}

Segment(addr, len, data) == [addr |-> addr, len |-> len, data |-> data, load |-> TRUE]
NotLoaded == [addr |-> 0, len |-> 1, data |-> "e", load |-> FALSE]

SomeFiles == {
    <<Segment(3, 3, "d"), NotLoaded, Segment(9, 2, "e")>>,
    <<Segment(7, 2, "d")>>,
    <<Segment(1, 2, "d"), Segment(2, 2, "e")>>,
    <<Segment(10, 2, "e")>>}

\* For GDB all faults but two: a prepare that fails inside a flush moves the buffer on
\* with the old marks, and a write that fails silently is for the loader's read-back
\* to find.
SomeFaults == [gdb |-> {"enter", "erase", "write", "done", "malloc"},
               ui  |-> {"enter", "erase", "write", "silent", "done", "malloc", "prepare"}]

===============================================================================
