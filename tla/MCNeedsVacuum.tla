---------------------------- MODULE MCNeedsVacuum ----------------------------
(***************************************************************************)
(* Instances of NeedsVacuum for TLC: servers and command lines, and tables *)
(* of each kind the two passes tell apart.                                 *)
(***************************************************************************)
EXTENDS NeedsVacuum, TLC

CONSTANTS a, b, c

Stock == [threshold |-> 2, scale |-> 1, ins_threshold |-> 2, ins_scale |-> 1]
StandIns == [threshold |-> 1, scale |-> 1]

Plain == [order |-> None, limit |-> 4, table |-> {a, b, c}, vacuum_threshold |-> None,
          server |-> Stock, pg18 |-> TRUE, guc |-> 5, min_bytes |-> 0, max_bytes |-> 9]

(* Each order with a limit; --vacuum-threshold above what autovacuum acts  *)
(* on; a server before 18; --table; a size band and a disabled cap.        *)
CommandLines ==
    {Plain,
     [Plain EXCEPT !.limit = 2],
     [Plain EXCEPT !.limit = 2, !.order = "size"],
     [Plain EXCEPT !.limit = 1, !.order = "last"],
     [Plain EXCEPT !.vacuum_threshold = 5],
     [Plain EXCEPT !.pg18 = FALSE],
     [Plain EXCEPT !.table = {a, b}, !.limit = 1, !.order = "size"],
     [Plain EXCEPT !.min_bytes = 2, !.guc = -1]}

Unset == [threshold |-> None, scale |-> None, cap |-> None,
          ins_threshold |-> None, ins_scale |-> None]

Small == [live |-> 0, tuples |-> 0, unfrozen |-> 0, inserts |-> 0, size |-> 1, last |-> 0,
          options |-> Unset]
Large == [Small EXCEPT !.live = 10, !.tuples = 10, !.unfrozen = 10, !.size = 3, !.last = 2]
(* Due by its inserts where the frozen pages count.                        *)
Filled == [Small EXCEPT !.tuples = 4, !.unfrozen = 1, !.inserts = 4, !.size = 2, !.last = 1]
Patient == [Small EXCEPT !.last = 2, !.options.threshold = 9, !.inserts = 9,
                         !.options.ins_threshold = -1]
LargeUncapped == [Large EXCEPT !.inserts = 8, !.options.cap = -1, !.options.ins_scale = 0]
LargeUnscaled == [Large EXCEPT !.options.scale = 0]

Catalog3(x, y, z) == [t \in Tables |-> IF t = a THEN x ELSE IF t = b THEN y ELSE z]

SomeCatalogs ==
    {Catalog3(Small, Large, Filled), Catalog3(Large, Filled, Patient),
     Catalog3(LargeUnscaled, LargeUncapped, Small)}
=============================================================================
