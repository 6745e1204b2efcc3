-------------------------------- MODULE MCUci --------------------------------
(***************************************************************************)
(* Small instances of Uci: two positions that have moves and one that has  *)
(* none, and a handful of go commands.                                     *)
(***************************************************************************)
EXTENDS Uci

CONSTANTS start, other, mated

MCPositions == {start, other, mated}
MatedOnly == {mated}
None == {}
OpenPositions == {start, other}

Plain == NoLimits
Shallow == [NoLimits EXCEPT !.depth = 1]
Timed == [NoLimits EXCEPT !.timed = TRUE]
Nodes == [NoLimits EXCEPT !.nodes = TRUE]
MateIn == [NoLimits EXCEPT !.mate = TRUE]

AllLimits == {Plain, Shallow, [Shallow EXCEPT !.depth = 0], Timed, Nodes,
              MateIn, [Timed EXCEPT !.nodes = TRUE]}
OnlyPlain == {Plain}

Everything == AllCommands
GoStop == {"go", "stop"}
GoPosition == {"go", "position"}
=============================================================================
