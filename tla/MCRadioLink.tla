---------------------------- MODULE MCRadioLink ----------------------------
(***************************************************************************)
(* Instances of RadioLink for TLC.  A payload has two bytes here: width 1   *)
(* is a short packet, 2 a full one, 3 one whose width is corrupt.           *)
(***************************************************************************)
EXTENDS RadioLink

MCPipes == {0, 1}
MCWidths == {1, 3}

\* write is called with nothing, with too little and with more than a payload.
MCWriteCounts == {-1, 0, 1, 3}

\* Only calls whose count the header allows.
MCPositiveCounts == {1, 3}

MCReadCounts == {0, 2}
=============================================================================
