--------------------------- MODULE MCMouseParser ---------------------------
(***************************************************************************)
(* Reports for model checking MouseParser: every button alone, the right   *)
(* one with each of the others, and a movement alone and with a click.     *)
(***************************************************************************)
EXTENDS MouseParser

MCReports ==
    [buttons : {{}, {"left"}, {"right"}, {"middle"}, {"left", "right"}, {"right", "middle"}},
     move : {NoMove}]
    \cup [buttons : {{}, {"left"}}, move : Moves]
=============================================================================
