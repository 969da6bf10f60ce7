------------------------ MODULE MCMilestoneActivator ------------------------
(***************************************************************************)
(* MilestoneActivator with two files: one with an indented section between *)
(* lines that must not change, and one with two sections.                  *)
(***************************************************************************)
EXTENDS MilestoneActivator

sp == "space"

MCOriginal ==
  [ config |-> << <<"#", sp, "milestone:", sp, "v1">>,
                  <<sp, "start">>,
                  <<sp, "milestone:", sp, "v1">>,
                  <<sp, sp, "#", "text">>,
                  <<sp>>,
                  <<sp, "end">>,
                  <<sp, "text">> >>,
    plugins |-> << <<"start">>,
                   <<"text", sp, "milestone:", sp, "v1">>,
                   <<"end", sp>>,
                   <<"start">>,
                   << >>,
                   <<"end">> >> ]
=============================================================================
