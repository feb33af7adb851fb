---------------------------- MODULE MCFrontEnds ----------------------------
(* Values for the front-ends.                                              *)
EXTENDS FrontEnds, TLC

(* Three messages on pages of two: a pass takes several queries, and a     *)
(* message can move between them.                                          *)
MCSetup ==
    {[dry_run |-> d, once |-> o] : d \in BOOLEAN, o \in BOOLEAN} \
        {[dry_run |-> TRUE, once |-> TRUE]}
OnlyOnce == {[dry_run |-> FALSE, once |-> TRUE]}

(* A message an extractor wants, and two forwards it wants the content of, *)
(* one of them with more headers than are read ahead.                      *)
MCId == 1 .. 3
MCAbout ==
    [i \in 1 .. 3 |->
       [old |-> FALSE, matches |-> i = 1, trusted |-> i > 1, quoted |-> i > 1,
        long |-> i = 2]]
MCScans == [recurse : BOOLEAN, since : BOOLEAN, constrained : BOOLEAN, limit : {0, 1}]
=============================================================================
