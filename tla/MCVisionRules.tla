---------------------------- MODULE MCVisionRules ----------------------------
(* Two active versions of one vision rule, watching one subject.           *)
EXTENDS VisionRules

MCPlaces == {{}, {"z1"}}
MCSharedRule == {[rule |-> "r", version |-> 1], [rule |-> "r", version |-> 2]}
==============================================================================
