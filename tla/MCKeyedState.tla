------------------------------ MODULE MCKeyedState ------------------------------
(* Instances of KeyedState for TLC.                                          *)
EXTENDS KeyedState

AllDemos == {"CountFunction", "ValueStateDemo", "MapStateDemo", "SkeletonDemo"}
=============================================================================
