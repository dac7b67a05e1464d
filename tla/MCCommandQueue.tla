---------------------------- MODULE MCCommandQueue ----------------------------
(* CommandQueue with more calls than a channel holds, and two channels, so    *)
(* that one is torn down while commands are still in it and another follows.  *)
EXTENDS CommandQueue
=============================================================================
