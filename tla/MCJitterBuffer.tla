-------------------------- MODULE MCJitterBuffer --------------------------
(***************************************************************************)
(* Instances of JitterBuffer for TLC.  Timestamps are a millisecond scale  *)
(* of two milliseconds a frame; the counters of the code (20 losses, 16    *)
(* late frames, 50 slots) are scaled down so that resets, resyncs and      *)
(* evictions happen within a few frames.                                   *)
(***************************************************************************)
EXTENDS JitterBuffer

FramesAndCopies(frames, copies) ==
    [ts : frames, isEC : {FALSE}] \cup [ts : copies, isEC : {TRUE}]
Four == FramesAndCopies({0, 2, 4, 6}, {2})
TwoCounts == {1, 2}
AllDrifts == {-60, -20, 0, 20}
===========================================================================
