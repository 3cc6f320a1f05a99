---------------------------- MODULE MCSendQueue ----------------------------
(***************************************************************************)
(* Instances of SendQueue for TLC: a pool of two buffers and a queue of    *)
(* three, one audio thread beside the tick and receive threads.            *)
(***************************************************************************)
EXTENDS SendQueue

OneAudio == {"audio"}
===========================================================================
