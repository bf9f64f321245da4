---------------------------- MODULE MCReassembly ----------------------------
(* Reassembly with two message ids, so that the third message reuses the    *)
(* first one's id.  Nothing tells the payload types apart but equality.     *)
EXTENDS Reassembly, TLC

CONSTANTS Rpc, Stream
Symmetry == Permutations({Rpc, Stream})
=============================================================================
