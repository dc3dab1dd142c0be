------------------------ MODULE MCClosableRingBuffer ------------------------
(* Small instances of ClosableRingBuffer for TLC: the roles are sets of model  *)
(* values given in the configuration.                                          *)
EXTENDS ClosableRingBuffer
=============================================================================
