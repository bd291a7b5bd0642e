-------------------------- MODULE MCVoltageMonitor --------------------------
(* Small instance of VoltageMonitor for TLC.  Three samples are more than   *)
(* a FIFO of two plus one conversion in flight can complete on their own,   *)
(* as NUM_OF_SAMPLES (128) is more than the real FIFO (4); three tags keep  *)
(* the current, the previous and the zero-initialised data apart.          *)
EXTENDS VoltageMonitor

MCNumSamples == 3
MCFifoDepth == 2
MCMaxSessions == 3
=============================================================================
