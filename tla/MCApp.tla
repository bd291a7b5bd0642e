------------------------------- MODULE MCApp -------------------------------
(* Small instance of App for TLC, with the bounds of MCVoltageMonitor.     *)
EXTENDS App

MCNumSamples == 3
MCFifoDepth == 2
MCMaxSessions == 3
=============================================================================
