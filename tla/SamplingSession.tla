-------------------------- MODULE SamplingSession --------------------------
(***************************************************************************)
(* What the sampling driver promises its caller, without the peripherals:  *)
(* one session at a time, started only when none is active and no stop   *)
(* is in progress; a session moves Count words into the buffer; it ends    *)
(* either with the completion signal, after exactly Count words, or        *)
(* cancelled by a stop call, before the last word, without one.  A stop    *)
(* call does not exclude the completion: a session that has moved its last *)
(* word completes even while a stop is in progress.  Signals raised before *)
(* the caller has consumed the previous one merge into one.                *)
(***************************************************************************)
EXTENDS Naturals

CONSTANT Count   \* words a session moves into the buffer

VARIABLES
  active,  \* a session is running (Active) or not (Idle)
  filled,  \* words moved by the running session
  signal,  \* a completion signal waits for the caller
  stopping  \* the caller is inside a stop call

svars == <<active, filled, signal, stopping>>

Init ==
  /\ active = FALSE
  /\ filled = 0
  /\ signal = FALSE
  /\ stopping = FALSE

\* The caller starts a session; only from Idle.
Start ==
  /\ ~active
  /\ ~stopping
  /\ active' = TRUE
  /\ filled' = 0
  /\ UNCHANGED <<signal, stopping>>

\* The caller enters a stop call.
StopCall ==
  /\ ~stopping
  /\ stopping' = TRUE
  /\ UNCHANGED <<active, filled, signal>>

\* One word of the running session reaches the buffer.
Transfer ==
  /\ active
  /\ filled < Count
  /\ filled' = filled + 1
  /\ UNCHANGED <<active, signal, stopping>>

\* The session ends after its last word and raises the signal.
Complete ==
  /\ active
  /\ filled = Count
  /\ active' = FALSE
  /\ filled' = 0
  /\ signal' = TRUE
  /\ UNCHANGED stopping

\* The stop call cancels the session before its last word, without a
\* signal, and returns.
Cancel ==
  /\ stopping
  /\ active
  /\ filled < Count
  /\ active' = FALSE
  /\ filled' = 0
  /\ stopping' = FALSE
  /\ UNCHANGED signal

\* The stop call returns with no session to cancel.
StopReturn ==
  /\ stopping
  /\ ~active
  /\ stopping' = FALSE
  /\ UNCHANGED <<active, filled, signal>>

\* The caller takes the signal.
Consume ==
  /\ signal
  /\ signal' = FALSE
  /\ UNCHANGED <<active, filled, stopping>>

Next == Start \/ StopCall \/ Transfer \/ Complete \/ Cancel \/ StopReturn \/ Consume

SafeSpec == Init /\ [][Next]_svars

\* A running session makes progress until it completes or is cancelled.
Spec == SafeSpec /\ WF_svars(Transfer) /\ WF_svars(Complete)

=============================================================================
