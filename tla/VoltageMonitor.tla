--------------------------- MODULE VoltageMonitor ---------------------------
(***************************************************************************)
(* The autonomous sampling pipeline of le_voltage_monitor.c: LETIMER0      *)
(* underflow pulses routed by PRS to the IADC single-conversion trigger,   *)
(* the IADC single FIFO drained by LDMA channel 0 into samplingBuffer, the *)
(* LDMA done interrupt, the startedSampling flag, and the sensor power     *)
(* GPIO with its one-shot sleeptimer.                                      *)
(*                                                                         *)
(* Two execution contexts share the driver state: the main context (the    *)
(* BLE event loop calling le_voltage_monitor_start_next and                *)
(* le_voltage_monitor_stop) and the LDMA_IRQHandler, which preempts the    *)
(* main context between any two of its statements.  The peripherals run   *)
(* on their own.  start_next is one step (no interrupt can fire inside it, *)
(* see README); stop is four steps, one per statement, because the LDMA    *)
(* done interrupt can preempt it.                                          *)
(*                                                                         *)
(* Data is abstracted to provenance: a sample is the number (tag) of the   *)
(* session during which its conversion was triggered; 0 is the zero the    *)
(* static buffer starts with.  Tags are reused cyclically.                 *)
(***************************************************************************)
EXTENDS Naturals, Sequences

CONSTANTS
  NumSamples,   \* NUM_OF_SAMPLES: buffer length, written into the XFERCNT field
  FifoDepth,    \* entries of the IADC single FIFO
  MaxSessions   \* number of distinct session tags (tags are reused)

ASSUME NumSamplesAssumption == NumSamples \in Nat \ {0}
ASSUME FifoDepthAssumption == FifoDepth \in Nat \ {0}
ASSUME MaxSessionsAssumption == MaxSessions \in Nat \ {0}

VARIABLES
  startedSampling, \* the driver's static flag
  letimerOn,       \* LETIMER0 enabled
  iadcOn,          \* IADC single queue started (iadcCmdStartSingle)
  conv,            \* tag of the conversion in progress, 0 if none
  fifo,            \* IADC single FIFO, oldest result first
  ldmaOn,          \* LDMA channel 0 running
  xferLeft,        \* transfers the running descriptor still has to do
  buf,             \* samplingBuffer
  ldmaIrq,         \* LDMA done interrupt pending
  extSignal,       \* LE_MONITOR_SIGNAL posted to the BLE stack, not yet delivered
  power,           \* level of the sensor power pin (PC1)
  powerTimer,      \* the one-shot sleeptimer of start_Sensor_power_timer is armed
  pc,              \* where the main context is inside le_voltage_monitor_stop
  session,         \* tag of the latest session (history)
  stopped,         \* stop() was called while the current session was active (history)
  completed        \* the current session's done interrupt has run (history)

\* Everything but the signal the BLE stack holds for the application.
drvVars == <<startedSampling, letimerOn, iadcOn, conv, fifo, ldmaOn, xferLeft,
             buf, ldmaIrq, power, powerTimer, pc, session, stopped, completed>>
vars == <<drvVars, extSignal>>

Tags == 1 .. MaxSessions
Data == 0 .. MaxSessions
NoConv == 0
Slots == 1 .. NumSamples

\* Main-context program locations: idle, or before the named statement of
\* le_voltage_monitor_stop.
StopLocs == {"stop_iadc", "stop_flag", "stop_ldma"}

\* The LDMA interrupt, when pending, runs before the next main-context
\* statement.
CpuFree == pc = "idle" /\ ~ldmaIrq

\* IADC_command(IADC0, iadcCmdStopSingle): the queue stops; a conversion
\* already in progress is either abandoned or still delivers its result.
StopSingle ==
  /\ iadcOn' = FALSE
  /\ conv' \in {NoConv, conv}

NextTag == (session % MaxSessions) + 1

\* init_ldma overwrites the XFERCNT field of the descriptor with
\* NUM_OF_SAMPLES; the field counts word transfers minus one (the
\* LDMA_DESCRIPTOR_LINKREL_P2M_WORD macro stores count - 1), so the channel
\* performs XferCnt + 1 transfers per start.
XferCnt == NumSamples
XferTotal == XferCnt + 1

\* The slot of samplingBuffer the channel writes next (DSTADDR advances one
\* word per transfer).
DmaDest == XferTotal - xferLeft + 1

-----------------------------------------------------------------------------
(***************************************************************************)
(* le_voltage_monitor_init: nothing runs, the pin is low, the buffer is    *)
(* the zero-initialised static array.                                      *)
(***************************************************************************)
Init ==
  /\ startedSampling = FALSE
  /\ letimerOn = FALSE
  /\ iadcOn = FALSE
  /\ conv = NoConv
  /\ fifo = <<>>
  /\ ldmaOn = FALSE
  /\ xferLeft = 0
  /\ buf = [i \in Slots |-> 0]
  /\ ldmaIrq = FALSE
  /\ extSignal = FALSE
  /\ power = FALSE
  /\ powerTimer = FALSE
  /\ pc = "idle"
  /\ session = 0
  /\ stopped = FALSE
  /\ completed = FALSE

(***************************************************************************)
(* Main context.                                                           *)
(***************************************************************************)

\* The body of le_voltage_monitor_start_next once its guard has passed:
\* start the IADC single queue, enable LETIMER0, load the descriptor into
\* LDMA channel 0 (count transfers), raise the power pin and try to arm the
\* one-shot timer (its status is ignored: ok = FALSE is a failed
\* sl_sleeptimer_start_timer), set the flag.  extSignal is left to the
\* caller's frame.
ArmSession(count) ==
  /\ iadcOn' = TRUE
  /\ letimerOn' = TRUE
  /\ ldmaOn' = TRUE
  /\ xferLeft' = count
  /\ power' = TRUE
  /\ \E ok \in BOOLEAN : powerTimer' = ok
  /\ startedSampling' = TRUE
  /\ session' = NextTag
  /\ stopped' = FALSE
  /\ completed' = FALSE
  /\ UNCHANGED <<conv, fifo, buf, ldmaIrq, pc>>

\* Mutants of StartNext: the guard on startedSampling dropped; a descriptor
\* count one too large.
StartNextUnguarded == CpuFree /\ ~powerTimer /\ ArmSession(XferTotal)
StartNextCountOffByOne ==
  CpuFree /\ ~startedSampling /\ ~powerTimer /\ ArmSession(XferTotal + 1)
\* Mutant of StartNext: LETIMER_Enable(LETIMER0, true) left out.
StartNextNoTimer ==
  /\ CpuFree /\ ~startedSampling /\ ~powerTimer
  /\ iadcOn' = TRUE /\ ldmaOn' = TRUE /\ xferLeft' = XferTotal
  /\ power' = TRUE /\ powerTimer' \in BOOLEAN /\ startedSampling' = TRUE
  /\ session' = NextTag /\ stopped' = FALSE /\ completed' = FALSE
  /\ UNCHANGED <<letimerOn, conv, fifo, buf, ldmaIrq, pc>>

\* le_voltage_monitor_start_next.  When startedSampling is set the call does
\* nothing (a stuttering step).  The previous power timer has always expired
\* by the time a new call arrives (5 ticks against a BLE connection
\* interval), hence the conjunct on powerTimer.
StartNext ==
  /\ CpuFree
  /\ ~startedSampling
  /\ ~powerTimer
  /\ ArmSession(XferTotal)

\* le_voltage_monitor_stop, first statement: LETIMER_Enable(LETIMER0, false).
\* The power pin is not touched (the GPIO_PinOutClear is commented out).
StopBegin ==
  /\ CpuFree
  /\ letimerOn' = FALSE
  /\ pc' = "stop_iadc"
  /\ stopped' = (stopped \/ startedSampling)
  /\ UNCHANGED <<startedSampling, iadcOn, conv, fifo, ldmaOn, xferLeft, buf,
                 ldmaIrq, extSignal, power, powerTimer, session, completed>>

\* IADC_command(IADC0, iadcCmdStopSingle)
StopIadc ==
  /\ pc = "stop_iadc" /\ ~ldmaIrq
  /\ StopSingle
  /\ pc' = "stop_flag"
  /\ UNCHANGED <<startedSampling, letimerOn, fifo, ldmaOn, xferLeft, buf,
                 ldmaIrq, extSignal, power, powerTimer, session, stopped,
                 completed>>

\* startedSampling = false
StopFlag ==
  /\ pc = "stop_flag" /\ ~ldmaIrq
  /\ startedSampling' = FALSE
  /\ pc' = "stop_ldma"
  /\ UNCHANGED <<letimerOn, iadcOn, conv, fifo, ldmaOn, xferLeft, buf,
                 ldmaIrq, extSignal, power, powerTimer, session, stopped,
                 completed>>

\* LDMA_StopTransfer(LDMA_CHANNEL)
StopLdma ==
  /\ pc = "stop_ldma" /\ ~ldmaIrq
  /\ ldmaOn' = FALSE
  /\ pc' = "idle"
  /\ UNCHANGED <<startedSampling, letimerOn, iadcOn, conv, fifo, xferLeft,
                 buf, ldmaIrq, extSignal, power, powerTimer, session, stopped,
                 completed>>

\* The BLE stack delivers sl_bt_evt_system_external_signal to the peer.
\* Signals posted before delivery are OR-ed into one event.
DeliverSignal ==
  /\ CpuFree
  /\ extSignal
  /\ extSignal' = FALSE
  /\ UNCHANGED <<startedSampling, letimerOn, iadcOn, conv, fifo, ldmaOn,
                 xferLeft, buf, ldmaIrq, power, powerTimer, pc, session,
                 stopped, completed>>

(***************************************************************************)
(* Interrupt context.                                                      *)
(***************************************************************************)

\* Mutants of LdmaIrqHandler: LETIMER_Enable(LETIMER0, false) dropped;
\* startedSampling = false dropped.
LdmaIrqHandlerKeepsTimer ==
  /\ ldmaIrq
  /\ ldmaIrq' = FALSE
  /\ StopSingle
  /\ extSignal' = TRUE
  /\ startedSampling' = FALSE
  /\ completed' = TRUE
  /\ UNCHANGED <<letimerOn, fifo, ldmaOn, xferLeft, buf, power, powerTimer,
                 pc, session, stopped>>
LdmaIrqHandlerKeepsFlag ==
  /\ ldmaIrq
  /\ ldmaIrq' = FALSE
  /\ letimerOn' = FALSE
  /\ StopSingle
  /\ extSignal' = TRUE
  /\ completed' = TRUE
  /\ UNCHANGED <<startedSampling, fifo, ldmaOn, xferLeft, buf, power,
                 powerTimer, pc, session, stopped>>

\* Mutant of LdmaIrqHandler: only the signal and the flag, neither LETIMER0
\* nor the IADC queue stopped.
LdmaIrqHandlerOnlySignal ==
  /\ ldmaIrq
  /\ ldmaIrq' = FALSE
  /\ extSignal' = TRUE
  /\ startedSampling' = FALSE
  /\ completed' = TRUE
  /\ UNCHANGED <<letimerOn, iadcOn, conv, fifo, ldmaOn, xferLeft, buf, power,
                 powerTimer, pc, session, stopped>>

\* LDMA_IRQHandler: clear the flags, stop LETIMER0, stop the IADC queue,
\* post LE_MONITOR_SIGNAL, clear startedSampling.  It runs to completion.
LdmaIrqHandler ==
  /\ ldmaIrq
  /\ ldmaIrq' = FALSE
  /\ letimerOn' = FALSE
  /\ StopSingle
  /\ extSignal' = TRUE
  /\ startedSampling' = FALSE
  /\ completed' = TRUE
  /\ UNCHANGED <<fifo, ldmaOn, xferLeft, buf, power, powerTimer, pc, session,
                 stopped>>

\* my_timer_callback: the sleeptimer expires and clears the power pin.
PowerTimerFire ==
  /\ powerTimer
  /\ powerTimer' = FALSE
  /\ power' = FALSE
  /\ UNCHANGED <<startedSampling, letimerOn, iadcOn, conv, fifo, ldmaOn,
                 xferLeft, buf, ldmaIrq, extSignal, pc, session, stopped,
                 completed>>

\* The timer handle of start_Sensor_power_timer is a local variable: the
\* sleeptimer keeps a pointer to it after the function has returned, and the
\* stack slot is reused.  One outcome of this undefined behaviour is that
\* the callback never runs.
PowerTimerLost ==
  /\ powerTimer
  /\ powerTimer' = FALSE
  /\ UNCHANGED <<startedSampling, letimerOn, iadcOn, conv, fifo, ldmaOn,
                 xferLeft, buf, ldmaIrq, extSignal, power, pc, session,
                 stopped, completed>>

(***************************************************************************)
(* Peripherals, as configured by init_letimer, init_prs, init_iadc and     *)
(* init_ldma.  A pulse every 1/SAMPLING_FREQ_HZ s is slow against the CPU  *)
(* and a 10 us conversion: no pulse comes while the CPU is inside a driver *)
(* call or an interrupt is pending, while a conversion is in progress, or  *)
(* before a running LDMA channel has drained the FIFO.                     *)
(***************************************************************************)

\* LETIMER0 underflow, routed by PRS channel 1 to the IADC single trigger
\* (iadcTriggerActionOnce): one conversion of the current session starts.
LetimerUnderflow ==
  /\ letimerOn
  /\ CpuFree
  /\ conv = NoConv
  /\ ldmaOn => fifo = <<>>
  /\ iadcOn
  /\ conv' = session
  /\ UNCHANGED <<startedSampling, letimerOn, iadcOn, fifo, ldmaOn, xferLeft,
                 buf, ldmaIrq, extSignal, power, powerTimer, pc, session,
                 stopped, completed>>

\* The conversion ends; its result enters the single FIFO, or is dropped
\* when the FIFO is full.
ConversionDone ==
  /\ conv # NoConv
  /\ conv' = NoConv
  /\ fifo' = IF Len(fifo) < FifoDepth THEN Append(fifo, conv) ELSE fifo
  /\ UNCHANGED <<startedSampling, letimerOn, iadcOn, ldmaOn, xferLeft, buf,
                 ldmaIrq, extSignal, power, powerTimer, pc, session, stopped,
                 completed>>

\* fifoDmaWakeup with dataValidLevel 1: one word moves from SINGLEFIFODATA
\* to the next word of samplingBuffer; a write past its end lands in
\* memory the model does not hold.  After the last one the channel is done
\* and, doneIfs being set, the done interrupt is raised.
LdmaTransfer ==
  /\ ldmaOn
  /\ fifo # <<>>
  /\ buf' = IF DmaDest \in Slots THEN [buf EXCEPT ![DmaDest] = Head(fifo)]
                                 ELSE buf
  /\ fifo' = Tail(fifo)
  /\ xferLeft' = xferLeft - 1
  /\ ldmaOn' = (xferLeft > 1)
  /\ ldmaIrq' = (xferLeft = 1)
  /\ UNCHANGED <<startedSampling, letimerOn, iadcOn, conv, extSignal, power,
                 powerTimer, pc, session, stopped, completed>>

-----------------------------------------------------------------------------
\* The peer (the BLE application) may call start_next or stop, or take the
\* signal, whenever the main context is free; the hardware and the
\* interrupt handlers run on their own.
MainStep == (StartNext /\ UNCHANGED extSignal) \/ StopBegin \/ StopIadc \/ StopFlag \/ StopLdma

HardwareStep ==
  \/ LdmaIrqHandler \/ PowerTimerFire \/ PowerTimerLost
  \/ LetimerUnderflow \/ ConversionDone \/ LdmaTransfer

Next == MainStep \/ DeliverSignal \/ HardwareStep

\* The peripherals, the interrupt handlers and a started stop() make
\* progress; the peer is under no obligation to call anything.
Fairness ==
  /\ WF_vars(LetimerUnderflow)
  /\ WF_vars(ConversionDone)
  /\ WF_vars(LdmaTransfer)
  /\ WF_vars(LdmaIrqHandler)
  /\ WF_vars(PowerTimerFire \/ PowerTimerLost)
  /\ WF_vars(StopIadc \/ StopFlag \/ StopLdma)

Spec == Init /\ [][Next]_vars /\ Fairness

-----------------------------------------------------------------------------
(***************************************************************************)
(* The refinement mapping to SamplingSession.  A session is Active while   *)
(* the LDMA channel is running or its done interrupt is pending: that is   *)
(* when a completion signal can still come, whatever startedSampling says. *)
(* The words it has moved are the transfers done of the XferTotal loaded; *)
(* the caller is inside stop() when the main context is.                   *)
(***************************************************************************)
sessionActive == ldmaOn \/ ldmaIrq
sessionFilled == IF sessionActive THEN XferTotal - xferLeft ELSE 0

Session == INSTANCE SamplingSession
             WITH Count <- XferTotal, active <- sessionActive,
                  filled <- sessionFilled, signal <- extSignal,
                  stopping <- pc # "idle"

-----------------------------------------------------------------------------
TypeOK ==
  /\ startedSampling \in BOOLEAN
  /\ letimerOn \in BOOLEAN
  /\ iadcOn \in BOOLEAN
  /\ conv \in {NoConv} \cup Tags
  /\ fifo \in Seq(Tags)
  /\ Len(fifo) <= FifoDepth
  /\ ldmaOn \in BOOLEAN
  /\ xferLeft \in 0 .. XferTotal
  /\ buf \in [Slots -> Data]
  /\ ldmaIrq \in BOOLEAN
  /\ extSignal \in BOOLEAN
  /\ power \in BOOLEAN
  /\ powerTimer \in BOOLEAN
  /\ pc \in {"idle"} \cup StopLocs
  /\ session \in Data
  /\ stopped \in BOOLEAN
  /\ completed \in BOOLEAN

\* A running LDMA channel always has a transfer left to do; a pending done
\* interrupt comes from a channel that has done them all.
XferInv ==
  /\ ldmaOn => xferLeft \in 1 .. XferTotal
  /\ ldmaIrq => xferLeft = 0

\* The FIFO holds at most one result, and none while a conversion is in
\* progress: a pulse needs a drained FIFO, and a running LDMA drains it.
FifoInv ==
  /\ Len(fifo) <= 1
  /\ conv # NoConv => fifo = <<>>

\* Where the samples of the running session come from: once its first word
\* is taken, the FIFO and the conversion in progress are its own, and so are
\* the slots after the first that it has written; a completed session's
\* buffer keeps them until the next start.
ProvInv ==
  /\ ldmaOn /\ xferLeft < XferTotal =>
       /\ \A k \in 1 .. Len(fifo) : fifo[k] = session
       /\ conv \in {NoConv, session}
  /\ ldmaOn \/ ldmaIrq => \A i \in Slots : 1 < i /\ i < DmaDest => buf[i] = session
  /\ completed => ~ldmaOn /\ ~ldmaIrq

(***************************************************************************)
(* The inductive strengthening of FlagMatchesHardware: what each main-     *)
(* context location of stop(), and a pending done interrupt, tell about    *)
(* the hardware.                                                           *)
(***************************************************************************)
TimerInv == letimerOn => startedSampling /\ pc = "idle"
IadcInv ==
  /\ pc \in {"idle", "stop_iadc"} => iadcOn = startedSampling
  /\ pc \in {"stop_flag", "stop_ldma"} => ~iadcOn
LdmaInv ==
  /\ ~ldmaIrq /\ pc # "stop_ldma" => ldmaOn = startedSampling
  /\ ldmaIrq => ~ldmaOn
StopInv == pc = "stop_ldma" => ~startedSampling
IdleInv == CpuFree => letimerOn = startedSampling

IInv == TypeOK /\ XferInv /\ TimerInv /\ IadcInv /\ LdmaInv /\ StopInv /\ IdleInv

-----------------------------------------------------------------------------
(***************************************************************************)
(* Whenever the CPU is between driver calls, startedSampling tells the     *)
(* truth about the hardware: LETIMER0, the IADC queue and the LDMA channel *)
(* all run exactly when the flag is set.  A flag set over stopped hardware *)
(* would turn every later start_next into a no-op (sampling dead); a flag  *)
(* clear over running hardware would let start_next re-arm the LDMA under  *)
(* a running session.  Involves start_next, stop, the done interrupt and   *)
(* the last LDMA transfer.                                                 *)
(***************************************************************************)
FlagMatchesHardware ==
  CpuFree => /\ letimerOn = startedSampling
             /\ iadcOn = startedSampling
             /\ ldmaOn = startedSampling

(***************************************************************************)
(* Idempotent start (spec 8): once the LDMA channel has moved a sample of  *)
(* a session, no step re-arms the channel, so the session's samples are    *)
(* never overwritten from slot 1 by a second start_next.                   *)
(***************************************************************************)
NoRearmMidTransfer ==
  [][ldmaOn /\ xferLeft < XferTotal => xferLeft' <= xferLeft]_vars

(***************************************************************************)
(* Every started session ends: the done interrupt or stop() eventually     *)
(* clears startedSampling, under fairness of the peripherals and the ISR.  *)
(***************************************************************************)
SessionTerminates == startedSampling ~> ~startedSampling

(***************************************************************************)
(* No conversion result is lost to a full FIFO: whenever a conversion is   *)
(* in progress, the IADC single FIFO has room for its result.  It rests on *)
(* the order of the stop paths (stop() and LDMA_IRQHandler both disable    *)
(* LETIMER0 before the LDMA can stop draining), on start_next arming the   *)
(* LDMA together with the LETIMER, and on the timing of the pulses.        *)
(***************************************************************************)
NoSampleDropped == conv # NoConv => Len(fifo) < FifoDepth

(***************************************************************************)
(* Spec 8, "Stop cancels active session": once stop() has been called on  *)
(* an active session, that session never raises its completion signal      *)
(* (LDMA_IRQHandler never runs for it).                                    *)
(***************************************************************************)
StopPreventsCompletion == ~(stopped /\ completed)

(***************************************************************************)
(* Spec 3 and 8: when the done interrupt is pending, samplingBuffer holds  *)
(* NUM_OF_SAMPLES samples all converted during the session that just       *)
(* completed; nothing of an earlier session is left in it.                 *)
(***************************************************************************)
BufferHoldsOneSession ==
  ldmaIrq => \A i \in Slots : buf[i] = session

(***************************************************************************)
(* What BufferHoldsOneSession still gets: a foreign sample can only be in  *)
(* slot 1.  When a session completes, every slot after the first holds a   *)
(* sample of that session, until the next start_next.  The one sample a    *)
(* stop() can leave behind (in the FIFO or still converting) is taken by   *)
(* the next session's first transfer; every later one comes from that      *)
(* session's own pulses, because a pulse needs a drained FIFO.             *)
(***************************************************************************)
StaleSampleOnlyInFirstSlot ==
  ldmaIrq \/ completed => \A i \in Slots : i > 1 => buf[i] = session

(***************************************************************************)
(* Spec 8, "Power window bounded": after start_next raises the sensor      *)
(* power pin, the sleeptimer callback eventually lowers it.                *)
(***************************************************************************)
PowerEventuallyLow == power ~> ~power

(***************************************************************************)
(* Spec 4.2 and 4.3 as one abstract machine: start_next arms the channel   *)
(* only when no session can still complete; every done interrupt, and so   *)
(* every LE_MONITOR_SIGNAL, follows exactly the descriptor's transfers of  *)
(* one session; stop() can end a session only before its last transfer.   *)
(* Involves start_next, all four steps of stop(), the transfers and the    *)
(* ISR.                                                                    *)
(***************************************************************************)
SessionSafety == Session!SafeSpec

(***************************************************************************)
(* The same, with progress: a running session keeps moving words until it  *)
(* completes or is cancelled, under the fairness of the peripherals, the   *)
(* ISR and a started stop().                                               *)
(***************************************************************************)
SessionRefinement == Session!Spec

(***************************************************************************)
(* Spec 3 and 4.1: the transfer engine is configured with destination      *)
(* samplingBuffer and count NUM_OF_SAMPLES, so every word the running LDMA *)
(* channel writes lands inside samplingBuffer.                             *)
(***************************************************************************)
DmaWritesInBuffer == ldmaOn => DmaDest \in Slots

=============================================================================
