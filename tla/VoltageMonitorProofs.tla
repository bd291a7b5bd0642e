------------------------ MODULE VoltageMonitorProofs ------------------------
(***************************************************************************)
(* Proofs about VoltageMonitor for every value of the constants.           *)
(***************************************************************************)
EXTENDS VoltageMonitor, SequenceTheorems, TLAPS

\* The type invariant together with the transfer-count bound is inductive.
TypeInv == TypeOK /\ XferInv

LEMMA TypeInit == Init => TypeInv
  <1> SUFFICES ASSUME Init PROVE TypeInv
    OBVIOUS
  <1>1. buf \in [Slots -> Data]
    BY MaxSessionsAssumption DEF Init, Data
  <1>2. fifo \in Seq(Tags) /\ Len(fifo) <= FifoDepth
    BY FifoDepthAssumption DEF Init
  <1>3. xferLeft \in 0 .. XferTotal
    BY NumSamplesAssumption DEF Init, XferTotal, XferCnt
  <1>4. session \in Data /\ conv \in {NoConv} \cup Tags
    BY MaxSessionsAssumption DEF Init, Data, NoConv
  <1>5. QED
    BY <1>1, <1>2, <1>3, <1>4 DEF Init, TypeInv, TypeOK, XferInv, StopLocs

LEMMA TypeStep == TypeInv /\ [Next]_vars => TypeInv'
  <1> SUFFICES ASSUME TypeInv, [Next]_vars PROVE TypeInv'
    OBVIOUS
  <1> USE NumSamplesAssumption, FifoDepthAssumption, MaxSessionsAssumption
      DEF TypeInv, TypeOK, XferInv, Tags, Data, NoConv, Slots, StopLocs,
          XferTotal, XferCnt
  <1>1. CASE StartNext /\ UNCHANGED extSignal
    <2>1. session' \in Data
      BY <1>1 DEF StartNext, ArmSession, NextTag
    <2>2. powerTimer' \in BOOLEAN
      BY <1>1 DEF StartNext, ArmSession
    <2>3. fifo' \in Seq(Tags) /\ Len(fifo') <= FifoDepth
      BY <1>1 DEF StartNext, ArmSession
    <2>4. buf' \in [Slots -> Data] /\ conv' \in {NoConv} \cup Tags
      BY <1>1 DEF StartNext, ArmSession
    <2>5. xferLeft' \in 0 .. XferTotal /\ (ldmaOn' => xferLeft' \in 1 .. XferTotal)
      BY <1>1 DEF StartNext, ArmSession
    <2>7. ~ldmaIrq'
      BY <1>1 DEF StartNext, ArmSession, CpuFree
    <2>6. QED
      BY <1>1, <2>1, <2>2, <2>3, <2>4, <2>5, <2>7, Zenon DEF StartNext, ArmSession
  <1>2. CASE StopBegin
    BY <1>2 DEF StopBegin
  <1>3. CASE StopIadc
    BY <1>3 DEF StopIadc, StopSingle
  <1>4. CASE StopFlag
    BY <1>4 DEF StopFlag
  <1>5. CASE StopLdma
    BY <1>5 DEF StopLdma
  <1>6. CASE DeliverSignal
    <2>1. /\ UNCHANGED <<startedSampling, letimerOn, iadcOn, conv, fifo, ldmaOn,
                         xferLeft, buf, ldmaIrq, power, powerTimer, pc,
                         session, stopped, completed>>
          /\ extSignal' = FALSE
      BY <1>6, Zenon DEF DeliverSignal
    <2>2. /\ conv' \in {NoConv} \cup Tags /\ fifo' \in Seq(Tags)
          /\ Len(fifo') <= FifoDepth /\ xferLeft' \in 0 .. XferTotal
          /\ buf' \in [Slots -> Data] /\ session' \in Data
          /\ pc' \in {"idle"} \cup StopLocs
      BY <2>1
    <2>3. XferInv'
      BY <2>1
    <2>4. QED
      BY <2>1, <2>2, <2>3
  <1>7. CASE LdmaIrqHandler
    BY <1>7 DEF LdmaIrqHandler, StopSingle
  <1>8. CASE PowerTimerFire
    BY <1>8 DEF PowerTimerFire
  <1>9. CASE PowerTimerLost
    <2>1. /\ UNCHANGED <<startedSampling, letimerOn, iadcOn, conv, fifo, ldmaOn,
                         xferLeft, buf, ldmaIrq, extSignal, power, pc,
                         session, stopped, completed>>
          /\ powerTimer' = FALSE
      BY <1>9, Zenon DEF PowerTimerLost
    <2>2. /\ conv' \in {NoConv} \cup Tags /\ fifo' \in Seq(Tags)
          /\ Len(fifo') <= FifoDepth /\ xferLeft' \in 0 .. XferTotal
          /\ buf' \in [Slots -> Data] /\ session' \in Data
          /\ pc' \in {"idle"} \cup StopLocs
      BY <2>1
    <2>3. XferInv'
      BY <2>1
    <2>4. QED
      BY <2>1, <2>2, <2>3
  <1>10. CASE LetimerUnderflow
    BY <1>10 DEF LetimerUnderflow
  <1>11. CASE ConversionDone
    <2>1. conv \in Tags
      BY <1>11 DEF ConversionDone
    <2>2. fifo' \in Seq(Tags) /\ Len(fifo') <= FifoDepth
      <3>1. CASE Len(fifo) < FifoDepth
        BY <1>11, <2>1, <3>1, AppendProperties DEF ConversionDone
      <3>2. CASE ~(Len(fifo) < FifoDepth)
        BY <1>11, <3>2 DEF ConversionDone
      <3>3. QED
        BY <3>1, <3>2
    <2>3. QED
      BY <1>11, <2>2 DEF ConversionDone
  <1>12. CASE LdmaTransfer
    <2>1. Head(fifo) \in Tags /\ Tail(fifo) \in Seq(Tags)
          /\ Len(Tail(fifo)) <= FifoDepth
      BY <1>12, HeadTailProperties DEF LdmaTransfer
    <2>2. buf' \in [Slots -> Data]
      BY <1>12, <2>1 DEF LdmaTransfer
    <2>3. xferLeft \in 1 .. XferTotal
      BY <1>12 DEF LdmaTransfer
    <2>4. xferLeft' \in 0 .. XferTotal
      BY <1>12, <2>3 DEF LdmaTransfer
    <2>5. ldmaOn' => xferLeft > 1
      BY <1>12, Zenon DEF LdmaTransfer
    <2>6. ldmaOn' => xferLeft' \in 1 .. XferTotal
      BY <1>12, <2>3, <2>5 DEF LdmaTransfer
    <2>10. ldmaIrq' => xferLeft' = 0
      <3>1. ldmaIrq' => xferLeft = 1
        BY <1>12, Zenon DEF LdmaTransfer
      <3>2. QED
        BY <1>12, <3>1 DEF LdmaTransfer
    <2>7. ldmaOn' \in BOOLEAN /\ ldmaIrq' \in BOOLEAN
      BY <1>12 DEF LdmaTransfer
    <2>8. UNCHANGED <<startedSampling, letimerOn, iadcOn, conv, extSignal,
                      power, powerTimer, pc, session, stopped, completed>>
      BY <1>12 DEF LdmaTransfer
    <2>9. QED
      BY <1>12, <2>1, <2>2, <2>4, <2>6, <2>7, <2>8, <2>10 DEF LdmaTransfer
  <1>13. CASE UNCHANGED vars
    BY <1>13 DEF vars, drvVars
  <1>14. QED
    BY <1>1, <1>2, <1>3, <1>4, <1>5, <1>6, <1>7, <1>8, <1>9, <1>10, <1>11,
       <1>12, <1>13 DEF Next, MainStep, HardwareStep

(***************************************************************************)
(* Type correctness of the sampling pipeline.                              *)
(***************************************************************************)
THEOREM TypeCorrect == Spec => []TypeOK
  <1>1. Init => TypeInv
    BY TypeInit
  <1>2. TypeInv /\ [Next]_vars => TypeInv'
    BY TypeStep
  <1>3. TypeInv => TypeOK
    BY DEF TypeInv
  <1>. QED
    BY <1>1, <1>2, <1>3, PTL DEF Spec

-----------------------------------------------------------------------------
\* The control part of the inductive invariant.
CtlInv == TimerInv /\ IadcInv /\ LdmaInv /\ StopInv /\ IdleInv

LEMMA CtlInit == Init => CtlInv
  BY DEF Init, CtlInv, TimerInv, IadcInv, LdmaInv, StopInv, IdleInv, CpuFree

LEMMA CtlStep == TypeInv /\ CtlInv /\ [Next]_vars => CtlInv'
  <1> SUFFICES ASSUME TypeInv, CtlInv, [Next]_vars PROVE CtlInv'
    OBVIOUS
  <1> USE DEF CtlInv, TimerInv, IadcInv, LdmaInv, StopInv, IdleInv, CpuFree
  <1>0. /\ startedSampling \in BOOLEAN /\ letimerOn \in BOOLEAN
        /\ iadcOn \in BOOLEAN /\ ldmaOn \in BOOLEAN /\ ldmaIrq \in BOOLEAN
    BY DEF TypeInv, TypeOK
  <1>1. CASE StartNext /\ UNCHANGED extSignal
    BY <1>1 DEF StartNext, ArmSession
  <1>2. CASE StopBegin
    BY <1>2 DEF StopBegin
  <1>3. CASE StopIadc
    BY <1>3 DEF StopIadc, StopSingle
  <1>4. CASE StopFlag
    BY <1>4 DEF StopFlag
  <1>5. CASE StopLdma
    BY <1>0, <1>5 DEF StopLdma
  <1>6. CASE DeliverSignal
    BY <1>6 DEF DeliverSignal
  <1>7. CASE LdmaIrqHandler
    BY <1>0, <1>7 DEF LdmaIrqHandler, StopSingle
  <1>8. CASE PowerTimerFire
    BY <1>8 DEF PowerTimerFire
  <1>9. CASE PowerTimerLost
    BY <1>9 DEF PowerTimerLost
  <1>10. CASE LetimerUnderflow
    BY <1>10 DEF LetimerUnderflow
  <1>11. CASE ConversionDone
    BY <1>11 DEF ConversionDone
  <1>12. CASE LdmaTransfer
    <2>1. xferLeft \in 1 .. XferTotal /\ ~ldmaIrq
      BY <1>12 DEF LdmaTransfer, TypeInv, XferInv
    <2>2. pc # "stop_ldma" => startedSampling
      BY <1>12, <2>1 DEF LdmaTransfer
    <2>3. ldmaOn' = (xferLeft > 1) /\ ldmaIrq' = (xferLeft = 1)
      BY <1>12 DEF LdmaTransfer
    <2>4. CASE xferLeft = 1
      <3>1. ~(xferLeft > 1) /\ xferLeft = 1
        BY <2>4
      <3>2. ldmaIrq' /\ ~ldmaOn'
        BY <2>3, <3>1, Zenon
      <3>3. QED
        BY <1>12, <3>2 DEF LdmaTransfer
    <2>5. CASE xferLeft # 1
      <3>1. xferLeft > 1
        BY <2>1, <2>5, NumSamplesAssumption
      <3>2. ~ldmaIrq' /\ ldmaOn'
        BY <2>3, <2>5, <3>1, Zenon
      <3>3. QED
        BY <1>12, <2>1, <2>2, <3>2 DEF LdmaTransfer
    <2>6. QED
      BY <2>4, <2>5
  <1>13. CASE UNCHANGED vars
    BY <1>13 DEF vars, drvVars
  <1>14. QED
    BY <1>1, <1>2, <1>3, <1>4, <1>5, <1>6, <1>7, <1>8, <1>9, <1>10, <1>11,
       <1>12, <1>13 DEF Next, MainStep, HardwareStep

\* The whole inductive invariant holds in every reachable state.
LEMMA InvHolds == Spec => [](TypeInv /\ CtlInv)
  <1>1. Init => TypeInv /\ CtlInv
    BY TypeInit, CtlInit
  <1>2. TypeInv /\ CtlInv /\ [Next]_vars => (TypeInv /\ CtlInv)'
    BY TypeStep, CtlStep
  <1>. QED
    BY <1>1, <1>2, PTL DEF Spec

(***************************************************************************)
(* Between driver calls, startedSampling agrees with LETIMER0, the IADC    *)
(* queue and the LDMA channel, whatever NUM_OF_SAMPLES, the FIFO depth and *)
(* the interleaving of stop(), the done interrupt and the transfers.       *)
(***************************************************************************)
THEOREM FlagMatchesHardwareHolds == Spec => []FlagMatchesHardware
  <1>1. Spec => [](TypeInv /\ CtlInv)
    BY InvHolds
  <1>2. TypeInv /\ CtlInv => FlagMatchesHardware
    BY DEF CtlInv, TimerInv, IadcInv, LdmaInv, IdleInv, CpuFree,
           FlagMatchesHardware
  <1>. QED
    BY <1>1, <1>2, PTL


\* No step fills the FIFO under a conversion in progress: a pulse starts a
\* conversion only with LETIMER0 running, hence with the flag set and the
\* LDMA draining, hence with the FIFO empty.
LEMMA FifoStep ==
  TypeInv /\ CtlInv /\ NoSampleDropped /\ [Next]_vars => NoSampleDropped'
  <1> SUFFICES ASSUME TypeInv, CtlInv, NoSampleDropped, [Next]_vars
               PROVE  NoSampleDropped'
    OBVIOUS
  <1> USE FifoDepthAssumption DEF NoSampleDropped
  <1>1. CASE LetimerUnderflow
    <2>1. ldmaOn
      BY <1>1 DEF LetimerUnderflow, CtlInv, TimerInv, LdmaInv, CpuFree
    <2>2. fifo' = <<>>
      BY <1>1, <2>1 DEF LetimerUnderflow
    <2>. QED
      BY <2>2
  <1>2. CASE ConversionDone
    BY <1>2 DEF ConversionDone
  <1>3. CASE LdmaTransfer
    <2>1. fifo \in Seq(Tags) /\ fifo # <<>>
      BY <1>3 DEF LdmaTransfer, TypeInv, TypeOK
    <2>2. Len(fifo') = Len(fifo) - 1
      BY <1>3, <2>1, HeadTailProperties DEF LdmaTransfer
    <2>. QED
      BY <1>3, <2>2 DEF LdmaTransfer
  <1>4. CASE StopIadc \/ LdmaIrqHandler
    BY <1>4 DEF StopIadc, LdmaIrqHandler, StopSingle
  <1>5. CASE \/ StartNext /\ UNCHANGED extSignal
             \/ StopBegin \/ StopFlag \/ StopLdma \/ DeliverSignal
             \/ PowerTimerFire \/ PowerTimerLost
    BY <1>5 DEF StartNext, ArmSession, StopBegin, StopFlag, StopLdma,
       DeliverSignal, PowerTimerFire, PowerTimerLost
  <1>6. CASE UNCHANGED vars
    BY <1>6 DEF vars, drvVars
  <1>7. QED
    BY <1>1, <1>2, <1>3, <1>4, <1>5, <1>6 DEF Next, MainStep, HardwareStep

(***************************************************************************)
(* No conversion result is dropped at a full FIFO, for every FIFO depth:   *)
(* both stop paths disable LETIMER0 before the LDMA stops draining, and     *)
(* start_next arms the LDMA with the LETIMER.                              *)
(***************************************************************************)
THEOREM NoSampleDroppedHolds == Spec => []NoSampleDropped
  <1>1. Init => TypeInv /\ CtlInv /\ NoSampleDropped
    BY TypeInit, CtlInit DEF Init, NoSampleDropped, NoConv
  <1>2. TypeInv /\ CtlInv /\ NoSampleDropped /\ [Next]_vars
          => (TypeInv /\ CtlInv /\ NoSampleDropped)'
    BY TypeStep, CtlStep, FifoStep
  <1>3. Spec => [](TypeInv /\ CtlInv /\ NoSampleDropped)
    BY <1>1, <1>2, PTL DEF Spec
  <1>. QED
    BY <1>3, PTL

=============================================================================
