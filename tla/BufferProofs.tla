----------------------------- MODULE BufferProofs -----------------------------
(***************************************************************************)
(* Where the samples in samplingBuffer come from, for every value of the   *)
(* constants.  The FIFO never holds more than one result, so a stop() can  *)
(* leave at most one sample behind, and the next session's first transfer  *)
(* takes it: a completed buffer is that session's own after slot 1.        *)
(***************************************************************************)
EXTENDS VoltageMonitorProofs

\* The strengthening of StaleSampleOnlyInFirstSlot, on top of the driver's.
DataInv == FifoInv /\ ProvInv /\ StaleSampleOnlyInFirstSlot

LEMMA DataInit == Init => DataInv
  BY DEF Init, DataInv, FifoInv, ProvInv, StaleSampleOnlyInFirstSlot, NoConv

\* A pending done interrupt means the channel has written every slot.
LEMMA DoneMeansAllWritten ==
  ASSUME TypeInv, ldmaIrq
  PROVE  \A i \in Slots : i < DmaDest
  BY NumSamplesAssumption DEF TypeInv, XferInv, DmaDest, XferTotal, XferCnt,
     Slots

LEMMA DataStep == TypeInv /\ CtlInv /\ DataInv /\ [Next]_vars => DataInv'
  <1> SUFFICES ASSUME TypeInv, CtlInv, FifoInv, ProvInv,
                      StaleSampleOnlyInFirstSlot, [Next]_vars
               PROVE  DataInv'
    BY DEF DataInv
  <1>0. TypeInv'
    BY TypeStep
  <1> USE NumSamplesAssumption, FifoDepthAssumption
      DEF DataInv, FifoInv, ProvInv, StaleSampleOnlyInFirstSlot, NoConv, Slots,
          XferTotal, XferCnt
  <1>1. CASE StartNext /\ UNCHANGED extSignal
    <2>1. /\ UNCHANGED <<fifo, conv>>
          /\ ldmaOn' /\ ~ldmaIrq' /\ ~completed'
          /\ xferLeft' = XferTotal
      BY <1>1 DEF StartNext, ArmSession, CpuFree
    <2>2. DmaDest' = 1
      BY <2>1 DEF DmaDest, XferTotal, XferCnt
    <2>. QED
      BY <2>1, <2>2
  <1>2. CASE \/ StopBegin \/ StopFlag \/ DeliverSignal
             \/ PowerTimerFire \/ PowerTimerLost \/ UNCHANGED vars
    <2>1. UNCHANGED <<fifo, conv, ldmaOn, ldmaIrq, xferLeft, buf, session,
                      completed>>
      BY <1>2, Zenon DEF StopBegin, StopFlag, DeliverSignal, PowerTimerFire,
         PowerTimerLost, vars, drvVars
    <2>. QED
      BY <2>1 DEF DmaDest
  <1>3. CASE StopIadc
    <2>1. /\ UNCHANGED <<fifo, ldmaOn, ldmaIrq, xferLeft, buf, session,
                         completed>>
          /\ conv' \in {NoConv, conv}
      BY <1>3 DEF StopIadc, StopSingle
    <2>. QED
      BY <2>1 DEF DmaDest
  <1>4. CASE StopLdma
    <2>1. /\ UNCHANGED <<fifo, conv, ldmaIrq, xferLeft, buf, session,
                         completed>>
          /\ ~ldmaOn' /\ ~ldmaIrq
      BY <1>4 DEF StopLdma
    <2>. QED
      BY <2>1
  <1>5. CASE LdmaIrqHandler
    <2>1. ~ldmaOn
      BY <1>5 DEF LdmaIrqHandler, CtlInv, LdmaInv
    <2>2. /\ UNCHANGED <<fifo, ldmaOn, buf, session>>
          /\ ~ldmaIrq' /\ completed' /\ conv' \in {NoConv, conv}
      BY <1>5 DEF LdmaIrqHandler, StopSingle
    <2>3. \A i \in Slots : i > 1 => buf[i] = session
      BY <1>5, DoneMeansAllWritten DEF LdmaIrqHandler
    <2>. QED
      BY <2>1, <2>2, <2>3
  <1>6. CASE LetimerUnderflow
    <2>1. ldmaOn /\ ~ldmaIrq
      BY <1>6 DEF LetimerUnderflow, CtlInv, TimerInv, LdmaInv, CpuFree
    <2>2. fifo = <<>> /\ ~completed
      BY <1>6, <2>1 DEF LetimerUnderflow
    <2>3. /\ UNCHANGED <<fifo, ldmaOn, ldmaIrq, xferLeft, buf, session,
                         completed>>
          /\ conv' = session
      BY <1>6 DEF LetimerUnderflow
    <2>. QED
      BY <2>1, <2>2, <2>3 DEF DmaDest
  <1>7. CASE ConversionDone
    <2>1. conv # NoConv /\ fifo = <<>>
      BY <1>7 DEF ConversionDone
    <2>2. fifo' = <<conv>>
      BY <1>7, <2>1 DEF ConversionDone
    <2>3. /\ UNCHANGED <<ldmaOn, ldmaIrq, xferLeft, buf, session, completed>>
          /\ conv' = NoConv
      BY <1>7 DEF ConversionDone
    <2>4. ldmaOn /\ xferLeft < XferTotal => conv = session
      BY <2>1
    <2>. QED
      BY <2>2, <2>3, <2>4 DEF DmaDest
  <1>8. CASE LdmaTransfer
    <2>1. fifo \in Seq(Tags) /\ fifo # <<>>
      BY <1>8 DEF LdmaTransfer, TypeInv, TypeOK
    <2>2. Len(fifo) = 1 /\ conv = NoConv
      <3>1. Len(fifo) \in Nat \ {0}
        BY <2>1, EmptySeq
      <3>2. conv = NoConv
        BY <2>1, Zenon
      <3>3. Len(fifo) <= 1
        BY Zenon
      <3>4. Len(fifo) = 1
        BY <3>1, <3>3
      <3>. QED
        BY <3>2, <3>4, Zenon
    <2>3. fifo' = <<>>
      <3>1. Tail(fifo) \in Seq(Tags) /\ Len(Tail(fifo)) = 0
        BY <2>1, <2>2, HeadTailProperties
      <3>. QED
        BY <1>8, <3>1, EmptySeq DEF LdmaTransfer
    <2>4. xferLeft \in 1 .. XferTotal /\ ~completed
      BY <1>8 DEF LdmaTransfer, TypeInv, XferInv
    <2>5. /\ UNCHANGED <<conv, session, completed>>
          /\ xferLeft' = xferLeft - 1
          /\ ldmaOn' = (xferLeft > 1)
          /\ ldmaIrq' = (xferLeft = 1)
      BY <1>8 DEF LdmaTransfer
    <2>6. \A i \in Slots : 1 < i /\ i < DmaDest' => buf'[i] = session'
      <3>1. DmaDest' = DmaDest + 1
        BY <2>4, <2>5 DEF DmaDest, XferTotal
      <3>2. SUFFICES ASSUME NEW i \in Slots, 1 < i, i < DmaDest + 1
                     PROVE  buf'[i] = session
        BY <2>5, <3>1
      <3>3. CASE i < DmaDest
        <4>1. buf'[i] = buf[i]
          BY <1>8, <3>3 DEF LdmaTransfer, TypeInv, TypeOK
        <4>2. ldmaOn
          BY <1>8 DEF LdmaTransfer
        <4>. QED
          BY <3>2, <3>3, <4>1, <4>2, Zenon
      <3>4. CASE i = DmaDest
        <4>1. xferLeft < XferTotal
          BY <2>4, <3>2, <3>4 DEF DmaDest, XferTotal
        <4>2. Head(fifo) = session
          BY <1>8, <2>1, <2>2, <4>1 DEF LdmaTransfer
        <4>3. buf'[i] = Head(fifo)
          BY <1>8, <3>4 DEF LdmaTransfer, TypeInv, TypeOK
        <4>. QED
          BY <4>2, <4>3
      <3>. QED
        BY <2>4, <3>2, <3>3, <3>4 DEF DmaDest, XferTotal
    <2>7. ldmaIrq' => \A i \in Slots : i < DmaDest'
      <3>1. ldmaIrq' => xferLeft = 1
        BY <2>5, Zenon
      <3>2. xferLeft = 1 => xferLeft' = 0
        BY <2>5
      <3>. QED
        BY <3>1, <3>2 DEF DmaDest
    <2>. QED
      BY <2>2, <2>3, <2>4, <2>5, <2>6, <2>7
  <1>9. QED
    BY <1>1, <1>2, <1>3, <1>4, <1>5, <1>6, <1>7, <1>8 DEF Next, MainStep,
       HardwareStep

(***************************************************************************)
(* A completed buffer mixes sessions in slot 1 at most, for every          *)
(* NUM_OF_SAMPLES, FIFO depth and number of tags: the stale sample a stop()*)
(* leaves in the IADC FIFO (the stale_fifo_sample finding) is the only one *)
(* there can be, and the next session's first transfer takes it.           *)
(***************************************************************************)
THEOREM StaleSampleOnlyInFirstSlotHolds == Spec => []StaleSampleOnlyInFirstSlot
  <1>1. Init => TypeInv /\ CtlInv /\ DataInv
    BY TypeInit, CtlInit, DataInit
  <1>2. TypeInv /\ CtlInv /\ DataInv /\ [Next]_vars
          => (TypeInv /\ CtlInv /\ DataInv)'
    BY TypeStep, CtlStep, DataStep
  <1>3. Spec => [](TypeInv /\ CtlInv /\ DataInv)
    BY <1>1, <1>2, PTL DEF Spec
  <1>. QED
    BY <1>3, PTL DEF DataInv

====
