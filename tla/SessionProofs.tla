---------------------------- MODULE SessionProofs ----------------------------
(***************************************************************************)
(* The driver implements SamplingSession under the mapping of              *)
(* VoltageMonitor, and never re-arms a running transfer, for every value   *)
(* of the constants.                                                       *)
(***************************************************************************)
EXTENDS VoltageMonitorProofs

\* Under the invariant, every step of the driver is a step of the abstract
\* session machine or leaves the mapped state alone.
LEMMA SessionStep ==
  TypeInv /\ CtlInv /\ [Next]_vars => (Session!Next \/ UNCHANGED Session!svars)
  <1> SUFFICES ASSUME TypeInv, CtlInv, [Next]_vars
               PROVE  (Session!Next \/ UNCHANGED Session!svars)
    OBVIOUS
  <1> USE NumSamplesAssumption DEF sessionActive, sessionFilled, XferTotal, XferCnt
  <1>0. /\ ldmaOn \in BOOLEAN /\ ldmaIrq \in BOOLEAN
        /\ xferLeft \in 0 .. XferTotal
        /\ ldmaOn => xferLeft \in 1 .. XferTotal
        /\ ldmaIrq => xferLeft = 0 /\ ~ldmaOn
    BY DEF TypeInv, TypeOK, XferInv, CtlInv, LdmaInv
  <1>1. CASE StartNext /\ UNCHANGED extSignal
    <2>1. ~ldmaOn /\ ~ldmaIrq /\ pc = "idle"
      BY <1>1 DEF StartNext, CpuFree, CtlInv, LdmaInv
    <2>2. ldmaOn' /\ xferLeft' = XferTotal /\ pc' = "idle"
      BY <1>1, <2>1 DEF StartNext, ArmSession
    <2>3. Session!Start
      BY <1>1, <2>1, <2>2 DEF Session!Start
    <2>4. QED
      BY <2>3 DEF Session!Next
  <1>2. CASE StopBegin
    <2>1. Session!StopCall
      BY <1>2 DEF StopBegin, CpuFree, Session!StopCall
    <2>2. QED
      BY <2>1 DEF Session!Next
  <1>3. CASE StopIadc
    BY <1>3 DEF StopIadc, StopSingle, Session!svars
  <1>4. CASE StopFlag
    BY <1>4 DEF StopFlag, Session!svars
  <1>5. CASE StopLdma
    <2>1. CASE ldmaOn
      <3>1. xferLeft \in 1 .. XferTotal /\ ~ldmaIrq /\ ~ldmaOn' /\ ~ldmaIrq'
        BY <1>0, <1>5, <2>1 DEF StopLdma
      <3>2. Session!Cancel
        BY <1>5, <2>1, <3>1 DEF StopLdma, Session!Cancel
      <3>3. QED
        BY <3>2 DEF Session!Next
    <2>2. CASE ~ldmaOn
      <3>1. Session!StopReturn
        BY <1>5, <2>2 DEF StopLdma, Session!StopReturn
      <3>2. QED
        BY <3>1 DEF Session!Next
    <2>3. QED
      BY <2>1, <2>2
  <1>6. CASE DeliverSignal
    <2>1. Session!Consume
      BY <1>6 DEF DeliverSignal, Session!Consume
    <2>2. QED
      BY <2>1 DEF Session!Next
  <1>7. CASE LdmaIrqHandler
    <2>1. xferLeft = 0 /\ ~ldmaOn /\ ldmaIrq
      BY <1>0, <1>7 DEF LdmaIrqHandler
    <2>2. ~ldmaOn' /\ ~ldmaIrq' /\ extSignal' /\ pc' = pc
      BY <1>7, <2>1 DEF LdmaIrqHandler
    <2>3. Session!Complete
      BY <2>1, <2>2 DEF Session!Complete
    <2>4. QED
      BY <2>3 DEF Session!Next
  <1>8. CASE PowerTimerFire
    BY <1>8 DEF PowerTimerFire, Session!svars
  <1>9. CASE PowerTimerLost
    BY <1>9 DEF PowerTimerLost, Session!svars
  <1>10. CASE LetimerUnderflow
    BY <1>10 DEF LetimerUnderflow, Session!svars
  <1>11. CASE ConversionDone
    BY <1>11 DEF ConversionDone, Session!svars
  <1>12. CASE LdmaTransfer
    <2>1. ldmaOn /\ ~ldmaIrq /\ xferLeft \in 1 .. XferTotal
      BY <1>0, <1>12 DEF LdmaTransfer
    <2>2. ldmaOn' = (xferLeft > 1) /\ ldmaIrq' = (xferLeft = 1)
          /\ xferLeft' = xferLeft - 1
          /\ UNCHANGED <<extSignal, pc>>
      BY <1>12 DEF LdmaTransfer
    <2>3. ldmaOn' \/ ldmaIrq'
      <3>1. xferLeft = 1 \/ xferLeft > 1
        BY <2>1
      <3>2. QED
        BY <2>2, <3>1, Zenon
    <2>6. sessionActive /\ sessionActive'
      BY <2>1, <2>3
    <2>7. sessionFilled = XferTotal - xferLeft
          /\ sessionFilled' = XferTotal - xferLeft'
      BY <2>6
    <2>8. sessionFilled < XferTotal /\ sessionFilled' = sessionFilled + 1
      BY <2>1, <2>2, <2>7
    <2>4. Session!Transfer
      BY <2>2, <2>6, <2>8 DEF Session!Transfer
    <2>5. QED
      BY <2>4 DEF Session!Next
  <1>13. CASE UNCHANGED vars
    BY <1>13 DEF vars, drvVars, Session!svars
  <1>14. QED
    BY <1>1, <1>2, <1>3, <1>4, <1>5, <1>6, <1>7, <1>8, <1>9, <1>10, <1>11,
       <1>12, <1>13 DEF Next, MainStep, HardwareStep

(***************************************************************************)
(* The driver implements the abstract session machine: start_next arms the *)
(* LDMA only when no session can still complete, each LE_MONITOR_SIGNAL    *)
(* follows exactly the descriptor's transfers of one session, and stop()   *)
(* ends a session only before its last transfer.                           *)
(***************************************************************************)
THEOREM SessionSafetyHolds == Spec => SessionSafety
  <1>1. Spec => [](TypeInv /\ CtlInv)
    BY InvHolds
  <1>2. Init => Session!Init
    BY DEF Init, Session!Init, sessionActive, sessionFilled
  <1>3. TypeInv /\ CtlInv /\ [Next]_vars => (Session!Next \/ UNCHANGED Session!svars)
    BY SessionStep
  <1>. QED
    BY <1>1, <1>2, <1>3, PTL DEF Spec, SessionSafety, Session!SafeSpec

(***************************************************************************)
(* Idempotent start: once a session's LDMA channel has moved a word, no    *)
(* step raises its transfer count again; start_next with the session       *)
(* running is a no-op.                                                     *)
(***************************************************************************)
THEOREM NoRearmMidTransferHolds == Spec => NoRearmMidTransfer
  <1>1. Spec => [](TypeInv /\ CtlInv)
    BY InvHolds
  <1>2. TypeInv /\ CtlInv /\ [Next]_vars
          => [ldmaOn /\ xferLeft < XferTotal => xferLeft' <= xferLeft]_vars
    <2> SUFFICES ASSUME TypeInv, CtlInv, [Next]_vars,
                        ldmaOn, xferLeft < XferTotal
                 PROVE  xferLeft' <= xferLeft
      OBVIOUS
    <2>1. xferLeft \in Nat
      BY NumSamplesAssumption DEF TypeInv, TypeOK, XferTotal, XferCnt
    <2>2. ~(StartNext /\ UNCHANGED extSignal)
      BY DEF StartNext, CpuFree, CtlInv, LdmaInv
    <2>3. CASE LdmaTransfer
      BY <2>1, <2>3 DEF LdmaTransfer
    <2>4. CASE \/ StopBegin \/ StopIadc \/ StopFlag \/ StopLdma
               \/ DeliverSignal \/ LdmaIrqHandler
      <3>1. xferLeft' = xferLeft
        BY <2>4, Zenon DEF StopBegin, StopIadc, StopFlag, StopLdma,
           DeliverSignal, LdmaIrqHandler
      <3>2. QED
        BY <2>1, <3>1
    <2>5. CASE \/ PowerTimerFire \/ PowerTimerLost \/ LetimerUnderflow
               \/ ConversionDone \/ UNCHANGED vars
      <3>1. xferLeft' = xferLeft
        BY <2>5, Zenon DEF PowerTimerFire, PowerTimerLost, LetimerUnderflow,
           ConversionDone, vars, drvVars
      <3>2. QED
        BY <2>1, <3>1
    <2>6. QED
      BY <2>2, <2>3, <2>4, <2>5 DEF Next, MainStep, HardwareStep
  <1>. QED
    BY <1>1, <1>2, PTL DEF Spec, NoRearmMidTransfer
=============================================================================
