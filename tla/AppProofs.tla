------------------------------- MODULE AppProofs -------------------------------
(***************************************************************************)
(* Proofs about App, the BLE application composed with the driver, for     *)
(* every value of the constants.  The application's handlers call the      *)
(* driver from the main context; each of their steps is, on the driver's   *)
(* state, a driver step or a stutter, except the signal handler's, which   *)
(* takes the signal and calls start_next in one event.                     *)
(***************************************************************************)
EXTENDS App, VoltageMonitorProofs

\* The driver's inductive invariant as TLC checks it is the one proved.
LEMMA IInvIsCoreInv == IInv <=> TypeInv /\ CtlInv
  BY DEF IInv, TypeInv, CtlInv

\* start_next preserves the driver's invariant whatever happens to the
\* signal in the same step: the signal handler clears it as it calls
\* start_next.
LEMMA StartNextPreserves ==
  ASSUME TypeInv, CtlInv, StartNext, extSignal' \in BOOLEAN
  PROVE  (TypeInv /\ CtlInv)'
  <1> USE NumSamplesAssumption, MaxSessionsAssumption
      DEF TypeInv, TypeOK, XferInv, Tags, Data, NoConv, Slots, StopLocs,
          XferTotal, XferCnt, StartNext, ArmSession
  <1>1. session' \in Data
    BY DEF NextTag
  <1>2. powerTimer' \in BOOLEAN
    OBVIOUS
  <1>3. xferLeft' \in 0 .. XferTotal /\ (ldmaOn' => xferLeft' \in 1 .. XferTotal)
    OBVIOUS
  <1>4. ~ldmaIrq' /\ pc' = "idle"
    BY DEF CpuFree
  <1>5. TypeInv'
    BY <1>1, <1>2, <1>3, <1>4, Zenon
  <1>6. CtlInv'
    BY <1>4 DEF CtlInv, TimerInv, IadcInv, LdmaInv, StopInv, IdleInv, CpuFree
  <1>. QED
    BY <1>5, <1>6

\* Every step of the application keeps the driver's invariant.
LEMMA AppCoreStep ==
  ASSUME TypeInv, CtlInv, [AppNext]_allVars
  PROVE  (TypeInv /\ CtlInv)'
  <1> DEFINE CoreStep == TypeInv /\ CtlInv /\ [Next]_vars => (TypeInv /\ CtlInv)'
  <1>0. CoreStep
    BY TypeStep, CtlStep
  <1>1. CASE ConnectionOpened \/ UNCHANGED allVars
    BY <1>0, <1>1 DEF ConnectionOpened, allVars
  <1>2. CASE ConnectionClosed \/ CccdDisable
    BY <1>0, <1>2 DEF ConnectionClosed, CccdDisable, Next, MainStep
  <1>3. CASE CccdEnable
    BY <1>0, <1>3 DEF CccdEnable, StartNextCall, StartNextIgnored, Next,
       MainStep, vars
  <1>4. CASE SignalEvent
    <2>1. CASE StartNext
      BY <1>4, <2>1, StartNextPreserves DEF SignalEvent
    <2>2. CASE StartNextIgnored
      <3>1. DeliverSignal
        BY <1>4, <2>2 DEF SignalEvent, StartNextIgnored, DeliverSignal, drvVars
      <3>2. QED
        BY <1>0, <3>1 DEF Next
    <2>3. QED
      BY <1>4, <2>1, <2>2 DEF SignalEvent, StartNextCall
  <1>5. CASE DriverStep
    BY <1>0, <1>5 DEF DriverStep, Next, MainStep
  <1>6. QED
    BY <1>1, <1>2, <1>3, <1>4, <1>5 DEF AppNext

LEMMA AppInitInv == AppInit => AppIInv
  <1> SUFFICES ASSUME AppInit PROVE AppIInv
    OBVIOUS
  <1>1. TypeInv /\ CtlInv
    BY TypeInit, CtlInit DEF AppInit
  <1>. QED
    BY <1>1, IInvIsCoreInv DEF AppInit, Init, AppIInv, AppTypeOK, TypeInv,
       SamplingWhileSubscribed

\* The parts of AppIInv beyond the driver's invariant.
AppVarsOK ==
  /\ connected \in BOOLEAN
  /\ notifying \in BOOLEAN
  /\ awaiting \in BOOLEAN
  /\ readIdle \in BOOLEAN
SubInv == pc # "idle" => ~notifying

\* Every step of the application keeps the subscription and the sampling in
\* step: stop() runs only after its handler has cleared the subscription,
\* and a subscribed client always has a session running or a signal on its
\* way to the handler that starts the next.
LEMMA AppStep == AppIInv /\ [AppNext]_allVars => AppIInv'
  <1> SUFFICES ASSUME TypeInv, CtlInv, AppVarsOK, SubInv,
                      SamplingWhileSubscribed, [AppNext]_allVars
               PROVE  (TypeInv /\ CtlInv /\ AppVarsOK /\ SubInv
                       /\ SamplingWhileSubscribed)'
    BY DEF AppIInv, IInv, AppTypeOK, AppVarsOK, SubInv, TypeInv, CtlInv
  <1>0. (TypeInv /\ CtlInv)'
    BY AppCoreStep
  <1> USE DEF AppVarsOK, SubInv, SamplingWhileSubscribed, CpuFree
  <1>1. CASE ConnectionOpened
    <2>1. /\ connected' = TRUE
          /\ UNCHANGED <<notifying, awaiting, readIdle, startedSampling, pc,
                         ldmaIrq, extSignal>>
      BY <1>1 DEF ConnectionOpened, vars, drvVars
    <2>. QED
      BY <1>0, <2>1
  <1>6. CASE UNCHANGED allVars
    <2>1. UNCHANGED <<connected, notifying, awaiting, readIdle, startedSampling,
                      pc, ldmaIrq, extSignal>>
      BY <1>6 DEF allVars, vars, drvVars, appVars
    <2>. QED
      BY <1>0, <2>1
  <1>2. CASE ConnectionClosed \/ CccdDisable
    BY <1>0, <1>2 DEF ConnectionClosed, CccdDisable, StopBegin
  <1>3. CASE CccdEnable \/ SignalEvent
    <2>1. startedSampling' /\ pc' = "idle"
      BY <1>3 DEF CccdEnable, SignalEvent, StartNextCall, StartNext,
         ArmSession, StartNextIgnored, drvVars
    <2>2. AppVarsOK'
      BY <1>3 DEF CccdEnable, SignalEvent
    <2>3. QED
      BY <1>0, <2>1, <2>2
  <1>4. CASE DriverStep
    <2>1. UNCHANGED <<connected, notifying, awaiting, readIdle>>
      BY <1>4 DEF DriverStep, appVars
    <2>2. CASE StopIadc \/ StopFlag \/ StopLdma
      <3>1. ~notifying
        BY <2>2 DEF StopIadc, StopFlag, StopLdma
      <3>. QED
        BY <1>0, <2>1, <3>1
    <2>3. CASE LdmaIrqHandler
      BY <1>0, <2>1, <2>3 DEF LdmaIrqHandler
    <2>4. CASE LdmaTransfer
      <3>1. ~ldmaIrq
        BY <2>4 DEF LdmaTransfer, CtlInv, LdmaInv
      <3>. QED
        BY <1>0, <2>1, <2>4, <3>1 DEF LdmaTransfer
    <2>5. CASE PowerTimerFire \/ PowerTimerLost \/ LetimerUnderflow
               \/ ConversionDone
      BY <1>0, <2>1, <2>5 DEF PowerTimerFire, PowerTimerLost,
         LetimerUnderflow, ConversionDone
    <2>6. QED
      BY <1>4, <2>2, <2>3, <2>4, <2>5 DEF DriverStep, HardwareStep
  <1>5. QED
    BY <1>1, <1>2, <1>3, <1>4, <1>6 DEF AppNext

\* The application's inductive invariant holds in every reachable state.
LEMMA AppInvHolds == AppSpec => []AppIInv
  <1>1. AppInit => AppIInv
    BY AppInitInv
  <1>2. AppIInv /\ [AppNext]_allVars => AppIInv'
    BY AppStep
  <1>. QED
    BY <1>1, <1>2, PTL DEF AppSpec

(***************************************************************************)
(* While a client is subscribed, the CCCD handler, the done interrupt and  *)
(* the signal handler keep a session running: whenever the main context is *)
(* free and no signal is pending, startedSampling is set.                  *)
(***************************************************************************)
THEOREM SamplingWhileSubscribedHolds == AppSpec => []SamplingWhileSubscribed
  <1>1. AppIInv => SamplingWhileSubscribed
    BY DEF AppIInv
  <1>. QED
    BY AppInvHolds, <1>1, PTL

====
