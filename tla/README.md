# Formal model of the LE voltage monitor (EFR32BG22)

This directory holds TLA+ models of `src/le_voltage_monitor.c` (the autonomous sampling pipeline) and of the parts of `src/app.c` that drive it. It also holds TLC configurations that model-check them on small instances, and TLAPS proofs of the main invariants for every value of the constants.

## 1. The system

**Data path.** The pipeline runs in hardware:

- LETIMER0 underflows every 1/`SAMPLING_FREQ_HZ` s (20 ms).
- PRS channel 1 routes each underflow pulse to the IADC single-conversion trigger (`iadcTriggerActionOnce`).
- Each conversion result enters the IADC single FIFO.
- LDMA channel 0 (word transfers, `dataValidLevel` 1) moves each result to the next slot of `samplingBuffer`.
- The comments say the LDMA raises its done interrupt (`doneIfs`) after `NUM_OF_SAMPLES` (128) transfers; with the count `init_ldma` writes it makes 129 (see the findings).

**Control.** Software runs in two contexts:

- **The main context** is the Bluetooth event loop, which calls `sl_bt_on_event`. It calls:
  - `le_voltage_monitor_start_next`: if `startedSampling` is clear, start the IADC queue, enable LETIMER0, start the LDMA, raise the sensor power pin and arm a 5-tick sleeptimer (`start_Sensor_power_timer`), then set the flag;
  - `le_voltage_monitor_stop`: disable LETIMER0, StopSingle, clear the flag, stop the LDMA;
  - `le_voltage_monitor_get_average_mv`.
- **`LDMA_IRQHandler`** stops LETIMER0, issues StopSingle, posts `LE_MONITOR_SIGNAL` to the stack, and clears the flag. It preempts the main context between any two statements.

The sleeptimer callback `my_timer_callback` lowers the power pin.

**Application.** `app.c` handles these events:

- a CCCD write on `avg_voltage_data` calls `start_next` on enable and `stop` on disable;
- `connection_closed` calls `stop`;
- the external signal reads the average, notifies it on `connection_handle`, and calls `start_next` again.

### Inventory

| Component | Source | State | Operations | Module |
|---|---|---|---|---|
| Clock enabler | `init_clocks` | none | start-up only | not modelled |
| Pipeline initializer | `le_voltage_monitor_init`, `init_power_gpio` | all peripherals off, pin low | `Init` | VoltageMonitor |
| LETIMER0 + PRS | `init_letimer`, `init_prs` | `letimerOn` | underflow pulse | VoltageMonitor `LetimerUnderflow` |
| IADC single queue | `init_iadc`, StartSingle/StopSingle | `iadcOn`, `conv`, `fifo` | conversion start/end, stop | `LetimerUnderflow`, `ConversionDone`, `StopSingle` |
| LDMA channel 0 | `descriptor`, `init_ldma` | `ldmaOn`, `xferLeft`, `buf`, `ldmaIrq` | one word transfer, done | `LdmaTransfer` |
| Sampling state machine | `start_next`, `stop`, `LDMA_IRQHandler` | `startedSampling`, `pc` (position in `stop`) | start, 4 steps of stop, ISR | `StartNext`, `StopBegin..StopLdma`, `LdmaIrqHandler` |
| Power sequencer | `start_Sensor_power_timer`, `my_timer_callback` | `power`, `powerTimer` | arm, fire, lost | `ArmSession`, `PowerTimerFire`, `PowerTimerLost` |
| Average computer | `convert_to_mv`, `get_average_mv` | `samplingBuffer` | LDMA write, the average | AverageComputer |
| BLE application | `app.c` `sl_bt_on_event` | `connected`, `notifying` | open, close, CCCD enable/disable, external signal | App |
| BLE stack, GATT, advertising | outside `src/` and boot handler | n/a | n/a | not modelled (see section 7) |

**What makes this code hard.** Three things:

- The ISR can preempt `stop()` halfway through.
- A conversion can be in flight when StopSingle or `LDMA_StopTransfer` is issued.
- The IADC FIFO outlives a session.

The power timer's handle is a stack local (undefined behaviour), and the status of arming it is ignored. In the application, Bluetooth events and the external signal arrive in any order, and external signals coalesce into a bitmask. PROJECT.json lists these hazards with the line where each bites.

## 2. Modules

- **VoltageMonitor.tla** models the driver and the peripherals.
  - Constants:
    - `NumSamples` (`NUM_OF_SAMPLES`). `init_ldma` writes it into the descriptor's XFERCNT field, which counts transfers minus one, so a session makes `XferTotal == NumSamples + 1` transfers. `DmaDest` is the slot of the next write; the last write of a session is past the buffer and is left out of `buf`;
    - `FifoDepth` (IADC single FIFO entries);
    - `MaxSessions` (the number of session tags before they are reused).
  - The data is abstracted to *provenance*. A sample is the tag of the session whose LETIMER pulse triggered its conversion. Tag 0 is the zero the static buffer starts with. This is all the properties need to tell apart.
  - The history variables `session`, `stopped` and `completed` record the current session, whether `stop()` hit it while it was active, and whether its ISR ran.
  - `pc` is the main context's position inside `stop()`.
  - `CpuFree` means the main context is outside the driver and no interrupt is pending. A pending ISR runs before the next main-context statement.
- **App.tla** EXTENDS VoltageMonitor and adds the `sl_bt_on_event` handlers. `connected` and `notifying` are the connection and the client configuration. `awaiting` and `readIdle` are history: "subscribed and not yet notified", and "no LDMA channel was armed on samplingBuffer when the signal handler last read the average". The stack delivers one event at a time, so each handler is one action, and `stop()` within a handler keeps its four steps (`StopBegin` is the handler's step, and the rest are `DriverStep`s).
- **AverageComputer.tla** models `convert_to_mv` and `get_average_mv` with the real constants (3300 mV, 0xFFF) and truncating division. The buffer is the state, and each LDMA write may store any raw code. The loop is a recursive function in the order of the C loop. The reference is the exact mean `SumFunction(b) * 3300 \div (4095 * N)` (`Functions`). The `uint32_t` arithmetic cannot wrap for 12-bit codes (at most 4095 × 3300 per product and 128 × 3300 in the sum), so it is done over the naturals. The `uint16_t` return is kept as `% 2^16`.
- **SamplingSession.tla** is the abstract specification of what the driver promises its caller, without any peripheral. Its state is `active`, `filled` (words moved by the running session), `signal` (a completion waits for the caller) and `stopping` (the caller is inside `stop()`). A session starts only when none is active and no stop is in progress. It completes, raising the signal, only after exactly `Count` words. It is cancelled, without a signal, only by a stop call and only before its last word. A stop call does not exclude a completion: this is how much of the `stop_vs_completion` finding the abstract promise has to allow.
- VoltageMonitor instantiates it as `Session` with the refinement mapping `active <- ldmaOn \/ ldmaIrq` (a channel running or its done interrupt pending), `filled <- XferTotal - xferLeft` while active, `signal <- extSignal`, `stopping <- pc # "idle"` and `Count <- XferTotal`. `SessionSafety == Session!SafeSpec` is the safety part and `SessionRefinement == Session!Spec` adds the abstract fairness (weak fairness of `Transfer` and `Complete`).
- **VoltageMonitorProofs.tla**, **SessionProofs.tla**, **BufferProofs.tla**, **AppProofs.tla** and **AverageProofs.tla** hold the TLAPS proofs (section 5).
- **MCVoltageMonitor.tla, MCApp.tla, MCAverageComputer.tla** give the constants for TLC.

### Timing assumptions (the abstraction of time)

The pulse period (20 ms) is very long compared with a driver call, an ISR, a 10 µs conversion or a DMA word. `LetimerUnderflow` is therefore enabled only when:

- the CPU is free (`CpuFree`);
- no conversion is in progress;
- a running LDMA has drained the FIFO.

`start_next` is one atomic step: it runs with `startedSampling` clear, so no done interrupt of its own session can be pending. `stop()` is four steps, because a done interrupt that was already due can preempt it. A new `start_next` happens only after the previous power timer has expired, since 5 sleeptimer ticks are shorter than any BLE round trip. This is the guard `~powerTimer` of `StartNext`.

Without these assumptions TLC produces traces with dozens of pulses inside one stop() call. Such traces are physically impossible, and they hide the real ones.

### Undefined and unknown hardware behaviour

- The stack-local sleeptimer handle: its callback either runs (`PowerTimerFire`) or is lost (`PowerTimerLost`).
- A failed `sl_sleeptimer_start_timer`: `\E ok \in BOOLEAN` in `ArmSession`.
- StopSingle with a conversion in flight: the result is either dropped or still delivered (`conv' \in {NoConv, conv}`).

## 3. Runs

| Run | Config | Expect | Checks |
|---|---|---|---|
| core_safety | MCVoltageMonitor.cfg | pass | `TypeOK`, `FlagMatchesHardware`, `NoSampleDropped`, `StaleSampleOnlyInFirstSlot`, `NoRearmMidTransfer` |
| core_liveness | MCVoltageMonitor_Live.cfg | pass | `SessionTerminates`, `SessionRefinement` |
| core_refinement | MCVoltageMonitor_Session.cfg | pass | `SessionSafety` |
| stop_vs_completion | MCVoltageMonitor_StopPreventsCompletion.cfg | violation | `StopPreventsCompletion` |
| stale_fifo_sample | MCVoltageMonitor_BufferHoldsOneSession.cfg | violation | `BufferHoldsOneSession` |
| power_window | MCVoltageMonitor_PowerEventuallyLow.cfg | violation | `PowerEventuallyLow` |
| dma_overrun | MCVoltageMonitor_DmaWritesInBuffer.cfg | violation | `DmaWritesInBuffer` |
| app | MCApp.cfg | pass | `SamplingWhileSubscribed`, `NotificationFollowsSubscription` |
| app_stale_signal | MCApp_SamplingOnlyWhileSubscribed.cfg | violation | `SamplingOnlyWhileSubscribed` |
| app_read_races_ldma | MCApp_AverageReadOnlyAfterCompletion.cfg | violation | `AverageReadOnlyAfterCompletion` |
| average_bounds | MCAverageComputer.cfg | pass | `AverageWithinOneMv` |
| average_midscale | MCAverageComputer_MidScale.cfg | violation | `MidScaleReads1651` |

**Bounds.** `NumSamples = 3`, `FifoDepth = 2`, `MaxSessions = 3`:

- Three slots allow a buffer whose first slot comes from an earlier session while the rest are new.
- A FIFO of two can hold a stale sample as well as a fresh one.
- Three tags allow a stale sample to be told apart from the current and the previous session across a stop/start/complete cycle before the tags wrap.

The core model has 54,508 distinct states and App has 193,832; both finish in seconds. The average uses three slots over the codes {0, 1, 2047, 2048, 4094, 4095} (216 buffers). These are the ends of the range, the spec's mid-scale code and its neighbours.

**What the violations show** (details in PROJECT.json, `findings`):

- `stop()` does not prevent the completion signal of the session it cancels. The last conversion in flight completes, the LDMA finishes, and the ISR preempts `stop()`.
- The IADC FIFO is never flushed. A sample converted during `stop()` becomes slot 1 of the next session. This is a mixed buffer with no race in the application at all (assuming StopSingle does not clear the FIFO).
- The power pin can stay high forever: the timer handle is lost, or the arming fails and its status is ignored. `stop()` does not lower the pin.
- A completion signal handled after a disconnect or a CCCD disable restarts sampling with nobody subscribed.
- A CCCD re-enable while a signal is pending arms a new session's LDMA on `samplingBuffer` before the signal handler reads the average, so the read races the transfer engine (spec sections 3 and 5). In the shortest trace no word has moved yet; the average is overwritten only if a LETIMER period passes before the stack delivers the signal.
- The spec's end-to-end example (1651 mV) is wrong; the code computes 1650.
- `init_ldma` sets `xferCnt = NUM_OF_SAMPLES`, but the field holds the count minus one (the descriptor macro stores `count - 1`). Every session makes one transfer more than the buffer has slots, and its last word is written past `samplingBuffer` (line 426). The done interrupt also comes one conversion later than the comments say.

**Fairness.**

- Weak fairness on each peripheral action, on the ISR, on the power timer, and on the continuation of a started `stop()`. Hardware and interrupts cannot be postponed forever, and `stop()` has no blocking statement.
- App adds strong fairness on the external-signal event. A pending ISR briefly disables it (the handler needs a free CPU), so the event is enabled only intermittently. The stack dispatches a posted signal eventually.
- The peer (client and application calls) has no fairness: a client may do nothing forever.

**Mutants.** Each property of a passing run is broken by a plausible bug in the code:

| Bug | Property violated |
|---|---|
| a descriptor count one too large | `TypeOK` |
| the ISR forgetting to stop LETIMER0 | `FlagMatchesHardware` |
| the ISR stopping neither LETIMER0 nor the IADC queue | `NoSampleDropped`, `StaleSampleOnlyInFirstSlot` |
| `start_next` without its guard | `NoRearmMidTransfer`, `SessionSafety` |
| `start_next` forgetting `LETIMER_Enable` | `SessionRefinement` |
| the ISR forgetting to clear the flag | `SessionTerminates` |
| the CCCD handler not calling `start_next` | `NotificationFollowsSubscription`, `SamplingWhileSubscribed` |
| `convert_to_mv` rounding up | `AverageWithinOneMv` |

## 4. Properties

- `FlagMatchesHardware`: between driver calls, LETIMER0, the IADC queue and the LDMA channel run exactly when `startedSampling` is set. If the flag and the hardware disagree, sampling either stalls forever or the LDMA is re-armed under a running session.
- `NoRearmMidTransfer` (action property): once a session has moved a sample, no step raises the transfer count again.
- `NoSampleDropped`: a conversion never completes into a full IADC FIFO. It holds because both stop paths disable LETIMER0 (and the ISR the IADC queue) before the LDMA stops draining, and `start_next` arms the LDMA with the LETIMER; the timing assumptions do the rest.
- `StaleSampleOnlyInFirstSlot`: when the done interrupt is pending or has run, every slot after the first holds a sample of the current session. The `stale_fifo_sample` run shows that slot 1 can hold a sample of an aborted session (`BufferHoldsOneSession` is violated). This property bounds the damage: the FIFO holds at most one result, so one stale sample at most survives a `stop()`, and the first transfer of the next session takes it.
- `SamplingWhileSubscribed`: while a client is subscribed, the main context is free and no signal is pending, a session is running. Sampling for a subscribed client can only stop through a handler that clears the subscription. This is the converse of the violated `SamplingOnlyWhileSubscribed`.
- `SessionTerminates`: every session ends.
- `SessionSafety`, `SessionRefinement`: the driver implements `SamplingSession` (see section 2). Together they say that a session never overlaps another, that a signal follows exactly one full session, and that `stop()` can end a session silently only before its last word. With fairness, every running session reaches its last word and completes, unless it is cancelled.
- `NotificationFollowsSubscription`: a subscribed client is notified unless it leaves.
- `AverageWithinOneMv`: per-sample truncation costs at most 1 mV, and never overstates the mean.

## 5. Proofs (VoltageMonitorProofs.tla, SessionProofs.tla, BufferProofs.tla, AppProofs.tla, AverageProofs.tla)

The proofs assume only `NumSamples`, `FifoDepth`, `MaxSessions \in Nat \ {0}` (`NumSamplesAssumption`, `FifoDepthAssumption`, `MaxSessionsAssumption`).

- `TypeCorrect == Spec => []TypeOK`. `TypeOK` alone is not inductive: the count of a running channel must stay in `1..XferTotal`, and a pending done interrupt must mean the count is 0. The proof strengthens it to `TypeInv == TypeOK /\ XferInv`. `TypeInit` and `TypeStep` have one case per action; the FIFO cases use `AppendProperties` and `HeadTailProperties` of SequenceTheorems.
- `FlagMatchesHardwareHolds == Spec => []FlagMatchesHardware`. The invariant says nothing when the CPU is inside `stop()` or an ISR is pending, so it is not inductive. The strengthening `CtlInv` records what each location of `stop()` and a pending done interrupt imply:
  - `TimerInv`: LETIMER0 runs only with the flag set and outside `stop()`;
  - `IadcInv`: the IADC matches the flag up to StopSingle, and is off after it;
  - `LdmaInv`: the LDMA matches the flag unless it is about to be stopped or it has just finished (then it is off);
  - `StopInv`: the flag is clear at the last statement of `stop()`;
  - `IdleInv`.

  `CtlStep` proves `TypeInv /\ CtlInv /\ [Next]_vars => CtlInv'`, one case per action. TLC checks the whole strengthening, `IInv`, as an invariant of the core run. The lemma `InvHolds == Spec => [](TypeInv /\ CtlInv)` is shared by the theorems below.
- `SessionSafetyHolds == Spec => SessionSafety` (SessionProofs.tla). The initial state maps to `Session!Init`. The lemma `SessionStep` shows that, under `TypeInv /\ CtlInv`, every step maps to an abstract step or a stutter: `StartNext` is `Start` (the invariant says no channel is running and no done interrupt is pending when the flag is clear); `StopBegin` is `StopCall`; `StopLdma` is `Cancel` when the channel still runs and `StopReturn` when not; a transfer is `Transfer`, or the last one (which raises the done interrupt) too, since the mapped `active` stays true; the ISR is `Complete`; the delivery of the signal is `Consume`; everything else leaves the mapped state alone.
- `NoRearmMidTransferHolds == Spec => NoRearmMidTransfer`. Under the invariant, a running channel has the flag set, so `StartNext` is disabled, and no other action raises `xferLeft`.
- `NoSampleDroppedHolds == Spec => []NoSampleDropped`. `NoSampleDropped` is inductive relative to `TypeInv /\ CtlInv` (lemma `FifoStep`): a pulse comes only with LETIMER0 running and the CPU free, where `TimerInv` and `LdmaInv` give a running LDMA, whose guard gives an empty FIFO; transfers shrink the FIFO (`HeadTailProperties`).
- `StaleSampleOnlyInFirstSlotHolds == Spec => []StaleSampleOnlyInFirstSlot` (BufferProofs.tla). The property speaks only of a finished session, so it is not inductive: the proof must know what a running session has written. The strengthening `DataInv` adds two invariants, which TLC also checks on the core instance:
  - `FifoInv`: the FIFO holds at most one result, and none while a conversion is in progress;
  - `ProvInv`: once a session has moved its first sample, the FIFO and the conversion in progress are its own; the slots between 1 and `DmaDest` hold its samples while the channel runs or its done interrupt is pending; a completed session has neither.

  Lemma `DataStep` proves `TypeInv /\ CtlInv /\ DataInv /\ [Next]_vars => DataInv'` with one case per action. The transfer case is the one that matters. It shows that the FIFO has exactly one element (`FifoInv` and `EmptySeq`), that the element belongs to the session unless this is the first transfer, and that `DmaDest` moves up by one.
- AppProofs.tla proves the App properties. Every App step is, on the driver's variables, a driver step or a stutter (lemma `AppCoreStep`). The exception is the signal handler, which clears the signal and calls `start_next` in one event. Lemma `StartNextPreserves` shows that `start_next` keeps `TypeInv /\ CtlInv` whatever happens to the signal. The App strengthening `AppIInv` (checked by TLC on the app instance) adds `pc # "idle" => ~notifying`: `stop()` runs only from a handler that has just cleared the subscription. Without it, `SamplingWhileSubscribed` is not inductive, since a `stop()` in progress would break it. `AppStep` has one case per handler and per driver step; `AppInvHolds` gives `AppSpec => []AppIInv`, from which `SamplingWhileSubscribedHolds == AppSpec => []SamplingWhileSubscribed` follows. The App's type invariant, the flag invariant and the no-re-arm property under the application are not stated as separate results: every App handler calls the driver only with the main context free, where the core's unconstrained caller already calls it, so they would repeat the core's.
- AverageProofs.tla proves three facts about `convert_to_mv` for every 12-bit code: `ConvertToMvTruncates` (the result is in 0..3300 and less than 1 mV below the exact value), `ConvertToMvMonotone`, and `MidScaleConverts1650`, the conversion behind the `average_midscale` finding.

**Left to TLC.** TLAPS cannot prove these:

- liveness under fairness, and anything about `ENABLED` (`SessionTerminates`, `NotificationFollowsSubscription`);
- what the recursive average loop computes for every input (`AverageWithinOneMv`), because induction over data is out of reach. The per-sample bound it rests on is proved (`ConvertToMvTruncates`), but summing it over the loop needs induction over the loop index;
- the liveness part of the App (`NotificationFollowsSubscription`), for the same reason as the core's;
- `SessionRefinement`, whose fairness part is liveness;
- `DmaWritesInBuffer` is violated, so there is nothing to prove.

## 6. Plan

Done in this first round:

- the core driver and peripherals;
- the app glue;
- the average computer;
- the runs above;
- the two theorems.

Done in the second round:

- the real transfer count of the descriptor, and the finding that it overruns the buffer;
- the abstract `SamplingSession` and the refinement, checked by TLC with its fairness and proved for its safety part;
- the proof of `NoRearmMidTransfer`.

Done in the third round:

- `NoSampleDropped`, a property for the FIFO resource bound, and its proof;
- the proof of `SamplingWhileSubscribed` for the App;
- lemmas about `ConvertToMv`.

Done in the fourth round:

- `StaleSampleOnlyInFirstSlot`, which bounds the `stale_fifo_sample` finding to slot 1, and its proof through the FIFO and provenance invariants.

Done in the fifth round, after a review against the source:

- `AverageFromCompletedSession` is replaced by `AverageReadOnlyAfterCompletion`. The old history variable compared the buffer with the tag of the session `start_next` had just armed, so it flagged reads of an untouched, complete buffer. The new one records whether the LDMA owned the buffer at the read, which is what spec sections 3 and 5 forbid;
- the App run no longer repeats the core's type, flag and no-re-arm properties, and their App theorems are gone.

Still to do:

1. Fixes of the findings as alternative actions, with runs that pass: flushing the FIFO in `start_next`, clearing the pin in `stop`, and a static timer handle.

## 7. Not modelled

- `init_clocks`, and the register values of the init functions other than what their behaviour needs. These are start-up configuration with no run-time state.
- The real period of LETIMER0 (`topValue` truncation at line 314), which is abstracted by the timing assumptions.
- The LINKREL link of the descriptor to the memory that follows it (`le_voltage_monitor.c:110-113`). The model assumes the channel stops after the done interrupt.
- Boot, advertising, the system ID, connection parameters, the GATT database and the byte order of `volt_buf`. They do not interact with the monitor.
- The Bluetooth stack itself, which is not in the repository.
