-------------------------------- MODULE App --------------------------------
(***************************************************************************)
(* The BLE application of app.c driving the voltage monitor: the handlers  *)
(* of sl_bt_on_event that call le_voltage_monitor_start_next,              *)
(* le_voltage_monitor_stop and le_voltage_monitor_get_average_mv.  The     *)
(* BLE stack delivers one event at a time in the main context, in any      *)
(* order relative to LE_MONITOR_SIGNAL; the LDMA interrupt still preempts  *)
(* the main context, and stop() still runs one statement at a time.        *)
(*                                                                         *)
(* Advertising, connection parameters, the GATT database and the encoding  *)
(* of the notification are left out: none of them touches the monitor.    *)
(***************************************************************************)
EXTENDS VoltageMonitor

VARIABLES
  connected,  \* a connection is open
  notifying,  \* the client has enabled notifications of avg_voltage_data
  awaiting,   \* the client subscribed and has had no notification since (history)
  readIdle    \* no LDMA session owned samplingBuffer when the last average was read (history)

appVars == <<connected, notifying, awaiting, readIdle>>
allVars == <<vars, appVars>>

\* le_voltage_monitor_start_next as a call: a no-op when startedSampling is
\* set, StartNext otherwise.
StartNextIgnored ==
  /\ CpuFree
  /\ startedSampling
  /\ UNCHANGED drvVars

StartNextCall == StartNext \/ StartNextIgnored

-----------------------------------------------------------------------------
\* app_init calls le_voltage_monitor_init; no connection yet.
AppInit ==
  /\ Init
  /\ connected = FALSE
  /\ notifying = FALSE
  /\ awaiting = FALSE
  /\ readIdle = TRUE

\* sl_bt_evt_connection_opened_id: store the handle, set the parameters.
ConnectionOpened ==
  /\ CpuFree
  /\ ~connected
  /\ connected' = TRUE
  /\ UNCHANGED <<notifying, awaiting, readIdle>>
  /\ UNCHANGED vars

\* sl_bt_evt_connection_closed_id: le_voltage_monitor_stop(), then restart
\* advertising.  The client's configuration is not kept.
ConnectionClosed ==
  /\ connected
  /\ StopBegin
  /\ connected' = FALSE
  /\ notifying' = FALSE
  /\ awaiting' = FALSE
  /\ UNCHANGED readIdle

\* Mutant of CccdEnable: le_voltage_monitor_start_next() not called.
CccdEnableNoStart ==
  /\ connected
  /\ CpuFree
  /\ UNCHANGED vars
  /\ notifying' = TRUE
  /\ awaiting' = TRUE
  /\ UNCHANGED <<connected, readIdle>>

\* sl_bt_evt_gatt_server_characteristic_status_id for avg_voltage_data with
\* gatt_server_client_config and flags other than gatt_disable.
CccdEnable ==
  /\ connected
  /\ StartNextCall
  /\ UNCHANGED extSignal
  /\ notifying' = TRUE
  /\ awaiting' = TRUE
  /\ UNCHANGED <<connected, readIdle>>

\* The same event with gatt_disable: le_voltage_monitor_stop().
CccdDisable ==
  /\ connected
  /\ StopBegin
  /\ notifying' = FALSE
  /\ awaiting' = FALSE
  /\ UNCHANGED <<connected, readIdle>>

\* sl_bt_evt_system_external_signal_id with LE_MONITOR_SIGNAL: read the
\* average, send it on connection_handle (whatever the connection and the
\* client configuration now are), then le_voltage_monitor_start_next().
SignalEvent ==
  /\ extSignal
  /\ extSignal' = FALSE
  /\ readIdle' = ~ldmaOn
  /\ awaiting' = FALSE
  /\ StartNextCall
  /\ UNCHANGED <<connected, notifying>>

\* The rest of stop() and the hardware leave the application alone.
DriverStep ==
  /\ StopIadc \/ StopFlag \/ StopLdma \/ HardwareStep
  /\ UNCHANGED appVars

AppNext ==
  \/ ConnectionOpened \/ ConnectionClosed \/ CccdEnable \/ CccdDisable
  \/ SignalEvent \/ DriverStep

\* The BLE stack eventually delivers a posted signal, even though each
\* pending LDMA interrupt briefly holds the main context off (strong
\* fairness); the client is under no obligation to do anything.
AppSpec == AppInit /\ [][AppNext]_allVars /\ Fairness /\ SF_allVars(SignalEvent)

-----------------------------------------------------------------------------
AppTypeOK ==
  /\ TypeOK
  /\ connected \in BOOLEAN
  /\ notifying \in BOOLEAN
  /\ awaiting \in BOOLEAN
  /\ readIdle \in BOOLEAN

(***************************************************************************)
(* While a client is subscribed, sampling does not die: whenever the main  *)
(* context is free and no completion signal waits for the signal handler,  *)
(* a session is running.  The CCCD handler starts one, the done interrupt  *)
(* hands over to the signal handler by posting LE_MONITOR_SIGNAL, and the  *)
(* signal handler starts the next; only the handlers that clear the        *)
(* subscription call stop().                                               *)
(***************************************************************************)
SamplingWhileSubscribed ==
  notifying /\ CpuFree /\ ~extSignal => startedSampling

\* The inductive strengthening of SamplingWhileSubscribed: the
\* driver's own strengthening, and stop() runs only from a handler that has
\* cleared the subscription.
AppIInv ==
  /\ IInv
  /\ AppTypeOK
  /\ pc # "idle" => ~notifying
  /\ SamplingWhileSubscribed

(***************************************************************************)
(* A client that enables notifications gets one: after the CCCD write,     *)
(* a session runs, its done interrupt posts the signal and the signal      *)
(* handler sends the average, unless the client unsubscribes or leaves     *)
(* first.  Involves the CCCD handler, start_next, the whole pipeline, the  *)
(* ISR and the external-signal handler.                                    *)
(***************************************************************************)
NotificationFollowsSubscription == awaiting ~> ~awaiting

(***************************************************************************)
(* When the client has disabled notifications (or disconnected) and the    *)
(* application has nothing left to handle, the monitor is not sampling:    *)
(* le_voltage_monitor_stop() called from the CCCD and connection-closed    *)
(* handlers ends sampling for good.                                        *)
(***************************************************************************)
SamplingOnlyWhileSubscribed ==
  CpuFree /\ ~extSignal /\ ~notifying => ~startedSampling

(***************************************************************************)
(* Spec 3 and 5: samplingBuffer belongs to the LDMA while a session is     *)
(* active, and the application reads it only after the completion signal. *)
(* So when the signal handler calls get_average_mv, no LDMA channel is     *)
(* armed on the buffer.  A CCCD enable handled while the signal is pending *)
(* calls start_next first, and the read then races the new session.       *)
(***************************************************************************)
AverageReadOnlyAfterCompletion == readIdle

=============================================================================
