---------------------------- MODULE AccessPoint -----------------------------
(***************************************************************************)
(* The WiFi of the gateway: its own access point, through which it can     *)
(* always be configured, and the station that joins a home network.        *)
(* setup() starts the access point; manageAP(), in every turn of loop(),   *)
(* stops it when the station is connected and starts it again when the     *)
(* station is lost.  The station goes up and down at any moment.           *)
(***************************************************************************)
EXTENDS Naturals

CONSTANT
  SoftApFails      \* may WiFi.softAP() fail?

ASSUME SoftApAssumption == SoftApFails \in BOOLEAN

VARIABLES
  mode,            \* WiFi.getMode()
  apUp,            \* the access point is there
  station,         \* WiFi.isConnected()
  apStopped,       \* manageAP()'s static variable
  apStep,          \* where startAP() or manageAP() is
  staConnected     \* manageAP()'s local variable

apVars == <<mode, apUp, station, apStopped, apStep, staConnected>>

Modes == {"OFF", "STA", "AP_STA"}
ApSteps == {"off", "softAP", "idle", "manage"}

ApInit ==
  /\ mode = "OFF" /\ apUp = FALSE /\ station = FALSE
  /\ apStopped = FALSE /\ apStep = "off" /\ staConnected = FALSE

\* startAP(), which setup() calls with the same mode whether or not a station
\* is configured, up to its softAP() call.
StartAP ==
  /\ apStep = "off"
  /\ mode' = "AP_STA" /\ apStep' = "softAP"
  /\ UNCHANGED <<apUp, station, apStopped, staConnected>>

SoftAP ==
  /\ apStep = "softAP" /\ apStep' = "idle"
  /\ \/ apUp' = TRUE
     \/ SoftApFails /\ apUp' = FALSE
  /\ UNCHANGED <<mode, station, apStopped, staConnected>>

\* manageAP() asks for the station once and acts on the answer.
SampleStation ==
  /\ apStep = "idle"
  /\ staConnected' = station /\ apStep' = "manage"
  /\ UNCHANGED <<mode, apUp, station, apStopped>>

\* Variant: it does not look at the station.
StopAP_Always ==
  /\ apStep = "manage"
  /\ ~apStopped /\ mode = "AP_STA"
  /\ mode' = "STA" /\ apUp' = FALSE /\ apStopped' = TRUE
  /\ apStep' = "idle"
  /\ UNCHANGED <<station, staConnected>>

StopAP ==
  /\ apStep = "manage"
  /\ staConnected /\ ~apStopped /\ mode = "AP_STA"
  /\ mode' = "STA" /\ apUp' = FALSE /\ apStopped' = TRUE
  /\ apStep' = "idle"
  /\ UNCHANGED <<station, staConnected>>

\* Variant: the access point is not restarted once it was.
RestartAP_Once(configured) ==
  /\ apStep = "manage"
  /\ ~staConnected /\ ~apStopped /\ mode = "STA" /\ configured
  /\ mode' = "AP_STA" /\ apStep' = "softAP"
  /\ UNCHANGED <<apUp, station, apStopped, staConnected>>

RestartAP(configured) ==
  /\ apStep = "manage"
  /\ ~staConnected /\ mode = "STA" /\ configured
  /\ mode' = "AP_STA" /\ apStopped' = FALSE
  /\ apStep' = "softAP"
  /\ UNCHANGED <<apUp, station, staConnected>>

LeaveAP(configured) ==
  /\ apStep = "manage"
  /\ ~(staConnected /\ ~apStopped /\ mode = "AP_STA")
  /\ ~(~staConnected /\ mode = "STA" /\ configured)
  /\ apStep' = "idle"
  /\ UNCHANGED <<mode, apUp, station, apStopped, staConnected>>

\* The WiFi driver; it connects only a station that was configured at boot.
StationChanges(configured) ==
  /\ mode # "OFF" /\ configured
  /\ station' = ~station
  /\ UNCHANGED <<mode, apUp, apStopped, apStep, staConnected>>

PowerOff ==
  /\ mode' = "OFF" /\ apUp' = FALSE /\ station' = FALSE
  /\ apStopped' = FALSE /\ apStep' = "off" /\ staConnected' = FALSE

-----------------------------------------------------------------------------
ApTypeOK ==
  /\ mode \in Modes /\ apStep \in ApSteps
  /\ {apUp, station, apStopped, staConnected} \subseteq BOOLEAN

\* The access point is missing only while manageAP() will bring it back as
\* soon as it finds the station down (main.cpp, manageAP()): a station that is
\* configured, the mode and the flag that its second branch asks for.
DownIsRecoverable(configured) ==
  apStep \in {"idle", "manage"} /\ ~apUp
    => mode = "STA" /\ apStopped /\ configured
=============================================================================
