------------------------------ MODULE Gateway -------------------------------
(***************************************************************************)
(* The device: setup() and loop() (main.cpp) run the access point, the     *)
(* certificate, the settings and the update on one thread, and the power   *)
(* may go at any moment.  The bridges, which loop() runs too, are in       *)
(* modules MqttBridge and TcpProxy; here they are one step.                *)
(***************************************************************************)
EXTENDS CertStore, AccessPoint, Settings, FirmwareUpdate

VARIABLES
  pc,              \* the part of setup() or loop() that runs
  services,        \* loop()'s static variable staServicesStarted
  ssdpReady        \* _ssdpReady

loopVars == <<pc, services, ssdpReady>>
vars == <<certVars, apVars, saveVars, updateVars, loopVars>>

Parts == {"config", "wifi", "begin", "web", "save", "update", "manage",
          "services", "ssdp", "bridges"}

Init ==
  /\ CertInit /\ ApInit /\ SaveInit /\ UpdateInit
  /\ pc = "config" /\ services = FALSE /\ ssdpReady = FALSE

StationConfigured == cfg.ssid # NoText

\* What a part of the program leaves alone.
OnlyCert == UNCHANGED <<apVars, saveVars, updateVars, services, ssdpReady>>
OnlyAp == UNCHANGED <<certVars, saveVars, updateVars, services, ssdpReady>>
OnlySave == UNCHANGED <<certVars, apVars, updateVars, services, ssdpReady>>
OnlyUpdate == UNCHANGED <<certVars, apVars, saveVars, services, ssdpReady>>
OnlyLoop == UNCHANGED <<certVars, apVars, saveVars, updateVars>>

Goto(here, there) == pc = here /\ pc' = there

-----------------------------------------------------------------------------
(***************************************************************************)
(* setup(): the settings, the access point, the web server, the            *)
(* certificate (which may wait 15 s for the station).                      *)
(***************************************************************************)
SetupConfig == Goto("config", "wifi") /\ LoadConfig /\ OnlySave

SetupWifi == /\ pc = "wifi"
             /\ \/ StartAP /\ pc' = "wifi"
                \/ SoftAP /\ pc' = "begin"
             /\ OnlyAp

SetupCert ==
  /\ pc = "begin" /\ certStep # "ready"
  /\ \/ BeginCert \/ LoadCert \/ GenerateFails
     \/ \E chain \in Chains : Generate(chain)
     \/ \E b \in Blobs : Put(b)
  /\ pc' = IF certStep' = "ready" THEN "web" ELSE "begin"
  /\ OnlyCert

-----------------------------------------------------------------------------
(***************************************************************************)
(* webconfigLoop(): one request, or none.  A page that changes nothing is  *)
(* no request; a request that restarts or downloads takes several steps,   *)
(* in which nothing else runs.                                             *)
(***************************************************************************)
NoRequest == Goto("web", "manage") /\ OnlyLoop /\ UNCHANGED <<services, ssdpReady>>

ServeCa == Goto("web", "manage") /\ DownloadCa /\ OnlyCert

ServeSave ==
  /\ pc = "web" /\ OnlySave
  /\ \/ /\ pc' = "save"
        /\ \/ \E host \in Hosts : SubmitPrinter(host)
           \/ \E ssid \in Ssids : SubmitWifi(ssid)
           \/ SubmitOther
     \/ pc' = "manage" /\ \E host \in Hosts : RefuseHost(host)

FinishSave == pc = "save" /\ pc' = pc /\ (configSave \/ ReplySaved) /\ OnlySave

CanCheck == StationConfigured /\ station

ServeUpdate ==
  /\ pc = "web" /\ OnlyUpdate
  /\ \/ CheckUpdate(CanCheck) /\ pc' = "update"
     \/ RefuseUpdate(CanCheck) /\ pc' = "manage"

FinishUpdate ==
  /\ pc = "update" /\ OnlyUpdate
  /\ GetImage(station) \/ Download \/ WaitForever \/ EndUpdate
  /\ pc' = IF updateStep' = "idle" THEN "manage" ELSE "update"

-----------------------------------------------------------------------------
(***************************************************************************)
(* manageAP(), the services of the station, everything else.               *)
(***************************************************************************)
ManageAP ==
  /\ pc = "manage" /\ OnlyAp
  /\ \/ SampleStation \/ StopAP \/ LeaveAP(StationConfigured)
     \/ RestartAP(StationConfigured) \/ SoftAP
  /\ pc' = IF apStep' = "idle" THEN "services" ELSE "manage"

\* The services are started once, by the first turn that finds the station
\* connected; startStationServices() takes a second before it comes to SSDP.
StartServices ==
  /\ pc = "services" /\ OnlyLoop /\ UNCHANGED ssdpReady
  /\ services' = (services \/ station)
  /\ pc' = IF ~services /\ station THEN "ssdp" ELSE "bridges"

\* startSSDP(): nothing without an address, or when both ways to bind fail.
StartSSDP ==
  /\ Goto("ssdp", "bridges") /\ OnlyLoop /\ UNCHANGED services
  /\ \/ station /\ ssdpReady' = TRUE
     \/ UNCHANGED ssdpReady

Bridges == Goto("bridges", "web") /\ OnlyLoop /\ UNCHANGED <<services, ssdpReady>>

-----------------------------------------------------------------------------
\* ESP.restart(), a crash or a power cut: all but the flash and GitHub is lost.
PowerCycle ==
  /\ Forget /\ PowerOff /\ Unload /\ Reset
  /\ pc' = "config" /\ services' = FALSE /\ ssdpReady' = FALSE

Restart == (saveStep = "restart" \/ updateStep = "restart") /\ PowerCycle
PowerCut == PowerCycle

Environment ==
  /\ UNCHANGED pc
  /\ \/ saveStep = "idle" /\ StationChanges(StationConfigured) /\ OnlyAp
     \/ OnlyUpdate /\ ((\E v \in Versions : Publish(v)) \/ DownloadStalls)

Thread == \/ SetupConfig \/ SetupWifi \/ SetupCert
          \/ NoRequest \/ ServeCa \/ ServeSave \/ FinishSave
          \/ ServeUpdate \/ FinishUpdate
          \/ ManageAP \/ StartServices \/ StartSSDP \/ Bridges
          \/ Restart

Next == Thread \/ Environment \/ PowerCut

Spec == Init /\ [][Next]_vars

\* The thread runs as long as the device has power: loop() is called for ever and
\* no call waits without a limit, but for the loop of a download, whose wait is
\* a step that changes nothing.
FairSpec == Spec /\ WF_vars(Thread)

-----------------------------------------------------------------------------
TypeOK ==
  /\ CertTypeOK /\ ApTypeOK /\ SettingsTypeOK /\ UpdateTypeOK
  /\ pc \in Parts /\ services \in BOOLEAN /\ ssdpReady \in BOOLEAN

\* Between two turns of manageAP() the access point is missing only in a state
\* in which manageAP() would restart it (main.cpp, manageAP() and startAP());
\* new settings are followed by a restart of the device.
ApRecoverable == pc # "save" => DownIsRecoverable(StationConfigured)

\* Who wants to configure the gateway gets to it: the access point comes up
\* unless the station does (manageAP()).  What keeps it from it is a device that
\* restarts for ever, a download that hangs, or a softAP() that fails.
Reachable == []<><<PowerCycle>>_vars \/ []<>(apUp \/ station \/ stalled)
=============================================================================
