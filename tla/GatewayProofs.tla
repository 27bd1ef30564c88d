--------------------------- MODULE GatewayProofs ----------------------------
(***************************************************************************)
(* Proofs about the device.  The certificate is proved about in its own    *)
(* specification, CertSpec, which the device is shown to implement; the    *)
(* other parts are proved about in the device's specification.             *)
(***************************************************************************)
EXTENDS Gateway, TLAPS

-----------------------------------------------------------------------------
(***************************************************************************)
(* The certificate, when putBytes() does not fail.  caDer is stored last:  *)
(* it is the mark that the other two are of the same chain.                *)
(***************************************************************************)
Uniform(store) == /\ store["certDer"] = store["caDer"]
                  /\ store["keyDer"] = store["caDer"]

CertInv ==
  /\ CertTypeOK
  /\ nvs["caDer"] # NoChain => Uniform(nvs)
  /\ certStep \in Blobs \cup {"generate"} => nvs["caDer"] = NoChain
  /\ certStep \in Blobs \cup {"ready"} => Uniform(ram)
  /\ certStep \in Blobs => ram["caDer"] # NoChain
  /\ certStep \in {"keyDer", "caDer"} => nvs["certDer"] = ram["certDer"]
  /\ certStep = "caDer" => nvs["keyDer"] = ram["keyDer"]
  /\ certStep = "ready" /\ ram["caDer"] # NoChain => nvs["caDer"] = ram["caDer"]
  /\ trusted \subseteq {nvs["caDer"]}

\* A blob is one of three.
LEMMA BlobCases == \A b \in Blobs : b = "certDer" \/ b = "keyDer" \/ b = "caDer"
  BY DEF Blobs

LEMMA CertInitInv == CertInit => CertInv
  BY ChainAssumption DEF CertInit, CertInv, CertTypeOK, Stores, CertSteps, Blobs,
     Empty, Uniform

\* A restart leaves everything but the flash behind.
LEMMA ForgetKeeps == CertInv /\ Forget => CertInv'
  BY DEF CertInv, CertTypeOK, Stores, CertSteps, Blobs, Empty, Uniform, Forget

LEMMA BeginKeeps == CertInv /\ BeginCert => CertInv'
  BY DEF CertInv, CertTypeOK, CertSteps, Blobs, Uniform, BeginCert

LEMMA LoadKeeps == CertInv /\ LoadCert => CertInv'
<1> SUFFICES ASSUME CertInv, LoadCert PROVE CertInv'
  OBVIOUS
<1> USE DEF CertInv, CertTypeOK, LoadCert, Stores, CertSteps, Blobs, Uniform
<1>1. CASE nvs["caDer"] # NoChain
  <2>1. \A b \in Blobs : nvs[b] # NoChain
    BY <1>1
  <2> QED BY <1>1, <2>1
<1>2. CASE nvs["caDer"] = NoChain
  BY <1>2
<1> QED BY <1>1, <1>2

LEMMA GenerateKeeps ==
  ASSUME NEW chain \in Chains
  PROVE  CertInv /\ Generate(chain) => CertInv'
  BY ChainAssumption DEF CertInv, CertTypeOK, Generate, Whole, Stores, CertSteps,
     Blobs, Uniform

LEMMA GenerateFailsKeeps == CertInv /\ GenerateFails => CertInv'
  BY DEF CertInv, CertTypeOK, GenerateFails, Empty, Stores, CertSteps, Blobs, Uniform

LEMMA PutKeeps ==
  ASSUME ~WritesFail, NEW b \in Blobs
  PROVE  CertInv /\ Put(b) => CertInv'
<1> SUFFICES ASSUME CertInv, Put(b) PROVE CertInv'
  OBVIOUS
<1> USE DEF CertInv, CertTypeOK, Stores, CertSteps, Uniform
<1>1. CASE b = "certDer"
  BY <1>1 DEF Put, AfterPut, Blobs
<1>2. CASE b = "keyDer"
  BY <1>2 DEF Put, AfterPut, Blobs
<1>3. CASE b = "caDer"
  <2>1. trusted = {}
    BY <1>3, ChainAssumption DEF Put, Blobs
  <2> QED BY <1>3, <2>1 DEF Put, AfterPut, Blobs
<1> QED BY <1>1, <1>2, <1>3, BlobCases

LEMMA DownloadKeeps == CertInv /\ DownloadCa => CertInv'
<1> SUFFICES ASSUME CertInv, DownloadCa PROVE CertInv'
  OBVIOUS
<1>1. trusted' \subseteq {nvs["caDer"]}
  BY DEF CertInv, DownloadCa
<1>2. trusted' \subseteq Chains
  BY DEF CertInv, CertTypeOK, DownloadCa, Stores, Blobs
<1> QED BY <1>1, <1>2 DEF CertInv, CertTypeOK, DownloadCa, Stores, CertSteps, Blobs, Uniform

LEMMA CertNextInv ==
  ASSUME ~WritesFail
  PROVE  CertInv /\ [CertNext]_certVars => CertInv'
<1> SUFFICES ASSUME CertInv, [CertNext]_certVars PROVE CertInv'
  OBVIOUS
<1>1. CASE UNCHANGED certVars
  BY <1>1 DEF certVars, CertInv, CertTypeOK, Uniform
<1>2. CASE CertNext
  BY <1>2, BeginKeeps, LoadKeeps, GenerateKeeps, GenerateFailsKeeps, PutKeeps,
     DownloadKeeps, ForgetKeeps DEF CertNext
<1> QED BY <1>1, <1>2

LEMMA CertAlways == ASSUME ~WritesFail PROVE CertSpec => []CertInv
  BY CertInitInv, CertNextInv, PTL DEF CertSpec

-----------------------------------------------------------------------------
(***************************************************************************)
(* What follows for the users of the certificate.                          *)
(***************************************************************************)
LEMMA CertInvPairs == CertInv => PairMatches
  BY BlobCases DEF CertInv, PairMatches, Uniform, Blobs

LEMMA CertInvTrust == CertInv => TrustHolds
  BY DEF CertInv, TrustHolds, Uniform, Blobs

LEMMA ChainInit == CertInit => Abstract!Init
  BY DEF CertInit, Abstract!Init, Stored, Shown, Empty, Blobs

LEMMA ChainStep ==
  ASSUME ~WritesFail
  PROVE  CertInv /\ CertInv' /\ [CertNext]_certVars => [Abstract!Next]_(Abstract!vars)
<1> SUFFICES ASSUME CertInv, CertInv', [CertNext]_certVars
             PROVE  [Abstract!Next]_(Abstract!vars)
  OBVIOUS
<1> USE DEF Stored, Shown
<1> HidesOrKeeps == Stored' = Stored /\ Shown' \in {NoChain, Shown}
<1>1. ASSUME HidesOrKeeps PROVE [Abstract!Next]_(Abstract!vars)
  BY <1>1 DEF Abstract!Next, Abstract!Hide, Abstract!vars
<1>2. CASE UNCHANGED certVars
  BY <1>1, <1>2 DEF certVars
<1>3. CASE BeginCert \/ GenerateFails \/ DownloadCa \/ Forget
  BY <1>1, <1>3 DEF BeginCert, GenerateFails, DownloadCa, Forget, Empty, Blobs
<1>4. ASSUME NEW chain \in Chains, Generate(chain)
      PROVE  [Abstract!Next]_(Abstract!vars)
  BY <1>1, <1>4 DEF Generate
<1>5. CASE LoadCert
  <2>1. CASE certStep' = "ready"
    <3>1. nvs["caDer"] # NoChain /\ Shown' = Stored /\ Stored' = Stored
      BY <1>5, <2>1 DEF LoadCert, Blobs, CertInv, Uniform
    <3> QED BY <3>1 DEF Abstract!Next, Abstract!Show
  <2>2. CASE certStep' # "ready"
    BY <1>1, <1>5, <2>2 DEF LoadCert
  <2> QED BY <2>1, <2>2
<1>6. ASSUME NEW b \in Blobs, Put(b) PROVE [Abstract!Next]_(Abstract!vars)
  <2>1. CASE b # "caDer"
    BY <1>1, <1>6, <2>1, BlobCases DEF Put, AfterPut, CertInv, CertTypeOK, Stores, Blobs
  <2>2. CASE b = "caDer"
    <3>1. /\ Stored = NoChain /\ Stored' = ram["caDer"] /\ Stored' \in Chains
          /\ Shown' = ram["certDer"] /\ ram["certDer"] = ram["caDer"]
      BY <1>6, <2>2 DEF Put, AfterPut, CertInv, CertTypeOK, Stores, Blobs, Uniform
    <3> QED BY <3>1 DEF Abstract!Next, Abstract!Choose
  <2> QED BY <2>1, <2>2
<1> QED BY <1>2, <1>3, <1>4, <1>5, <1>6 DEF CertNext

\* The store behaves as the one chain of OneChain, whatever restarts and
\* half-written flashes there are.
THEOREM StoreIsOneChain == ASSUME ~WritesFail PROVE CertSpec => ImplementsOneChain
<1>1. CertSpec => []CertInv
  BY CertAlways
<1> QED BY <1>1, ChainInit, ChainStep, PTL DEF CertSpec, ImplementsOneChain, Abstract!Spec

-----------------------------------------------------------------------------
(***************************************************************************)
(* The device implements the store: what other parts do leaves it alone.   *)
(***************************************************************************)
LEMMA StepIsCertStep == [Next]_vars => [CertNext]_certVars
<1> SUFFICES ASSUME [Next]_vars PROVE [CertNext]_certVars
  OBVIOUS
<1>1. CASE UNCHANGED vars
  BY <1>1 DEF vars
<1>2. CASE SetupCert
  BY <1>2 DEF SetupCert, CertNext
<1>3. CASE ServeCa
  BY <1>3 DEF ServeCa, CertNext
<1>4. CASE Restart \/ PowerCut
  BY <1>4 DEF Restart, PowerCut, PowerCycle, CertNext
<1>5. CASE SetupWifi \/ ManageAP
  BY <1>5 DEF SetupWifi, ManageAP, OnlyAp
<1>6. CASE SetupConfig \/ ServeSave \/ FinishSave
  BY <1>6 DEF SetupConfig, ServeSave, FinishSave, OnlySave
<1>7. CASE ServeUpdate \/ FinishUpdate
  BY <1>7 DEF ServeUpdate, FinishUpdate, OnlyUpdate
<1>8. CASE NoRequest \/ StartServices \/ StartSSDP \/ Bridges
  BY <1>8 DEF NoRequest, StartServices, StartSSDP, Bridges, OnlyLoop
<1>9. CASE Environment
  BY <1>9 DEF Environment, OnlyAp, OnlyUpdate
<1> QED BY <1>1, <1>2, <1>3, <1>4, <1>5, <1>6, <1>7, <1>8, <1>9 DEF Next, Thread

LEMMA DeviceImplementsStore == Spec => CertSpec
<1>1. Init => CertInit
  BY DEF Init
<1> QED BY <1>1, StepIsCertStep, PTL DEF Spec, CertSpec

\* The TLS server of the device never mixes chains.
THEOREM PairsMatch == ASSUME ~WritesFail PROVE Spec => []PairMatches
  BY DeviceImplementsStore, CertAlways, CertInvPairs, PTL

\* A CA that was downloaded once stays good.
THEOREM TrustStays == ASSUME ~WritesFail PROVE Spec => []TrustHolds
  BY DeviceImplementsStore, CertAlways, CertInvTrust, PTL

\* The device presents one chain to the network.
THEOREM DeviceIsOneChain == ASSUME ~WritesFail PROVE Spec => ImplementsOneChain
  BY DeviceImplementsStore, StoreIsOneChain, PTL

-----------------------------------------------------------------------------
(***************************************************************************)
(* The settings.                                                           *)
(***************************************************************************)
SaveStepOf == LoadConfig \/ (\E host \in Hosts : SubmitPrinter(host) \/ RefuseHost(host))
              \/ (\E ssid \in Ssids : SubmitWifi(ssid)) \/ SubmitOther
              \/ configSave \/ ReplySaved \/ Unload

LEMMA StepIsSaveStep == [Next]_vars => [SaveStepOf]_saveVars
<1> SUFFICES ASSUME [Next]_vars PROVE [SaveStepOf]_saveVars
  OBVIOUS
<1>1. CASE UNCHANGED vars
  BY <1>1 DEF vars
<1>2. CASE SetupCert \/ ServeCa
  BY <1>2 DEF SetupCert, ServeCa, OnlyCert
<1>3. CASE SetupConfig \/ ServeSave \/ FinishSave
  BY <1>3 DEF SetupConfig, ServeSave, FinishSave, SaveStepOf
<1>4. CASE Restart \/ PowerCut
  BY <1>4 DEF Restart, PowerCut, PowerCycle, SaveStepOf
<1>5. CASE SetupWifi \/ ManageAP
  BY <1>5 DEF SetupWifi, ManageAP, OnlyAp
<1>7. CASE ServeUpdate \/ FinishUpdate
  BY <1>7 DEF ServeUpdate, FinishUpdate, OnlyUpdate
<1>8. CASE NoRequest \/ StartServices \/ StartSSDP \/ Bridges
  BY <1>8 DEF NoRequest, StartServices, StartSSDP, Bridges, OnlyLoop
<1>9. CASE Environment
  BY <1>9 DEF Environment, OnlyAp, OnlyUpdate
<1> QED BY <1>1, <1>2, <1>3, <1>4, <1>5, <1>7, <1>8, <1>9 DEF Next, Thread

\* The texts fit into the record's fields.
TextsFit == \A text \in Hosts \cup Ssids : Cut[text] = text

\* What is stored is what is told, from the moment it is stored.
SaveInv ==
  /\ SettingsTypeOK
  /\ saveStep \in {"save", "reply"} => told = Unwritten
  /\ saveStep \in {"save", "reply", "restart"} => cfg = typed
  /\ saveStep \in {"reply", "restart"} => eeprom = cfg
  /\ told # Unwritten => eeprom = told
  /\ saveStep # "off" /\ told # Unwritten => cfg = told

LEMMA SaveInitInv == SaveInit => SaveInv
  BY SettingsAssumption DEF SaveInit, SaveInv, SettingsTypeOK, Configs, Defaults, SaveSteps

LEMMA SubmitKeeps ==
  ASSUME NEW new \in Configs
  PROVE  SaveInv /\ Submit(new, new) => SaveInv'
  BY DEF SaveInv, SettingsTypeOK, SaveSteps, Submit

LEMMA SaveStepInv ==
  ASSUME ~CommitFails, TextsFit, Unwritten \notin Configs
  PROVE  SaveInv /\ [SaveStepOf]_saveVars => SaveInv'
<1> SUFFICES ASSUME SaveInv, [SaveStepOf]_saveVars PROVE SaveInv'
  OBVIOUS
<1>1. CASE UNCHANGED saveVars
  BY <1>1 DEF saveVars, SaveInv, SettingsTypeOK
<1>2. CASE LoadConfig
  BY <1>2, SettingsAssumption DEF LoadConfig, SaveInv, SettingsTypeOK, Configs, Defaults, SaveSteps
<1>3. ASSUME NEW host \in Hosts, SubmitPrinter(host) PROVE SaveInv'
  <2>1. Cut[host] = host /\ [cfg EXCEPT !.host = host] \in Configs
    BY DEF TextsFit, SaveInv, SettingsTypeOK, Configs
  <2> QED BY <1>3, <2>1, SubmitKeeps DEF SubmitPrinter
<1>4. ASSUME NEW ssid \in Ssids, SubmitWifi(ssid) PROVE SaveInv'
  <2>1. Cut[ssid] = ssid /\ [cfg EXCEPT !.ssid = ssid] \in Configs
    BY DEF TextsFit, SaveInv, SettingsTypeOK, Configs
  <2> QED BY <1>4, <2>1, SubmitKeeps DEF SubmitWifi
<1>5. CASE SubmitOther
  BY <1>5, SubmitKeeps DEF SubmitOther, SaveInv, SettingsTypeOK
<1>6. ASSUME NEW host \in Hosts, RefuseHost(host) PROVE SaveInv'
  BY <1>1, <1>6 DEF RefuseHost
<1>7. CASE configSave
  BY <1>7 DEF configSave, SaveInv, SettingsTypeOK, SaveSteps
<1>8. CASE ReplySaved
  BY <1>8 DEF ReplySaved, SaveInv, SettingsTypeOK, SaveSteps
<1>9. CASE Unload
  BY <1>9, SettingsAssumption DEF Unload, SaveInv, SettingsTypeOK, Configs, Defaults, SaveSteps
<1> QED BY <1>1, <1>2, <1>3, <1>4, <1>5, <1>6, <1>7, <1>8, <1>9 DEF SaveStepOf

\* The gateway runs with the settings it said it had saved, when the EEPROM
\* takes them and the texts fit.
THEOREM SavedStays ==
  ASSUME ~CommitFails, TextsFit, Unwritten \notin Configs
  PROVE  Spec => []SavedIsUsed
<1>1. Init => SaveInv
  BY SaveInitInv DEF Init
<1>2. SaveInv /\ [Next]_vars => SaveInv'
  BY StepIsSaveStep, SaveStepInv
<1>3. SaveInv => SavedIsUsed
  BY DEF SaveInv, SavedIsUsed
<1> QED BY <1>1, <1>2, <1>3, PTL DEF Spec

-----------------------------------------------------------------------------
(***************************************************************************)
(* The access point.  A station that is up, or was when manageAP() asked,  *)
(* is configured; the settings change only in front of a restart.          *)
(***************************************************************************)
ApInv ==
  /\ ApTypeOK
  /\ pc = "config" => mode = "OFF" /\ apStep = "off" /\ ~station /\ ~staConnected
  /\ pc # "save" /\ (station \/ staConnected) => StationConfigured
  /\ ApRecoverable

\* A step of another part: the access point and the settings stay.
LEMMA ApUntouched ==
  ASSUME ApInv, UNCHANGED <<apVars, saveVars>>, pc # "save", pc' # "config"
  PROVE  ApInv'
  BY DEF ApInv, ApTypeOK, ApRecoverable, DownIsRecoverable, StationConfigured,
     apVars, saveVars

LEMMA ApSteps_Keep ==
  ASSUME ~SoftApFails, ApInv, UNCHANGED cfg, pc # "save", pc' # "save", pc' # "config",
         \/ StartAP \/ SoftAP \/ SampleStation \/ StopAP
         \/ RestartAP(StationConfigured) \/ LeaveAP(StationConfigured)
         \/ StationChanges(StationConfigured)
  PROVE  ApInv'
<1> USE DEF ApInv, ApTypeOK, ApRecoverable, DownIsRecoverable, StationConfigured,
            Modes, ApSteps
<1>1. CASE StartAP
  BY <1>1 DEF StartAP
<1>2. CASE SoftAP
  BY <1>2 DEF SoftAP
<1>3. CASE SampleStation
  BY <1>3 DEF SampleStation
<1>4. CASE StopAP
  BY <1>4 DEF StopAP
<1>5. CASE RestartAP(StationConfigured)
  BY <1>5 DEF RestartAP
<1>6. CASE LeaveAP(StationConfigured)
  BY <1>6 DEF LeaveAP
<1>7. CASE StationChanges(StationConfigured)
  BY <1>7 DEF StationChanges
<1> QED BY <1>1, <1>2, <1>3, <1>4, <1>5, <1>6, <1>7

LEMMA ApStepInv == ASSUME ~SoftApFails PROVE ApInv /\ [Next]_vars => ApInv'
<1> SUFFICES ASSUME ApInv, [Next]_vars PROVE ApInv'
  OBVIOUS
<1>1. CASE UNCHANGED vars
  BY <1>1 DEF vars, loopVars, apVars, saveVars, ApInv, ApTypeOK, ApRecoverable,
     DownIsRecoverable, StationConfigured
<1>2. CASE Restart \/ PowerCut
  BY <1>2 DEF Restart, PowerCut, PowerCycle, PowerOff, ApInv, ApTypeOK, ApRecoverable,
     DownIsRecoverable, StationConfigured, Modes, ApSteps
<1>3. CASE SetupConfig
  BY <1>3 DEF SetupConfig, Goto, OnlySave, apVars, ApInv, ApTypeOK, ApRecoverable,
     DownIsRecoverable, StationConfigured
<1>4. CASE SetupWifi
  BY <1>4, ApSteps_Keep DEF SetupWifi, OnlyAp, saveVars
<1>5. CASE ManageAP
  BY <1>5, ApSteps_Keep DEF ManageAP, OnlyAp, saveVars
<1>6. CASE Environment
  <2>1. CASE StationChanges(StationConfigured) /\ OnlyAp
    <3>1. CASE pc = "save"
      BY <1>6, <2>1, <3>1 DEF Environment, StationChanges, OnlyAp, saveVars, ApInv,
         ApTypeOK, ApRecoverable
    <3>2. CASE pc = "config"
      BY <2>1, <3>2 DEF StationChanges, ApInv
    <3>3. CASE pc # "save" /\ pc # "config"
      BY <1>6, <2>1, <3>3, ApSteps_Keep DEF Environment, OnlyAp, saveVars
    <3> QED BY <3>1, <3>2, <3>3
  <2>2. CASE OnlyUpdate
    BY <1>6, <2>2 DEF Environment, OnlyUpdate, apVars, saveVars, ApInv, ApTypeOK,
       ApRecoverable, DownIsRecoverable, StationConfigured
  <2> QED BY <1>6, <2>1, <2>2 DEF Environment
<1>7. CASE FinishSave \/ ServeSave
  <2>1. UNCHANGED apVars /\ pc' # "config"
    BY <1>7 DEF FinishSave, ServeSave, OnlySave
  <2>2. CASE pc' = "save"
    BY <2>1, <2>2 DEF apVars, ApInv, ApTypeOK, ApRecoverable
  <2>3. CASE pc' # "save"
    BY <1>7, <2>1, <2>3, ApUntouched DEF FinishSave, ServeSave, RefuseHost
  <2> QED BY <2>2, <2>3
<1>8. CASE SetupCert \/ ServeCa
  BY <1>8, ApUntouched DEF SetupCert, ServeCa, Goto, OnlyCert
<1>9. CASE ServeUpdate \/ FinishUpdate
  BY <1>9, ApUntouched DEF ServeUpdate, FinishUpdate, OnlyUpdate
<1>10. CASE NoRequest \/ StartServices \/ StartSSDP \/ Bridges
  BY <1>10, ApUntouched DEF NoRequest, StartServices, StartSSDP, Bridges, Goto, OnlyLoop
<1> QED BY <1>1, <1>2, <1>3, <1>4, <1>5, <1>6, <1>7, <1>8, <1>9, <1>10 DEF Next, Thread

\* manageAP() can always bring the access point back.
THEOREM ApComesBack == ASSUME ~SoftApFails PROVE Spec => []ApRecoverable
<1>1. Init => ApInv
  BY DEF Init, ApInit, ApInv, ApTypeOK, ApRecoverable, DownIsRecoverable,
     StationConfigured, Modes, ApSteps
<1>2. ApInv => ApRecoverable
  BY DEF ApInv
<1> QED BY <1>1, <1>2, ApStepInv, PTL DEF Spec

\* The station is up or down, whatever softAP() does.
LEMMA StationIsBoolean == station \in BOOLEAN /\ [Next]_vars => station' \in BOOLEAN
<1> SUFFICES ASSUME station \in BOOLEAN, [Next]_vars PROVE station' \in BOOLEAN
  OBVIOUS
<1>1. CASE UNCHANGED vars
  BY <1>1 DEF vars, apVars
<1>2. CASE Restart \/ PowerCut
  BY <1>2 DEF Restart, PowerCut, PowerCycle, PowerOff
<1>3. CASE SetupWifi \/ ManageAP
  BY <1>3 DEF SetupWifi, ManageAP, StartAP, SoftAP, SampleStation, StopAP, RestartAP, LeaveAP
<1>4. CASE Environment
  BY <1>4 DEF Environment, StationChanges, OnlyUpdate, apVars
<1>5. CASE SetupCert \/ ServeCa
  BY <1>5 DEF SetupCert, ServeCa, OnlyCert, apVars
<1>6. CASE SetupConfig \/ ServeSave \/ FinishSave
  BY <1>6 DEF SetupConfig, ServeSave, FinishSave, OnlySave, apVars
<1>7. CASE ServeUpdate \/ FinishUpdate
  BY <1>7 DEF ServeUpdate, FinishUpdate, OnlyUpdate, apVars
<1>8. CASE NoRequest \/ StartServices \/ StartSSDP \/ Bridges
  BY <1>8 DEF NoRequest, StartServices, StartSSDP, Bridges, OnlyLoop, apVars
<1> QED BY <1>1, <1>2, <1>3, <1>4, <1>5, <1>6, <1>7, <1>8 DEF Next, Thread

-----------------------------------------------------------------------------
(***************************************************************************)
(* The update.                                                             *)
(***************************************************************************)
UpdateStepOf ==
  \/ (\E v \in Versions : Publish(v)) \/ (\E c \in BOOLEAN : RefuseUpdate(c) \/ CheckUpdate(c))
  \/ (\E o \in BOOLEAN : GetImage(o)) \/ Download \/ DownloadStalls \/ WaitForever
  \/ EndUpdate \/ Reset

LEMMA StepIsUpdateStep ==
  ASSUME CanCheck \in BOOLEAN, station \in BOOLEAN
  PROVE  [Next]_vars => [UpdateStepOf]_updateVars
<1> SUFFICES ASSUME [Next]_vars PROVE [UpdateStepOf]_updateVars
  OBVIOUS
<1>1. CASE UNCHANGED vars
  BY <1>1 DEF vars
<1>2. CASE SetupCert \/ ServeCa
  BY <1>2 DEF SetupCert, ServeCa, OnlyCert
<1>3. CASE SetupConfig \/ ServeSave \/ FinishSave
  BY <1>3 DEF SetupConfig, ServeSave, FinishSave, OnlySave
<1>4. CASE Restart \/ PowerCut
  BY <1>4 DEF Restart, PowerCut, PowerCycle, UpdateStepOf
<1>5. CASE SetupWifi \/ ManageAP
  BY <1>5 DEF SetupWifi, ManageAP, OnlyAp
<1>6. CASE ServeUpdate
  BY <1>6 DEF ServeUpdate, UpdateStepOf
<1>7. CASE FinishUpdate
  BY <1>7 DEF FinishUpdate, UpdateStepOf
<1>8. CASE NoRequest \/ StartServices \/ StartSSDP \/ Bridges
  BY <1>8 DEF NoRequest, StartServices, StartSSDP, Bridges, OnlyLoop
<1>9. CASE Environment
  BY <1>9 DEF Environment, OnlyAp, UpdateStepOf
<1> QED BY <1>1, <1>2, <1>3, <1>4, <1>5, <1>6, <1>7, <1>8, <1>9 DEF Next, Thread

\* From the check on, the release and the image are newer than what runs: the
\* latest release only ever becomes newer.
UpdateInv ==
  /\ UpdateTypeOK
  /\ updateStep = "download" => image.pieces < Pieces
  /\ updateStep = "end" => image.pieces = Pieces
  /\ checked /\ updateStep = "get" => release > running
  /\ checked /\ updateStep \in {"download", "end"} => image.version > running

LEMMA UpdateStepInv == UpdateInv /\ [UpdateStepOf]_updateVars => UpdateInv'
<1> SUFFICES ASSUME UpdateInv, [UpdateStepOf]_updateVars PROVE UpdateInv'
  OBVIOUS
<1> USE UpdateAssumption DEF UpdateInv, UpdateTypeOK, UpdateSteps, Versions
<1>1. CASE UNCHANGED updateVars
  BY <1>1 DEF updateVars
<1>2. ASSUME NEW v \in Versions, Publish(v) PROVE UpdateInv'
  BY <1>2 DEF Publish
<1>3. ASSUME NEW c \in BOOLEAN, RefuseUpdate(c) \/ CheckUpdate(c) PROVE UpdateInv'
  BY <1>3 DEF RefuseUpdate, CheckUpdate, updateVars
<1>4. ASSUME NEW o \in BOOLEAN, GetImage(o) PROVE UpdateInv'
  BY <1>4 DEF GetImage
<1>5. CASE Download
  BY <1>5 DEF Download
<1>6. CASE DownloadStalls \/ WaitForever
  <2>1. UNCHANGED <<running, boots, release, updateStep, image, checked>>
    BY <1>6 DEF DownloadStalls, WaitForever, updateVars
  <2>2. stalled' \in BOOLEAN
    BY <1>6, Zenon DEF DownloadStalls, WaitForever, updateVars
  <2> QED BY <2>1, <2>2
<1>7. CASE EndUpdate
  BY <1>7 DEF EndUpdate
<1>8. CASE Reset
  <2>1. /\ running' = boots /\ boots' = boots /\ release' = release
        /\ updateStep' = "idle" /\ image' = [version |-> 1, pieces |-> 0]
        /\ stalled' \in BOOLEAN /\ checked' \in BOOLEAN
    BY <1>8, Zenon DEF Reset, NoImage
  <2> QED BY <2>1
<1> QED BY <1>1, <1>2, <1>3, <1>4, <1>5, <1>6, <1>7, <1>8 DEF UpdateStepOf

LEMMA UpdateStepInstalls ==
  UpdateInv /\ [UpdateStepOf]_updateVars
    => [boots' # boots => /\ image.pieces = Pieces
                          /\ checked => boots' > running]_updateVars
<1> SUFFICES ASSUME UpdateInv, UpdateStepOf, boots' # boots
             PROVE  image.pieces = Pieces /\ (checked => boots' > running)
  OBVIOUS
<1>1. EndUpdate
  BY DEF UpdateStepOf, Publish, RefuseUpdate, CheckUpdate, GetImage, Download,
     DownloadStalls, WaitForever, Reset, updateVars
<1> QED BY <1>1 DEF EndUpdate, UpdateInv

LEMMA UpdateInitInv == UpdateInit => UpdateInv
<1> SUFFICES ASSUME UpdateInit PROVE UpdateInv
  OBVIOUS
<1>1. stalled \in BOOLEAN /\ checked \in BOOLEAN
  BY Zenon DEF UpdateInit
<1> QED BY <1>1, UpdateAssumption
        DEF UpdateInit, UpdateInv, UpdateTypeOK, UpdateSteps, Versions, NoImage

\* Whatever is installed is whole, and newer if the check was made, although
\* releases are published between the check and the download.
THEOREM UpdateIsSound == Spec => InstallsChecked
<1>1. Init => UpdateInv
  BY UpdateInitInv DEF Init
<1>2. CanCheck \in BOOLEAN
  BY DEF CanCheck
<1>3. Spec => [](station \in BOOLEAN)
  <2>1. Init => station \in BOOLEAN
    BY DEF Init, ApInit
  <2>2. station \in BOOLEAN /\ [Next]_vars => (station \in BOOLEAN)'
    BY StationIsBoolean
  <2> QED BY <2>1, <2>2, PTL DEF Spec
<1>4. station \in BOOLEAN /\ UpdateInv /\ [Next]_vars => UpdateInv'
  BY <1>2, StepIsUpdateStep, UpdateStepInv
<1>5. station \in BOOLEAN /\ UpdateInv /\ [Next]_vars
        => [boots' # boots => /\ image.pieces = Pieces
                              /\ checked => boots' > running]_updateVars
  BY <1>2, StepIsUpdateStep, UpdateStepInstalls
<1> QED BY <1>1, <1>3, <1>4, <1>5, PTL DEF Spec, InstallsChecked

-----------------------------------------------------------------------------
(***************************************************************************)
(* Types, whatever fails.                                                  *)
(***************************************************************************)
LEMMA CertTypes == CertTypeOK /\ [CertNext]_certVars => CertTypeOK'
<1> SUFFICES ASSUME CertTypeOK, [CertNext]_certVars PROVE CertTypeOK'
  OBVIOUS
<1> USE DEF CertTypeOK, Stores, CertSteps
<1>1. CASE UNCHANGED certVars
  BY <1>1 DEF certVars
<1>2. CASE BeginCert \/ LoadCert
  BY <1>2 DEF BeginCert, LoadCert
<1>3. CASE GenerateFails \/ Forget
  BY <1>3 DEF GenerateFails, Forget, Empty
<1>4. CASE DownloadCa
  BY <1>4 DEF DownloadCa, Blobs
<1>5. ASSUME NEW chain \in Chains, Generate(chain) PROVE CertTypeOK'
  BY <1>5 DEF Generate, Whole, Blobs
<1>6. ASSUME NEW b \in Blobs, Put(b) PROVE CertTypeOK'
  <2>1. certStep' \in CertSteps
    BY <1>6, BlobCases DEF Put, AfterPut, Blobs
  <2>2. nvs' \in Stores
    BY <1>6 DEF Put
  <2> QED BY <1>6, <2>1, <2>2 DEF Put
<1> QED BY <1>1, <1>2, <1>3, <1>4, <1>5, <1>6 DEF CertNext

LEMMA SaveTypes == SettingsTypeOK /\ [SaveStepOf]_saveVars => SettingsTypeOK'
<1> SUFFICES ASSUME SettingsTypeOK, [SaveStepOf]_saveVars PROVE SettingsTypeOK'
  OBVIOUS
<1> USE SettingsAssumption DEF SettingsTypeOK, Configs, Defaults, SaveSteps
<1>1. CASE UNCHANGED saveVars
  BY <1>1 DEF saveVars
<1>2. CASE LoadConfig \/ Unload \/ configSave \/ ReplySaved \/ SubmitOther
  BY <1>2 DEF LoadConfig, Unload, configSave, ReplySaved, SubmitOther, Submit
<1>3. ASSUME NEW host \in Hosts, SubmitPrinter(host) \/ RefuseHost(host)
      PROVE  SettingsTypeOK'
  BY <1>3 DEF SubmitPrinter, Submit, RefuseHost, saveVars
<1>4. ASSUME NEW ssid \in Ssids, SubmitWifi(ssid) PROVE SettingsTypeOK'
  BY <1>4 DEF SubmitWifi, Submit
<1> QED BY <1>1, <1>2, <1>3, <1>4 DEF SaveStepOf

LEMMA ApTypes == ApTypeOK /\ [Next]_vars => ApTypeOK'
<1> SUFFICES ASSUME ApTypeOK, [Next]_vars PROVE ApTypeOK'
  OBVIOUS
<1> USE DEF ApTypeOK, Modes, ApSteps
<1>1. CASE UNCHANGED apVars
  BY <1>1 DEF apVars
<1>2. CASE Restart \/ PowerCut
  BY <1>2 DEF Restart, PowerCut, PowerCycle, PowerOff
<1>3. CASE SetupWifi \/ ManageAP
  BY <1>3 DEF SetupWifi, ManageAP, StartAP, SoftAP, SampleStation, StopAP, RestartAP, LeaveAP
<1>4. CASE Environment
  BY <1>1, <1>4 DEF Environment, StationChanges, OnlyUpdate
<1>5. CASE SetupCert \/ ServeCa \/ SetupConfig \/ ServeSave \/ FinishSave
           \/ ServeUpdate \/ FinishUpdate
  BY <1>1, <1>5 DEF SetupCert, ServeCa, OnlyCert, SetupConfig, ServeSave, FinishSave,
     OnlySave, ServeUpdate, FinishUpdate, OnlyUpdate
<1>6. CASE NoRequest \/ StartServices \/ StartSSDP \/ Bridges
  BY <1>1, <1>6 DEF NoRequest, StartServices, StartSSDP, Bridges, OnlyLoop
<1> QED BY <1>1, <1>2, <1>3, <1>4, <1>5, <1>6 DEF Next, Thread, vars

LoopTypeOK == pc \in Parts /\ services \in BOOLEAN /\ ssdpReady \in BOOLEAN

LEMMA LoopTypes == LoopTypeOK /\ station \in BOOLEAN /\ [Next]_vars => LoopTypeOK'
<1> SUFFICES ASSUME LoopTypeOK, station \in BOOLEAN, [Next]_vars PROVE LoopTypeOK'
  OBVIOUS
<1> USE DEF LoopTypeOK, Parts
<1>1. CASE UNCHANGED loopVars
  BY <1>1 DEF loopVars
<1>2. CASE Restart \/ PowerCut
  BY <1>2 DEF Restart, PowerCut, PowerCycle
<1>3. CASE SetupCert \/ ServeCa
  BY <1>3 DEF SetupCert, ServeCa, OnlyCert, Goto
<1>4. CASE SetupConfig \/ ServeSave \/ FinishSave
  BY <1>4 DEF SetupConfig, ServeSave, FinishSave, OnlySave, Goto
<1>5. CASE SetupWifi \/ ManageAP \/ Environment
  BY <1>5 DEF SetupWifi, ManageAP, Environment, OnlyAp, OnlyUpdate
<1>6. CASE ServeUpdate \/ FinishUpdate
  BY <1>6 DEF ServeUpdate, FinishUpdate, OnlyUpdate
<1>7. CASE NoRequest \/ StartServices \/ StartSSDP \/ Bridges
  BY <1>7 DEF NoRequest, StartServices, StartSSDP, Bridges, OnlyLoop, Goto
<1> QED BY <1>1, <1>2, <1>3, <1>4, <1>5, <1>6, <1>7 DEF Next, Thread, vars

\* Every variable of the device keeps its type, whatever fails.
THEOREM DeviceTypes == Spec => []TypeOK
<1> DEFINE Inv == CertTypeOK /\ ApTypeOK /\ SettingsTypeOK /\ UpdateInv /\ LoopTypeOK
<1>1. Init => Inv
  <2> SUFFICES ASSUME Init PROVE Inv
    OBVIOUS
  <2>1. CertTypeOK
    BY DEF Init, CertInit, CertTypeOK, Stores, CertSteps, Empty
  <2>2. ApTypeOK
    BY DEF Init, ApInit, ApTypeOK, Modes, ApSteps
  <2>3. SettingsTypeOK
    BY SaveInitInv DEF Init, SaveInv
  <2>4. UpdateInv
    BY UpdateInitInv DEF Init
  <2>5. LoopTypeOK
    BY DEF Init, LoopTypeOK, Parts
  <2> QED BY <2>1, <2>2, <2>3, <2>4, <2>5
<1>2. Inv /\ [Next]_vars => Inv'
  <2> SUFFICES ASSUME Inv, [Next]_vars PROVE Inv'
    OBVIOUS
  <2>1. CertTypeOK'
    BY StepIsCertStep, CertTypes
  <2>2. ApTypeOK'
    BY ApTypes
  <2>3. SettingsTypeOK'
    BY StepIsSaveStep, SaveTypes
  <2>4. UpdateInv'
    BY StepIsUpdateStep, UpdateStepInv DEF ApTypeOK, CanCheck
  <2>5. LoopTypeOK'
    BY LoopTypes DEF ApTypeOK
  <2> QED BY <2>1, <2>2, <2>3, <2>4, <2>5
<1>3. Inv => TypeOK
  BY DEF TypeOK, UpdateInv, LoopTypeOK
<1> QED BY <1>1, <1>2, <1>3, PTL DEF Spec
=============================================================================
