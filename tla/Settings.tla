------------------------------ MODULE Settings ------------------------------
(***************************************************************************)
(* The settings: a record in the EEPROM and the copy the program works     *)
(* with.  handleSave() changes the copy, stores it, answers "Saved!" and   *)
(* restarts the device.  The power may go at any moment.                   *)
(***************************************************************************)
EXTENDS Naturals

CONSTANTS
  Hosts,           \* what users type as the printer's address
  ValidHosts,      \* those that isValidHost() lets pass
  Ssids,           \* the station names users type
  NoText,          \* the empty text, in Hosts (the default) and Ssids
  Cut,             \* what strlcpy() leaves of a text
  CommitFails,     \* may EEPROM.commit() fail?
  Unwritten        \* an EEPROM without the magic byte

ASSUME SettingsAssumption ==
  /\ ValidHosts \subseteq Hosts \ {NoText} /\ NoText \in Hosts \cap Ssids
  /\ Cut \in [Hosts \cup Ssids -> Hosts \cup Ssids]
  /\ \A h \in Hosts : Cut[h] \in Hosts
  /\ \A s \in Ssids : Cut[s] \in Ssids
  /\ CommitFails \in BOOLEAN

VARIABLES
  eeprom,          \* the stored record
  cfg,             \* _cfg
  saveStep,        \* where handleSave() is
  typed,           \* the settings with what the user has typed
  told             \* the settings the user was last told are saved

saveVars == <<eeprom, cfg, saveStep, typed, told>>

Configs == [host : Hosts, ssid : Ssids]
Defaults == [host |-> NoText, ssid |-> NoText]
SaveSteps == {"off", "idle", "save", "reply", "restart"}

SaveInit ==
  /\ eeprom = Unwritten /\ cfg = Defaults /\ saveStep = "off"
  /\ typed = Defaults /\ told = Unwritten

\* configLoad(); nobody knows yet what a later save will say.
LoadConfig ==
  /\ saveStep = "off"
  /\ cfg' = IF eeprom = Unwritten THEN Defaults ELSE eeprom
  /\ saveStep' = "idle"
  /\ UNCHANGED <<eeprom, typed, told>>

\* handleSave() up to configSave(); from here on the user does not know what
\* is stored.
Submit(new, asTyped) ==
  /\ saveStep = "idle" /\ saveStep' = "save"
  /\ cfg' = new /\ typed' = asTyped /\ told' = Unwritten
  /\ UNCHANGED eeprom

\* The address is checked as it is typed and cut afterwards: what is stored of
\* a long one need not be an address that isValidHost() lets pass.
SubmitPrinter(host) ==
  /\ host \in ValidHosts
  /\ Submit([cfg EXCEPT !.host = Cut[host]], [cfg EXCEPT !.host = host])

SubmitWifi(ssid) ==
  Submit([cfg EXCEPT !.ssid = Cut[ssid]], [cfg EXCEPT !.ssid = ssid])

\* A form that is neither changes nothing, is stored and answered all the same.
SubmitOther == Submit(cfg, cfg)

\* An address that is not valid is answered with an error.
RefuseHost(host) ==
  /\ saveStep = "idle" /\ host \notin ValidHosts
  /\ UNCHANGED saveVars

\* Variant: put() without commit().
configSave_NoCommit ==
  /\ saveStep = "save" /\ saveStep' = "reply"
  /\ UNCHANGED <<eeprom, cfg, typed, told>>

configSave ==
  /\ saveStep = "save" /\ saveStep' = "reply"
  /\ \/ eeprom' = cfg
     \/ CommitFails /\ UNCHANGED eeprom
  /\ UNCHANGED <<cfg, typed, told>>

ReplySaved ==
  /\ saveStep = "reply" /\ saveStep' = "restart"
  /\ told' = typed
  /\ UNCHANGED <<eeprom, cfg, typed>>

Unload == /\ saveStep' = "off" /\ cfg' = Defaults
          /\ UNCHANGED <<eeprom, typed, told>>

-----------------------------------------------------------------------------
SettingsTypeOK ==
  /\ eeprom \in Configs \cup {Unwritten} /\ told \in Configs \cup {Unwritten}
  /\ cfg \in Configs /\ typed \in Configs
  /\ saveStep \in SaveSteps

\* The program runs with what the user was told is saved, over all restarts
\* and power cuts (handleSave(), configLoad()), as long as the texts fit.
SavedIsUsed ==
  saveStep # "off" /\ told # Unwritten => cfg = told
=============================================================================
