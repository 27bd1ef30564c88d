----------------------------- MODULE CertStore ------------------------------
(***************************************************************************)
(* The TLS certificate of the gateway: MqttBridge::begin() loads the       *)
(* device certificate, its key and the CA from the flash, or generates a   *)
(* chain and stores the three one after the other.  The power may go at    *)
(* any moment.  A blob is represented by the chain it belongs to.          *)
(***************************************************************************)
EXTENDS Naturals

CONSTANTS
  Chains,          \* the chains generateCertChain() can produce
  NoChain,         \* an empty blob
  WritesFail       \* may putBytes() fail?

ASSUME ChainAssumption == NoChain \notin Chains
ASSUME WritesAssumption == WritesFail \in BOOLEAN

VARIABLES
  nvs,             \* the namespace "mqttg40" of the flash, by key
  ram,             \* _certDer, _keyDer, _caDer (with their lengths)
  certStep,        \* where begin() is
  made,            \* the chains that have been generated
  trusted          \* the CAs that have been downloaded from the web page

certVars == <<nvs, ram, certStep, made, trusted>>

Blobs == {"certDer", "keyDer", "caDer"}
Empty == [b \in Blobs |-> NoChain]
Whole(chain) == [b \in Blobs |-> chain]
Stores == [Blobs -> Chains \cup {NoChain}]
CertSteps == {"off", "load", "generate"} \cup Blobs \cup {"ready"}

CertInit ==
  /\ nvs = Empty /\ ram = Empty
  /\ certStep = "off"
  /\ made = {} /\ trusted = {}

BeginCert == /\ certStep = "off"
             /\ certStep' = "load"
             /\ UNCHANGED <<nvs, ram, made, trusted>>

\* Variant: a chain that was loaded only in part is completed, not replaced.
LoadCert_AnyBlob ==
  /\ certStep = "load"
  /\ ram' = nvs
  /\ certStep' = IF \E b \in Blobs : nvs[b] # NoChain THEN "ready" ELSE "generate"
  /\ UNCHANGED <<nvs, made, trusted>>

\* Three getBytes(); "loaded" is that none of them is empty.
LoadCert ==
  /\ certStep = "load"
  /\ ram' = nvs
  /\ certStep' = IF \A b \in Blobs : nvs[b] # NoChain THEN "ready" ELSE "generate"
  /\ UNCHANGED <<nvs, made, trusted>>

\* generateCertChain() makes new keys every time.
Generate(chain) ==
  /\ certStep = "generate" /\ chain \notin made
  /\ ram' = Whole(chain)
  /\ made' = made \cup {chain}
  /\ certStep' = "certDer"
  /\ UNCHANGED <<nvs, trusted>>

\* When it fails it empties all three.
GenerateFails ==
  /\ certStep = "generate"
  /\ ram' = Empty
  /\ certStep' = "ready"
  /\ UNCHANGED <<nvs, made, trusted>>

\* Variant: the key is not stored.
AfterPut_NoKey(b) == IF b = "certDer" THEN "caDer" ELSE "ready"

\* Variant: the CA is stored before the key.
AfterPut_CaEarly(b) == CASE b = "certDer" -> "caDer"
                         [] b = "caDer" -> "keyDer"
                         [] b = "keyDer" -> "ready"

\* The order of the putBytes() calls.
AfterPut(b) == CASE b = "certDer" -> "keyDer"
                 [] b = "keyDer" -> "caDer"
                 [] b = "caDer" -> "ready"

Put(b) ==
  /\ certStep = b
  /\ \/ nvs' = [nvs EXCEPT ![b] = ram[b]]
     \/ WritesFail /\ nvs' = nvs
  /\ certStep' = AfterPut(b)
  /\ UNCHANGED <<ram, made, trusted>>

\* A user downloads the CA (/ca.pem, trust-gateway.sh) and trusts it.
DownloadCa ==
  /\ certStep = "ready"
  /\ trusted' = trusted \cup ({ram["caDer"]} \ {NoChain})
  /\ UNCHANGED <<nvs, ram, certStep, made>>

\* The device restarts: the flash stays.
Forget == /\ ram' = Empty /\ certStep' = "off"
          /\ UNCHANGED <<nvs, made, trusted>>

CertNext == \/ BeginCert \/ LoadCert \/ GenerateFails \/ DownloadCa \/ Forget
            \/ \E chain \in Chains : Generate(chain)
            \/ \E b \in Blobs : Put(b)

CertSpec == CertInit /\ [][CertNext]_certVars

-----------------------------------------------------------------------------
CertTypeOK ==
  /\ nvs \in Stores /\ ram \in Stores
  /\ certStep \in CertSteps
  /\ made \subseteq Chains /\ trusted \subseteq Chains

\* The TLS server never works with a certificate and a key, or offers a CA,
\* of different chains, whatever restarts lie behind it (MqttBridge::begin()).
PairMatches ==
  certStep = "ready" => \A a, b \in Blobs : ram[a] = ram[b]

\* A CA that was downloaded once stays the CA of what the TLS server presents,
\* over all later restarts, unless generation fails and there is none.
TrustHolds ==
  certStep = "ready" /\ ram["certDer"] # NoChain
    => trusted \subseteq {ram["certDer"]}

\* The chain of this device, once it is stored whole.
Stored == nvs["caDer"]
Shown == IF certStep = "ready" THEN ram["certDer"] ELSE NoChain

\* Restarts and partial writes are invisible from outside.
Abstract == INSTANCE OneChain WITH chain <- Stored, shown <- Shown
ImplementsOneChain == Abstract!Spec
=============================================================================
