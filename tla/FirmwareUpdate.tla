--------------------------- MODULE FirmwareUpdate ---------------------------
(***************************************************************************)
(* handleUpdateFromGithub(): asks for the number of the latest release,    *)
(* refuses it unless it is newer than the running version, downloads       *)
(* whatever the latest release is by then into the other half of the       *)
(* flash, and restarts into it.  Versions are numbers here (compareVersions *)
(* is in module Versions); an image has Pieces pieces.                     *)
(***************************************************************************)
EXTENDS Naturals

CONSTANTS
  MaxVersion,      \* bound: the versions are 1 .. MaxVersion
  Pieces,          \* the pieces of an image
  FetchFails       \* may fetchLatestVersion() come back with nothing?

ASSUME UpdateAssumption ==
  /\ MaxVersion \in Nat \ {0} /\ Pieces \in Nat \ {0}
  /\ FetchFails \in BOOLEAN

VARIABLES
  running,         \* VERSION
  boots,           \* the version a restart will run
  release,         \* the latest release on GitHub
  updateStep,      \* where the handler is
  image,           \* the image in the other half: its version and its pieces
  stalled,         \* no more data will come
  checked          \* the check of this download was made and has let it pass

updateVars == <<running, boots, release, updateStep, image, stalled, checked>>

Versions == 1..MaxVersion
UpdateSteps == {"idle", "get", "download", "end", "restart"}
NoImage == [version |-> 1, pieces |-> 0]

UpdateInit ==
  /\ running \in Versions /\ boots = running
  /\ release \in Versions
  /\ updateStep = "idle" /\ image = NoImage
  /\ stalled = FALSE /\ checked = FALSE

\* A release is published at any moment.
Publish(v) ==
  /\ v > release /\ release' = v
  /\ UNCHANGED <<running, boots, updateStep, image, stalled, checked>>

\* The check: skipped when the station is not connected or the answer is empty.
\* What it refuses, and what it lets pass.
RefuseUpdate(canCheck) ==
  /\ updateStep = "idle" /\ canCheck /\ release <= running
  /\ UNCHANGED updateVars

\* Variant: the two versions are compared the wrong way round.
CheckUpdate_Swapped(canCheck) ==
  /\ updateStep = "idle"
  /\ \/ (canCheck => FetchFails) /\ checked' = FALSE
     \/ canCheck /\ release < running /\ checked' = TRUE
  /\ updateStep' = "get"
  /\ UNCHANGED <<running, boots, release, image, stalled>>

CheckUpdate(canCheck) ==
  /\ updateStep = "idle"
  /\ \/ (canCheck => FetchFails) /\ checked' = FALSE
     \/ canCheck /\ release > running /\ checked' = TRUE
  /\ updateStep' = "get"
  /\ UNCHANGED <<running, boots, release, image, stalled>>

\* http.GET() for the latest image, its size, Update.begin(); it needs the
\* station.
GetImage(online) ==
  /\ updateStep = "get"
  /\ \/ /\ online /\ updateStep' = "download"
        /\ image' = [version |-> release, pieces |-> 0]
     \/ updateStep' = "idle" /\ UNCHANGED image
  /\ UNCHANGED <<running, boots, release, stalled, checked>>

\* Variant: the loop ends a piece too late.
Download_Past ==
  /\ updateStep = "download" /\ ~stalled
  /\ image' = [image EXCEPT !.pieces = @ + 1]
  /\ updateStep' = IF image.pieces < Pieces THEN "download" ELSE "end"
  /\ UNCHANGED <<running, boots, release, stalled, checked>>

\* The loop that waits for data; it has no other way out than the last piece.
Download ==
  /\ updateStep = "download" /\ ~stalled
  /\ image' = [image EXCEPT !.pieces = @ + 1]
  /\ updateStep' = IF image.pieces + 1 < Pieces THEN "download" ELSE "end"
  /\ UNCHANGED <<running, boots, release, stalled, checked>>

\* The server, or the network, stops in the middle.
DownloadStalls ==
  /\ updateStep = "download" /\ stalled' = TRUE
  /\ UNCHANGED <<running, boots, release, updateStep, image, checked>>

WaitForever ==
  updateStep = "download" /\ stalled /\ UNCHANGED updateVars

\* Update.end(true) selects the new image, or finds an error of a write.
EndUpdate ==
  /\ updateStep = "end"
  /\ \/ boots' = image.version /\ updateStep' = "restart"
     \/ UNCHANGED boots /\ updateStep' = "idle"
  /\ UNCHANGED <<running, release, image, stalled, checked>>

Reset == /\ running' = boots /\ updateStep' = "idle"
         /\ image' = NoImage /\ stalled' = FALSE /\ checked' = FALSE
         /\ UNCHANGED <<boots, release>>

-----------------------------------------------------------------------------
UpdateTypeOK ==
  /\ running \in Versions /\ boots \in Versions /\ release \in Versions
  /\ updateStep \in UpdateSteps
  /\ image \in [version : Versions, pieces : 0..Pieces]
  /\ stalled \in BOOLEAN /\ checked \in BOOLEAN

\* What is installed is a whole image, and one that the check has let pass is
\* newer than what ran (handleUpdateFromGithub()), although the release that
\* is downloaded need not be the one that was compared.
InstallsChecked ==
  [][boots' # boots => /\ image.pieces = Pieces
                       /\ checked => boots' > running]_updateVars
=============================================================================
