-------------------------- MODULE LicenseActivation --------------------------
(***************************************************************************)
(* Activation of licenses around one file: LicensingRuntime, the           *)
(* activation in memory, the file, and the checks and the hardening        *)
(* assessment that read them (yoma/office/licensing: runtime.py,           *)
(* activation.py, persistence.py, enforcement.py, entitlements.py,         *)
(* hardening.py, license_model.py, license_validation.py).                 *)
(***************************************************************************)
EXTENDS Naturals

CONSTANTS
  Licenses,        \* license ids; each is of an organization of its own
  Perpetual,       \* licenses without an expiry
  Entitled,        \* licenses whose entitlements include the capability that is checked
  LastDay,         \* bound: the clock; the other licenses expire then
  NoLicense, NoFile, Unreadable

ASSUME LicenseAssumption ==
  /\ Perpetual \subseteq Licenses /\ Entitled \subseteq Licenses /\ LastDay \in Nat
  /\ NoLicense \notin Licenses

VARIABLES
  day,       \* now
  revoked,   \* licenses handed in with another status than active
  memory,    \* LicenseActivationRuntime: status, license, day of the activation
  licenseFile,      \* what LicensePersistence.load() finds
  inProcess, \* history: the process has not ended since the last save
  lostSave   \* history: a save or an unlink raised since the last that did not

licenseVars == <<day, revoked, memory, licenseFile, inProcess, lostSave>>

ActivationStatus == {"inactive", "active", "deactivated"}
Activation == [status : ActivationStatus, license : Licenses \cup {NoLicense}, since : 0..LastDay]
Inactive == [status |-> "inactive", license |-> NoLicense, since |-> 0]

\* No file and an unreadable one hold no activation.
ASSUME NoActivation ==
  NoFile \notin Activation /\ Unreadable \notin Activation /\ NoFile # Unreadable

LicenseInit ==
  /\ day = 0 /\ revoked = {} /\ memory = Inactive /\ licenseFile = NoFile
  /\ inProcess = TRUE /\ lostSave = FALSE

\* YomaLicense.is_expired(), LicenseValidator.validate(), LicenseEnforcementBoundary.check().
Expired(l) == l \notin Perpetual /\ day >= LastDay
ValidLicense(l) == l \notin revoked /\ ~Expired(l)
AccessAllowed(l) == ValidLicense(l) /\ l \in Entitled

\* save() and clear(): replaced at once, or nothing when it raises.
SaveFile(content, raised) ==
  /\ licenseFile' = IF raised THEN licenseFile ELSE content
  /\ lostSave' = raised /\ inProcess' = TRUE

IsActive(l) == memory.status = "active" /\ memory.license = l
NewActivation(l) == [status |-> "active", license |-> l, since |-> day]
MayActivate(l) == ValidLicense(l) /\ ~IsActive(l)

ActivateLicense(l) == \E raised \in BOOLEAN :
  /\ MayActivate(l) /\ memory' = NewActivation(l)
  /\ SaveFile(memory', raised) /\ UNCHANGED <<day, revoked>>

\* deactivate(): after a restart the memory is inactive and the file is left as it is.
ActiveInMemory == memory.status = "active"
Deactivated(m) == [m EXCEPT !.status = "deactivated", !.since = 0]

SavedDeactivation(raised) == SaveFile(memory', raised)
DeactivateLicense == \E raised \in BOOLEAN :
  /\ ActiveInMemory /\ memory' = Deactivated(memory)
  /\ SavedDeactivation(raised) /\ UNCHANGED <<day, revoked>>

ResetLicensing == \E raised \in BOOLEAN :
  /\ memory' = Inactive /\ SaveFile(NoFile, raised) /\ UNCHANGED <<day, revoked>>

\* recover() reads the file and changes nothing: a new process starts inactive.
LicenseRestart ==
  /\ memory' = Inactive /\ inProcess' = FALSE /\ UNCHANGED <<day, revoked, licenseFile, lostSave>>

DayPasses == day < LastDay /\ day' = day + 1
             /\ UNCHANGED <<revoked, memory, licenseFile, inProcess, lostSave>>
Revoke(l) ==
  revoked' = revoked \cup {l} /\ UNCHANGED <<day, memory, licenseFile, inProcess, lostSave>>
FileDamaged == /\ licenseFile # NoFile /\ licenseFile' = Unreadable
               /\ UNCHANGED <<day, revoked, memory, inProcess, lostSave>>

LicenseNext ==
  \/ DeactivateLicense \/ ResetLicensing \/ LicenseRestart \/ DayPasses \/ FileDamaged
  \/ \E l \in Licenses : ActivateLicense(l) \/ Revoke(l)

LicenseSpec == LicenseInit /\ [][LicenseNext]_licenseVars

-----------------------------------------------------------------------------

\* load(): a file that is missing or malformed is no activation.
Loaded == IF licenseFile = NoFile \/ licenseFile = Unreadable THEN Inactive ELSE licenseFile

\* LicensingHardening.assess(): the failures it reports.
Mismatch(l) == Loaded # Inactive /\ Loaded.license # l
HardeningFailures(l) ==
  {f \in {"invalid", "mismatch", "active_but_invalid"} :
     \/ f = "invalid" /\ ~ValidLicense(l)
     \/ f = "mismatch" /\ Mismatch(l)
     \/ f = "active_but_invalid" /\ Loaded.status = "active" /\ ~ValidLicense(l)}
HardenedSafe(l) == HardeningFailures(l) = {}

LicenseTypeOK ==
  /\ day \in 0..LastDay /\ revoked \subseteq Licenses /\ memory \in Activation
  /\ licenseFile \in {NoFile, Unreadable} \/ licenseFile \in Activation
  /\ inProcess \in BOOLEAN /\ lostSave \in BOOLEAN

\* Memory and file agree as long as the process goes on, no save raised and nobody damaged
\* the file; a file that outlives its process is changed by an activation or a reset only.
FileFollowsMemory ==
  /\ (inProcess /\ ~lostSave /\ licenseFile # Unreadable) => Loaded = memory
  /\ memory.status = "deactivated" => inProcess

StaleFileStays ==
  [(~inProcess /\ licenseFile' # licenseFile) =>
     licenseFile' = Unreadable \/ licenseFile' = NoFile
       \/ (licenseFile'.status = "active" /\ licenseFile' = memory')]_licenseVars

\* The assessment of the license that is active tells it from every other one; no license
\* whose capability is denied for its lifecycle is assessed as safe, whatever the file says.
AssessmentAgrees ==
  /\ (inProcess /\ ~lostSave /\ licenseFile # Unreadable /\ memory.status = "active") =>
       \A l \in Licenses : HardenedSafe(l) = (l = memory.license /\ ValidLicense(l))
  /\ \A l \in Entitled : HardenedSafe(l) => AccessAllowed(l)

\* Activating what is active does not move the day of its activation, in memory or file.
ActivationKeepsItsDay ==
  [(memory.status = "active" /\ memory'.status = "active" /\ memory' # memory) =>
     memory'.license # memory.license]_licenseVars
=============================================================================
