---------------------------- MODULE ProfileStore ----------------------------
(***************************************************************************)
(* Saved profiles: profiles.toml, the passwords in the Keychain, the saved *)
(* window frames, and the Connections page that edits them.                *)
(*                                                                         *)
(* The commands of the page run on the main thread one after another; the  *)
(* task that forwards a session's events stores certificate pins.  Both    *)
(* take the store's lock, write the whole document to a temporary file,    *)
(* rename it over profiles.toml and only then replace the document in      *)
(* memory.  Passwords are written after the lock is released, item by      *)
(* item, and any of those steps may fail; the app may end between any two. *)
(*                                                                         *)
(* The page works on a copy of the profiles (`entries`) that it reloads    *)
(* after its own commands only, and its sheet sends back a whole profile.  *)
(***************************************************************************)
EXTENDS Naturals, Sequences

CONSTANTS
  Nothing,      \* no profile, no password, no pin, no sheet
  Torn, Newer,  \* a document that is not whole, one a newer Drift wrote
  Closed,       \* the app did not open
  Ids,          \* profile ids, the ones not in use included
  Modes,        \* the connection modes the user chooses among
  Names,        \* kinds of name the user types: "empty", "short" or "full"
  Passwords,    \* the passwords the user types
  Updates,      \* what the user does with the passwords: [rdp, linux]
  Certs,        \* certificate fingerprints
  WindowFrames, \* window positions
  MaxCommands,  \* bound: commands of the page
  MaxPins,      \* bound: certificates the user asks to remember
  MaxFaults     \* bound: failing writes, failing Keychain calls, restarts

VARIABLES
  store,        \* the document in memory (Closed: the app did not open)
  file,         \* profiles.toml
  temp,         \* profiles.toml.tmp
  holder,       \* which thread holds the store's lock
  jobs,         \* what the main thread and the events task are doing
  pins,         \* accepted certificates the events task has not stored yet
  keychain,     \* the passwords, by profile and role
  frames,       \* window frames in memory
  frameFile,    \* window-frames.json
  entries,      \* the page's copy of the profiles
  sheet,        \* the profile being edited
  used,         \* commands, pins and faults so far
  interrupted,  \* profiles one of whose commands stopped between two steps
  remembered    \* the certificate the user asked to remember, per profile

storeVars == <<store, file, temp, holder, jobs, pins, keychain, frames, frameFile, entries, sheet, used, interrupted, remembered>>

SecretRoles == {"RdpSystem", "RdpUser", "LinuxLogin"}
rdp_for(mode) == IF mode = "RemoteLogin" THEN "RdpSystem" ELSE "RdpUser"

\* A profile as far as these rules tell profiles apart: a "full" name has no
\* room for the " copy" a duplicate appends, an "empty" one is what the
\* sheet of a new profile starts from.
ConnectionProfile ==
  [mode : Modes, name : {"short", "full"}, cert_pin : Certs \cup {Nothing}]

\* A profiles.toml that can be read: which profile each id has, if any.
Documents == [Ids -> ConnectionProfile \cup {Nothing}]

\* What is no profile, document, frame or password is none of those.
ASSUME StoreAssumption ==
  /\ Modes \subseteq {"RemoteLogin", "Headless", "DesktopSharing"}
  /\ Names \subseteq {"empty", "short", "full"}
  /\ Updates \subseteq [rdp : Passwords \cup {Nothing}, linux : Passwords \cup {"Keep", "Forget"}]
  /\ {MaxCommands, MaxPins, MaxFaults} \subseteq Nat
  /\ Nothing \notin ConnectionProfile \cup WindowFrames \cup Passwords
  /\ \A d \in {Torn, Newer, Closed, Nothing} : d \notin Documents

new_profile(mode) == [mode |-> mode, name |-> "empty", cert_pin |-> Nothing]

\* Whether a profile may be saved.
validate(p) == p.name \in {"short", "full"}

\* A document that cannot be read keeps the app from opening.
load(document) == IF document \in {Torn, Newer} THEN Closed ELSE document

-----------------------------------------------------------------------------
(* The Keychain steps of a save and of a delete.                            *)

\* Mutant: the old item goes before its password is stored under the new role.
BugApplySecrets(p, previous, update) ==
  LET role == rdp_for(p.mode)
      old == IF previous = Nothing THEN role ELSE rdp_for(previous.mode)
  IN  (IF old # role THEN <<[call |-> "delete", role |-> old]>> ELSE << >>)
      \o (IF update.rdp # Nothing THEN <<[call |-> "set", role |-> role, secret |-> update.rdp]>>
          ELSE IF old # role THEN <<[call |-> "move", role |-> role, from |-> old]>> ELSE << >>)
      \o (IF p.mode # "RemoteLogin" \/ update.linux = "Forget" THEN <<[call |-> "delete", role |-> "LinuxLogin"]>>
          ELSE IF update.linux # "Keep" THEN <<[call |-> "set", role |-> "LinuxLogin", secret |-> update.linux]>>
          ELSE << >>)

apply_secrets(p, previous, update) ==
  LET role == rdp_for(p.mode)
      old == IF previous = Nothing THEN role ELSE rdp_for(previous.mode)
  IN  (IF update.rdp # Nothing THEN <<[call |-> "set", role |-> role, secret |-> update.rdp]>>
       ELSE IF old # role THEN <<[call |-> "move", role |-> role, from |-> old]>> ELSE << >>)
      \o (IF old # role THEN <<[call |-> "delete", role |-> old]>> ELSE << >>)
      \o (IF p.mode # "RemoteLogin" \/ update.linux = "Forget" THEN <<[call |-> "delete", role |-> "LinuxLogin"]>>
          ELSE IF update.linux # "Keep" THEN <<[call |-> "set", role |-> "LinuxLogin", secret |-> update.linux]>>
          ELSE << >>)

\* Mutant: the greeter's password of a deleted profile is left behind.
BugDeleteSecrets == <<[call |-> "delete", role |-> "RdpSystem"], [call |-> "delete", role |-> "RdpUser"]>>

DeleteSecrets ==
  <<[call |-> "delete", role |-> "RdpSystem"], [call |-> "delete", role |-> "RdpUser"],
    [call |-> "delete", role |-> "LinuxLogin"]>>

\* The items of one profile after one successful call.
Call(items, c) ==
  CASE c.call = "set" -> [items EXCEPT ![c.role] = c.secret]
    [] c.call = "move" -> IF items[c.from] = Nothing THEN items ELSE [items EXCEPT ![c.role] = items[c.from]]
    [] c.call = "delete" -> [items EXCEPT ![c.role] = Nothing]

-----------------------------------------------------------------------------
NoItems == [r \in SecretRoles |-> Nothing]
NoDocument == [i \in Ids |-> Nothing]
Idle == [step |-> "idle"]
KeepSecrets == [rdp |-> Nothing, linux |-> "Keep"]

StoreInit ==
  /\ file \in {NoDocument, Newer}
  /\ store = load(file)
  /\ temp = Nothing
  /\ holder = "nobody"
  /\ jobs = [t \in {"main", "events"} |-> Idle]
  /\ pins = {}
  /\ keychain = [i \in Ids |-> NoItems]
  /\ frames = [i \in Ids |-> Nothing]
  /\ frameFile = frames
  /\ entries = (IF store = Closed THEN NoDocument ELSE store)
  /\ sheet = Nothing
  /\ used = [commands |-> 0, pins |-> 0, faults |-> 0]
  /\ interrupted = {}
  /\ remembered = [i \in Ids |-> Nothing]

\* An id no profile has and nothing is kept under: a new profile's id is random.
Unused(i) ==
  /\ store[i] = Nothing /\ keychain[i] = NoItems /\ frames[i] = Nothing /\ frameFile[i] = Nothing
  /\ sheet # Nothing => sheet.id # i

Open == store # Closed
MainIdle == Open /\ jobs["main"] = Idle
Spend(what, limit) == used[what] < limit /\ used' = [used EXCEPT ![what] = @ + 1]
Fault == Spend("faults", MaxFaults)

\* A command of the page starts on the main thread.
Begin(job) ==
  /\ MainIdle
  /\ Spend("commands", MaxCommands)
  /\ jobs' = [jobs EXCEPT !["main"] = job]

Job(op, id, profile, update) ==
  [step |-> "lock", op |-> op, id |-> id, profile |-> profile, update |-> update, script |-> << >>]

-----------------------------------------------------------------------------
(* The Connections page.                                                    *)

OpenEdit(i) ==
  /\ MainIdle /\ sheet = Nothing /\ entries[i] # Nothing
  /\ sheet' = [id |-> i, profile |-> entries[i]]
  /\ UNCHANGED <<store, file, temp, holder, jobs, pins, keychain, frames, frameFile, entries, used, interrupted, remembered>>

\* The menu's Edit reloads the profiles before it opens the sheet.
EditIntent(i) ==
  /\ MainIdle /\ holder = "nobody" /\ store[i] # Nothing
  /\ entries' = store
  /\ sheet' = [id |-> i, profile |-> store[i]]
  /\ UNCHANGED <<store, file, temp, holder, jobs, pins, keychain, frames, frameFile, used, interrupted, remembered>>

OpenNew(i, mode) ==
  /\ MainIdle /\ sheet = Nothing /\ Unused(i)
  /\ sheet' = [id |-> i, profile |-> new_profile(mode)]
  /\ UNCHANGED <<store, file, temp, holder, jobs, pins, keychain, frames, frameFile, entries, used, interrupted, remembered>>

CloseSheet ==
  /\ MainIdle /\ sheet # Nothing
  /\ sheet' = Nothing
  /\ UNCHANGED <<store, file, temp, holder, jobs, pins, keychain, frames, frameFile, entries, used, interrupted, remembered>>

\* The fields the form shows come from the form, the others from the profile
\* the sheet was opened with; a Linux password only goes with Remote Login.
SaveSheet(mode, name, update) ==
  /\ sheet # Nothing
  /\ mode # "RemoteLogin" => update.linux = "Forget"
  /\ Begin(Job("save", sheet.id,
               [sheet.profile EXCEPT !.mode = mode, !.name = name], update))
  /\ UNCHANGED <<store, file, temp, holder, pins, keychain, frames, frameFile, entries, sheet, interrupted, remembered>>

DeleteProfile(i) ==
  /\ entries[i] # Nothing
  /\ Begin(Job("delete", i, Nothing, KeepSecrets))
  /\ sheet' = IF sheet # Nothing /\ sheet.id = i THEN Nothing ELSE sheet
  /\ UNCHANGED <<store, file, temp, holder, pins, keychain, frames, frameFile, entries, interrupted, remembered>>

ForgetCertificate ==
  /\ sheet # Nothing /\ sheet.profile.cert_pin # Nothing
  /\ Begin(Job("forget", sheet.id, Nothing, KeepSecrets))
  /\ UNCHANGED <<store, file, temp, holder, pins, keychain, frames, frameFile, entries, sheet, interrupted, remembered>>

\* The copy's passwords are read before the copy is saved like any profile.
DuplicateProfile(i, copy) ==
  LET p == store[i] IN
  /\ Open /\ holder = "nobody" /\ p # Nothing /\ Unused(copy)
  /\ Begin(Job("save", copy,
       [p EXCEPT !.name = IF p.name = "full" THEN "too long" ELSE p.name, !.cert_pin = Nothing],
       [rdp |-> keychain[i][rdp_for(p.mode)],
        linux |-> IF p.mode = "RemoteLogin" /\ keychain[i]["LinuxLogin"] # Nothing
                  THEN keychain[i]["LinuxLogin"] ELSE "Keep"]))
  /\ UNCHANGED <<store, file, temp, holder, pins, keychain, frames, frameFile, entries, sheet, interrupted, remembered>>

\* A session of a profile without a pin asks, and the user answers "remember".
Trust(i, cert) ==
  /\ Open /\ store[i] # Nothing /\ store[i].cert_pin = Nothing
  /\ Spend("pins", MaxPins)
  /\ pins' = pins \cup {<<i, cert>>}
  /\ UNCHANGED <<store, file, temp, holder, jobs, keychain, frames, frameFile, entries, sheet, interrupted, remembered>>

CertificatePinned(pin) ==
  /\ Open /\ jobs["events"] = Idle
  /\ pin \in pins
  /\ pins' = pins \ {pin}
  /\ jobs' = [jobs EXCEPT !["events"] = [Job("pin", pin[1], Nothing, KeepSecrets) EXCEPT !.profile = pin[2]]]
  /\ UNCHANGED <<store, file, temp, holder, keychain, frames, frameFile, entries, sheet, used, interrupted, remembered>>

-----------------------------------------------------------------------------
(* The steps of a job.                                                      *)

\* The document a job wants to write, Nothing when it may not.
Document(job) ==
  LET p == store[job.id] IN
  CASE job.op = "save" -> IF ~validate(job.profile) THEN Nothing ELSE [store EXCEPT ![job.id] = job.profile]
    [] job.op = "delete" -> IF p = Nothing THEN Nothing ELSE [store EXCEPT ![job.id] = Nothing]
    [] job.op = "forget" -> IF p = Nothing THEN Nothing ELSE [store EXCEPT ![job.id] = [p EXCEPT !.cert_pin = Nothing]]
    [] job.op = "pin" -> IF p = Nothing THEN Nothing ELSE [store EXCEPT ![job.id] = [p EXCEPT !.cert_pin = job.profile]]

\* The Keychain calls that follow once the document is written.
Script(job) ==
  CASE job.op = "save" -> apply_secrets(job.profile, store[job.id], job.update)
    [] job.op = "delete" -> DeleteSecrets
    [] OTHER -> << >>

\* A failing command leaves the page as it is; the lock goes with the job.
Abort(t) ==
  /\ jobs' = [jobs EXCEPT ![t] = Idle]
  /\ holder' = IF holder = t THEN "nobody" ELSE holder

Lock(t) ==
  LET job == jobs[t] IN
  /\ Open /\ job.step = "lock" /\ holder = "nobody"
  /\ IF Document(job) = Nothing
       THEN Abort(t)
       ELSE /\ holder' = t
            /\ jobs' = [jobs EXCEPT ![t] = [job EXCEPT !.step = "create", !.script = Script(job)]]
  /\ UNCHANGED <<store, file, temp, pins, keychain, frames, frameFile, entries, sheet, used, interrupted, remembered>>

\* Mutant: the document is written in place.
BugCreateTemp(t) ==
  /\ Open /\ jobs[t].step = "create"
  /\ temp' = Torn
  /\ file' = Torn
  /\ jobs' = [jobs EXCEPT ![t].step = "write"]
  /\ UNCHANGED <<store, holder, pins, keychain, frames, frameFile, entries, sheet, used, interrupted, remembered>>

\* The temporary file is created and is not whole until it is written.
CreateTemp(t) ==
  /\ Open /\ jobs[t].step = "create"
  /\ temp' = Torn
  /\ jobs' = [jobs EXCEPT ![t].step = "write"]
  /\ UNCHANGED <<store, file, holder, pins, keychain, frames, frameFile, entries, sheet, used, interrupted, remembered>>

WriteTemp(t) ==
  /\ Open /\ jobs[t].step = "write"
  /\ temp' = Document(jobs[t])
  /\ jobs' = [jobs EXCEPT ![t].step = "rename"]
  /\ UNCHANGED <<store, file, holder, pins, keychain, frames, frameFile, entries, sheet, used, interrupted, remembered>>

\* The rename, the new document in memory and the end of the lock.  A pin is
\* remembered from here on, until it is forgotten or its profile deleted.
RenameTemp(t) ==
  LET job == jobs[t] IN
  /\ Open /\ job.step = "rename"
  /\ file' = temp /\ store' = temp /\ temp' = Nothing
  /\ holder' = "nobody"
  /\ jobs' = [jobs EXCEPT ![t] = IF t = "main" THEN [job EXCEPT !.step = "secrets"] ELSE Idle]
  /\ remembered' = CASE job.op = "pin" -> [remembered EXCEPT ![job.id] = job.profile]
                     [] job.op \in {"forget", "delete"} -> [remembered EXCEPT ![job.id] = Nothing]
                     [] OTHER -> remembered
  /\ UNCHANGED <<pins, keychain, frames, frameFile, entries, sheet, used, interrupted>>

\* Creating, writing or renaming the temporary file fails.
SaveFails(t) ==
  /\ Open /\ jobs[t].step \in {"create", "write", "rename"}
  /\ Fault
  /\ Abort(t)
  /\ UNCHANGED <<store, file, temp, pins, keychain, frames, frameFile, entries, sheet, interrupted, remembered>>

SecretStep ==
  LET job == jobs["main"] IN
  /\ Open /\ job.step = "secrets" /\ job.script # << >>
  /\ keychain' = [keychain EXCEPT ![job.id] = Call(@, Head(job.script))]
  /\ jobs' = [jobs EXCEPT !["main"].script = Tail(@)]
  /\ UNCHANGED <<store, file, temp, holder, pins, frames, frameFile, entries, sheet, used, interrupted, remembered>>

\* The Keychain refuses a call: the command ends with what it did so far.
SecretStepFails ==
  LET job == jobs["main"] IN
  /\ Open /\ job.step = "secrets" /\ job.script # << >>
  /\ Fault
  /\ Abort("main")
  /\ interrupted' = interrupted \cup {job.id}
  /\ UNCHANGED <<store, file, temp, pins, keychain, frames, frameFile, entries, sheet, remembered>>

\* The command is done and the page reloads.  A deleted profile's window frame
\* goes last; its file may not be written, which ends the command in an error.
\* A delete that completes makes up for earlier ones, unless the frame is gone
\* from memory and the file still has it: then nothing is written.
Finish(written) ==
  LET job == jobs["main"]
      forgets == job.op = "delete" /\ frames[job.id] # Nothing IN
  /\ Open /\ job.step = "secrets" /\ job.script = << >> /\ holder = "nobody"
  /\ frames' = IF forgets THEN [frames EXCEPT ![job.id] = Nothing] ELSE frames
  /\ IF written
       THEN /\ frameFile' = (IF forgets THEN frames' ELSE frameFile)
            /\ entries' = store
            /\ sheet' = (CASE job.op = "save" -> Nothing
                           [] job.op = "forget" -> [sheet EXCEPT !.profile.cert_pin = Nothing]
                           [] OTHER -> sheet)
            /\ interrupted' = (IF job.op = "delete" /\ (forgets \/ frameFile[job.id] = Nothing)
                              THEN interrupted \ {job.id} ELSE interrupted)
            /\ UNCHANGED used
       ELSE /\ forgets /\ Fault
            /\ interrupted' = interrupted \cup {job.id}
            /\ UNCHANGED <<frameFile, entries, sheet>>
  /\ jobs' = [jobs EXCEPT !["main"] = Idle]
  /\ UNCHANGED <<store, file, temp, holder, pins, keychain, remembered>>

\* A session window closes or the app quits; a deleted profile keeps no frame.
SaveFrame(i, f) ==
  /\ MainIdle /\ holder = "nobody"
  /\ store[i] # Nothing
  /\ frames[i] # f
  /\ frames' = [frames EXCEPT ![i] = f]
  /\ \/ frameFile' = frames' /\ UNCHANGED used
     \/ Fault /\ UNCHANGED frameFile
  /\ UNCHANGED <<store, file, temp, holder, jobs, pins, keychain, entries, sheet, interrupted, remembered>>

\* The app ends at any moment and is launched again.
Relaunch ==
  /\ Open
  /\ Fault
  /\ store' = load(file)
  /\ holder' = "nobody"
  /\ jobs' = [t \in DOMAIN jobs |-> Idle]
  /\ pins' = {}
  /\ frames' = frameFile
  /\ entries' = (IF store' = Closed THEN NoDocument ELSE store')
  /\ sheet' = Nothing
  /\ interrupted' = (IF jobs["main"].step = "secrets" THEN interrupted \cup {jobs["main"].id} ELSE interrupted)
  /\ UNCHANGED <<file, temp, keychain, frameFile, remembered>>

StoreNext ==
  \/ \E i \in Ids : OpenEdit(i) \/ EditIntent(i) \/ DeleteProfile(i)
  \/ \E i \in Ids, mode \in Modes : OpenNew(i, mode)
  \/ CloseSheet \/ ForgetCertificate
  \/ \E mode \in Modes, name \in Names, update \in Updates : SaveSheet(mode, name, update)
  \/ \E i, copy \in Ids : DuplicateProfile(i, copy)
  \/ \E i \in Ids, cert \in Certs : Trust(i, cert)
  \/ \E pin \in pins : CertificatePinned(pin)
  \/ \E t \in {"main", "events"} : Lock(t) \/ CreateTemp(t) \/ WriteTemp(t) \/ RenameTemp(t) \/ SaveFails(t)
  \/ SecretStep \/ SecretStepFails
  \/ \E written \in BOOLEAN : Finish(written)
  \/ \E i \in Ids, f \in WindowFrames : SaveFrame(i, f)
  \/ Relaunch

StoreSpec == StoreInit /\ [][StoreNext]_storeVars

-----------------------------------------------------------------------------
(* Properties.                                                              *)

\* Whatever fails and whenever the app ends, profiles.toml and the document in
\* memory change together, one profile at a time: ProfileFile::save and the
\* lock of ProfileService implement one atomic store.
Atomic == INSTANCE AtomicProfiles
            WITH saved <- file, held <- store, Profiles <- ConnectionProfile,
                 NoProfile <- Nothing, Unreadable <- {Torn, Newer}
SavesAreAtomic == Atomic!AtomicSpec

\* A profile that has an RDP password keeps one, under the old or the new role,
\* whichever step of a mode change fails: only deleting the profile takes it.
HasRdpPassword(i) == keychain[i]["RdpSystem"] # Nothing \/ keychain[i]["RdpUser"] # Nothing
PasswordSurvives == [][\A i \in Ids : HasRdpPassword(i) /\ ~HasRdpPassword(i)' => store[i] = Nothing]_storeVars

\* Outside a command, a profile none of whose commands was cut short has
\* passwords for the roles of its mode only, and one that is gone has left
\* neither a password nor a window frame.
NothingLeftBehind ==
  MainIdle => \A i \in Ids \ interrupted :
    IF store[i] = Nothing
      THEN keychain[i] = NoItems /\ frames[i] = Nothing /\ frameFile[i] = Nothing
      ELSE /\ keychain[i][rdp_for(IF store[i].mode = "RemoteLogin" THEN "Headless" ELSE "RemoteLogin")] = Nothing
           /\ store[i].mode # "RemoteLogin" => keychain[i]["LinuxLogin"] = Nothing

\* A certificate the user asked to remember stays the profile's pin until it
\* is forgotten (commands.rs: "`pin` = remember it for this profile").
CertificateIsRemembered ==
  MainIdle => \A i \in Ids :
    store[i] # Nothing /\ remembered[i] # Nothing => store[i].cert_pin = remembered[i]

\* A delete that completes takes the profile's window frame with it, on disk too
\* (commands.rs: "Deletes a profile, its stored passwords and its window frame").
DeleteForgetsFrame ==
  [][Finish(TRUE) /\ jobs["main"].op = "delete" => frameFile'[jobs["main"].id] = Nothing]_storeVars
=============================================================================
