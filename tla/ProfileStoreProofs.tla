------------------------- MODULE ProfileStoreProofs -------------------------
(***************************************************************************)
(* Proofs about ProfileStore, for any number of profiles, modes,           *)
(* certificates, passwords, commands and faults: saves are atomic, a       *)
(* profile's RDP password survives whatever fails, and nothing is left     *)
(* behind by a command that was not cut short.                             *)
(***************************************************************************)
EXTENDS ProfileStore, SequenceTheorems, TLAPS

Threads == {"main", "events"}
Saving == {"create", "write", "rename"}

\* A profile as the sheet or a copy holds it, before validate.
Draft == [mode : Modes, name : {"empty", "short", "full", "too long"}, cert_pin : Certs \cup {Nothing}]
Sheet == [id : Ids, profile : Draft]
Secret == Passwords \cup {Nothing}
Items == [SecretRoles -> Secret]
KeychainCall ==
  [call : {"set"}, role : SecretRoles, secret : Passwords]
    \cup [call : {"move"}, role : SecretRoles, from : SecretRoles]
    \cup [call : {"delete"}, role : SecretRoles]
JobState ==
  [step : {"lock", "secrets"} \cup Saving, op : {"save", "delete", "forget", "pin"}, id : Ids,
   profile : Draft \cup Certs \cup {Nothing},
   update : [rdp : Secret, linux : Passwords \cup {"Keep", "Forget"}], script : Seq(KeychainCall)]

StoreTypeOK ==
  /\ file \in Documents \cup {Newer}
  /\ store = load(file)
  /\ holder \in Threads \cup {"nobody"}
  /\ jobs \in [Threads -> JobState \cup {Idle}]
  /\ pins \in SUBSET (Ids \X Certs)
  /\ keychain \in [Ids -> Items]
  /\ frames \in [Ids -> WindowFrames \cup {Nothing}]
  /\ frameFile \in [Ids -> WindowFrames \cup {Nothing}]
  /\ entries \in Documents
  /\ sheet \in Sheet \cup {Nothing}
  /\ interrupted \in SUBSET Ids

\* What a job carries: the events task pins, the page's commands do the rest.
Carries(t, job, form) ==
  IF t = "events" THEN job.op = "pin" /\ job.profile \in Certs /\ job.step # "secrets"
  ELSE /\ job.op # "pin"
       /\ job.op = "save" => job.profile \in Draft
       /\ job.op = "forget" => form \in Sheet
JobInv == \A t \in Threads : jobs[t] # Idle => Carries(t, jobs[t], sheet)

\* The job that saves holds the lock, so that the document it writes is the one it read the
\* store for, and what it will do to the Keychain was decided for the profile it replaces.
LockOf(t) ==
  /\ holder = t <=> jobs[t].step \in Saving
  /\ holder = t => Document(jobs[t]) # Nothing /\ jobs[t].script = Script(jobs[t])
  /\ jobs[t].step = "rename" => temp = Document(jobs[t])
LockInv == \A t \in Threads : LockOf(t)

AtomicInv == StoreTypeOK /\ JobInv /\ LockInv

LEMMA JobTypes ==
  ASSUME NEW j \in JobState \cup {Idle}
  PROVE  /\ j # Idle => j \in JobState
         /\ j = Idle <=> j.step = "idle"
         /\ j.step # "idle" => j \in JobState
BY DEF JobState, Idle, Saving

LEMMA ThreadJobs ==
  ASSUME StoreTypeOK, NEW t \in Threads
  PROVE  /\ jobs[t] \in JobState \cup {Idle}
         /\ jobs[t] = Idle <=> jobs[t].step = "idle"
         /\ jobs[t].step # "idle" => jobs[t] \in JobState
<1>1. jobs[t] \in JobState \cup {Idle}
  BY DEF StoreTypeOK
<1> QED
  BY <1>1, JobTypes

LEMMA OpenStore == ASSUME StoreTypeOK, Open PROVE store \in Documents /\ file = store
BY StoreAssumption DEF StoreTypeOK, Open, load

\* What a job writes changes one profile of the document in memory.
LEMMA DocumentType ==
  ASSUME store \in Documents, NEW j \in JobState, Document(j) # Nothing,
         j.op = "save" => j.profile \in Draft, j.op = "pin" => j.profile \in Certs
  PROVE  \E p \in ConnectionProfile \cup {Nothing} :
           /\ Document(j) = [store EXCEPT ![j.id] = p]
           /\ j.op = "save" => p = j.profile /\ p \in ConnectionProfile
           /\ j.op = "delete" => p = Nothing
           /\ j.op \in {"forget", "pin"} => /\ store[j.id] # Nothing /\ p \in ConnectionProfile
                                           /\ p.mode = store[j.id].mode
<1>1. j.op \in {"save", "delete", "forget", "pin"} /\ j.id \in Ids /\ store[j.id] \in ConnectionProfile \cup {Nothing}
  BY DEF JobState, Documents
<1>2. CASE j.op = "save"
  <2>1. j.profile \in Draft /\ validate(j.profile) /\ Document(j) = [store EXCEPT ![j.id] = j.profile]
    BY <1>2 DEF Document
  <2>2. j.profile \in ConnectionProfile
    BY <2>1 DEF Draft, ConnectionProfile, validate
  <2> QED
    BY <1>2, <2>1, <2>2
<1>3. CASE j.op = "delete"
  BY <1>3 DEF Document
<1>4. CASE j.op = "forget"
  <2> DEFINE p == [store[j.id] EXCEPT !.cert_pin = Nothing]
  <2>1. store[j.id] # Nothing /\ Document(j) = [store EXCEPT ![j.id] = p]
    BY <1>4 DEF Document
  <2>2. p \in ConnectionProfile /\ p.mode = store[j.id].mode
    BY <1>1, <2>1 DEF ConnectionProfile
  <2> QED
    BY <1>4, <2>1, <2>2
<1>5. CASE j.op = "pin"
  <2> DEFINE p == [store[j.id] EXCEPT !.cert_pin = j.profile]
  <2>1. store[j.id] # Nothing /\ Document(j) = [store EXCEPT ![j.id] = p]
    BY <1>5 DEF Document
  <2>2. p \in ConnectionProfile /\ p.mode = store[j.id].mode
    BY <1>1, <1>5, <2>1 DEF ConnectionProfile
  <2> QED
    BY <1>5, <2>1, <2>2
<1> QED
  BY <1>1, <1>2, <1>3, <1>4, <1>5

\* The document and the calls of a job depend on the store and on what was asked alone.
LEMMA SameDocument ==
  ASSUME NEW t, store' = store, jobs'[t].op = jobs[t].op, jobs'[t].id = jobs[t].id,
         jobs'[t].profile = jobs[t].profile, jobs'[t].update = jobs[t].update
  PROVE  Document(jobs[t])' = Document(jobs[t]) /\ Script(jobs[t])' = Script(jobs[t])
BY DEF Document, Script

LEMMA LockRests ==
  ASSUME NEW t, jobs'[t].step \notin Saving, holder' # t
  PROVE  LockOf(t)'
BY DEF LockOf, Saving

LEMMA LockStays ==
  ASSUME NEW t, LockOf(t), store' = store, jobs'[t] = jobs[t], holder' = t <=> holder = t,
         temp' = temp \/ holder # t
  PROVE  LockOf(t)'
<1>1. Document(jobs[t])' = Document(jobs[t]) /\ Script(jobs[t])' = Script(jobs[t])
  BY SameDocument
<1> QED
  BY <1>1 DEF LockOf, Saving

-----------------------------------------------------------------------------
(* The passwords of the profile whose command is at its Keychain calls.    *)

RdpRoles == {"RdpSystem", "RdpUser"}
Other(role) == IF role = "RdpSystem" THEN "RdpUser" ELSE "RdpSystem"

\* No call to come takes the last RDP password: one is deleted only when the other role has
\* one, when there is none to lose, or right after the call that stores it under the other.
Safe(items, script) ==
  \A k \in DOMAIN script :
    script[k].call = "delete" /\ script[k].role \in RdpRoles =>
      \/ k = 1 /\ (items[Other(script[k].role)] # Nothing \/ items[script[k].role] = Nothing)
      \/ /\ k = 2 /\ script[1].role = Other(script[2].role)
         /\ \/ script[1].call = "set" /\ script[1].secret # Nothing
            \/ script[1].call = "move" /\ script[1].from = script[2].role

\* The roles a profile of this mode has passwords for.
RolesOf(mode) == {rdp_for(mode)} \cup (IF mode = "RemoteLogin" THEN {"LinuxLogin"} ELSE {})

\* Once the calls to come are made, only these roles have a password.
Leaves(items, script, roles) ==
  /\ \A k \in DOMAIN script : script[k].call # "delete" => script[k].role \in roles
  /\ \A r \in SecretRoles \ roles :
       items[r] = Nothing \/ \E k \in DOMAIN script : script[k] = [call |-> "delete", role |-> r]

AtSecrets(i) == jobs["main"].step = "secrets" /\ jobs["main"].id = i

SecretsInv ==
  \A i \in Ids : AtSecrets(i) =>
    LET job == jobs["main"] IN
    /\ job.op = "delete" => store[i] = Nothing /\ Leaves(keychain[i], job.script, {})
    /\ job.op = "save" => /\ store[i] # Nothing /\ store[i].mode = job.profile.mode
                          /\ Safe(keychain[i], job.script)
    /\ job.op = "forget" => job.script = << >>

\* A profile none of whose commands was cut short, outside its Keychain calls.
Clean(i) ==
  IF store[i] = Nothing THEN keychain[i] = NoItems /\ frames[i] = Nothing /\ frameFile[i] = Nothing
  ELSE \A r \in SecretRoles \ RolesOf(store[i].mode) : keychain[i][r] = Nothing

CleanInv ==
  \A i \in Ids \ interrupted :
    /\ frames[i] = Nothing => frameFile[i] = Nothing
    /\ Open /\ (~AtSecrets(i) \/ jobs["main"].op = "forget") => Clean(i)
    /\ AtSecrets(i) /\ jobs["main"].op = "save" =>
         Leaves(keychain[i], jobs["main"].script, RolesOf(jobs["main"].profile.mode))

TidyInv == SecretsInv /\ CleanInv

-----------------------------------------------------------------------------
(* What the Keychain calls of a save are.                                   *)

\* Three parts of at most one call each.
LEMMA JoinedParts ==
  ASSUME NEW S, NEW a \in S, NEW b \in S, NEW c \in S
  PROVE  /\ << >> \o << >> \o << >> = << >> /\ << >> \o << >> \o <<c>> = <<c>>
         /\ <<a>> \o << >> \o << >> = <<a>> /\ <<a>> \o << >> \o <<c>> = <<a, c>>
         /\ <<a>> \o <<b>> \o << >> = <<a, b>> /\ <<a>> \o <<b>> \o <<c>> = <<a, b, c>>
         /\ << >> \in Seq(S) /\ <<c>> \in Seq(S) /\ <<a>> \in Seq(S) /\ <<a, c>> \in Seq(S)
         /\ <<a, b>> \in Seq(S) /\ <<a, b, c>> \in Seq(S)
<1>1. << >> \in Seq(S) /\ <<c>> \in Seq(S) /\ <<a>> \in Seq(S)
  OBVIOUS
<1>2. <<a, c>> \in Seq(S) /\ <<a, b>> \in Seq(S)
  OBVIOUS
<1>3. <<a, b, c>> \in Seq(S)
  OBVIOUS
<1>4. ASSUME NEW s \in Seq(S) PROVE s \o << >> = s /\ << >> \o s = s
  OBVIOUS
<1>5. ASSUME NEW x \in S, NEW y \in S PROVE <<x>> \o <<y>> = <<x, y>>
  <2>1. <<x>> \in Seq(S) /\ <<y>> \in Seq(S) /\ Len(<<x>>) = 1 /\ Len(<<y>>) = 1 /\ <<x, y>> \in Seq(S)
    OBVIOUS
  <2>2. Len(<<x>> \o <<y>>) = 2 /\ <<x>> \o <<y>> \in Seq(S) /\ Len(<<x, y>>) = 2
    BY <2>1
  <2>3. (<<x>> \o <<y>>)[1] = x /\ (<<x>> \o <<y>>)[2] = y
    BY <2>1
  <2>4. \A i \in 1 .. 2 : (<<x>> \o <<y>>)[i] = <<x, y>>[i]
    BY <2>3
  <2> QED
    BY <2>1, <2>2, <2>4, SeqEqual
<1>6. <<a, b>> \o <<c>> = <<a, b, c>>
  <2>1. <<a, b>> \in Seq(S) /\ <<c>> \in Seq(S) /\ Len(<<a, b>>) = 2 /\ Len(<<c>>) = 1 /\ <<a, b, c>> \in Seq(S)
    BY <1>1, <1>2, <1>3
  <2>2. Len(<<a, b>> \o <<c>>) = 3 /\ <<a, b>> \o <<c>> \in Seq(S) /\ Len(<<a, b, c>>) = 3
    BY <2>1
  <2>3. (<<a, b>> \o <<c>>)[1] = a /\ (<<a, b>> \o <<c>>)[2] = b /\ (<<a, b>> \o <<c>>)[3] = c
    BY <2>1
  <2>4. \A i \in 1 .. 3 : (<<a, b>> \o <<c>>)[i] = <<a, b, c>>[i]
    BY <2>3
  <2> QED
    BY <2>1, <2>2, <2>4, SeqEqual
<1> QED
  BY <1>1, <1>2, <1>3, <1>4, <1>5, <1>6, Zenon

LEMMA CallsOfSave ==
  ASSUME NEW p \in Draft, NEW previous \in ConnectionProfile \cup {Nothing},
         NEW update \in [rdp : Secret, linux : Passwords \cup {"Keep", "Forget"}], NEW items \in Items
  PROVE  LET script == apply_secrets(p, previous, update) IN
         /\ script \in Seq(KeychainCall)
         /\ Safe(items, script)
         /\ \A k \in DOMAIN script : script[k].call # "delete" => script[k].role \in RolesOf(p.mode)
         /\ previous # Nothing /\ rdp_for(previous.mode) # rdp_for(p.mode) =>
              \E k \in DOMAIN script : script[k] = [call |-> "delete", role |-> rdp_for(previous.mode)]
         /\ p.mode # "RemoteLogin" =>
              \E k \in DOMAIN script : script[k] = [call |-> "delete", role |-> "LinuxLogin"]
<1> DEFINE script == apply_secrets(p, previous, update)
           role == rdp_for(p.mode)
           old == IF previous = Nothing THEN role ELSE rdp_for(previous.mode)
           stores == update.rdp # Nothing \/ old # role
           logins == p.mode # "RemoteLogin" \/ update.linux # "Keep"
           forgets == p.mode # "RemoteLogin" \/ update.linux = "Forget"
           a == IF update.rdp # Nothing THEN [call |-> "set", role |-> role, secret |-> update.rdp]
                ELSE [call |-> "move", role |-> role, from |-> old]
           b == [call |-> "delete", role |-> old]
           c == IF forgets THEN [call |-> "delete", role |-> "LinuxLogin"]
                ELSE [call |-> "set", role |-> "LinuxLogin", secret |-> update.linux]
           c0 == IF logins THEN c ELSE b
<1>1. role \in RdpRoles /\ old \in RdpRoles /\ role \in SecretRoles /\ old \in SecretRoles /\ "LinuxLogin" \in SecretRoles
      /\ (old # role => role = Other(old) /\ previous # Nothing)
      /\ "LinuxLogin" \notin RdpRoles
  BY DEF rdp_for, RdpRoles, SecretRoles, Other
<1>2. role \in RolesOf(p.mode) /\ (~forgets => "LinuxLogin" \in RolesOf(p.mode))
  BY DEF RolesOf
<1>3. (update.rdp # Nothing => update.rdp \in Passwords) /\ (logins /\ ~forgets => update.linux \in Passwords)
  BY DEF Secret
<1>4. a \in KeychainCall /\ b \in KeychainCall /\ c0 \in KeychainCall
  BY <1>1, <1>3 DEF KeychainCall
<1>5. script = (IF stores THEN <<a>> ELSE << >>) \o (IF old # role THEN <<b>> ELSE << >>)
                 \o (IF logins THEN <<c0>> ELSE << >>)
  BY DEF apply_secrets
<1>6. /\ a.call # "delete" /\ a.role = role
      /\ (a.call = "set" /\ a.secret # Nothing) \/ (a.call = "move" /\ a.from = old)
      /\ b.call = "delete" /\ b.role = old
      /\ logins => c0.role = "LinuxLogin" /\ (c0.call = "delete" \/ "LinuxLogin" \in RolesOf(p.mode))
      /\ p.mode # "RemoteLogin" => logins /\ c0 = [call |-> "delete", role |-> "LinuxLogin"]
  BY <1>2
<1>7. previous # Nothing => old = rdp_for(previous.mode)
  OBVIOUS
<1>8. p.mode # "RemoteLogin" => logins
  OBVIOUS
<1>9. old # role => stores
  OBVIOUS
<1>10. b = [call |-> "delete", role |-> old]
  OBVIOUS
<1> HIDE DEF script, role, stores, logins, forgets, a, b, c, c0
<1>11. \/ script = << >> /\ old = role /\ ~logins
       \/ script = <<c0>> /\ old = role /\ logins
       \/ script = <<a>> /\ old = role /\ ~logins
       \/ script = <<a, c0>> /\ old = role /\ logins
       \/ script = <<a, b>> /\ old # role /\ ~logins
       \/ script = <<a, b, c0>> /\ old # role /\ logins
  <2> HIDE DEF old
  <2>a. <<a>> \o << >> \o << >> = <<a>> /\ <<a>> \o << >> \o <<c0>> = <<a, c0>>
    <3>1. <<a>> \o << >> \o << >> = <<a>>
      BY <1>4, JoinedParts
    <3>2. <<a>> \o << >> \o <<c0>> = <<a, c0>>
      BY <1>4, JoinedParts
    <3> QED
      BY <3>1, <3>2
  <2>b. <<a>> \o <<b>> \o << >> = <<a, b>> /\ <<a>> \o <<b>> \o <<c0>> = <<a, b, c0>>
    <3>1. <<a>> \o <<b>> \o << >> = <<a, b>>
      BY <1>4, JoinedParts
    <3>2. <<a>> \o <<b>> \o <<c0>> = <<a, b, c0>>
      BY <1>4, JoinedParts
    <3> QED
      BY <3>1, <3>2
  <2>1. CASE old # role
    <3>1. script = <<a>> \o <<b>> \o (IF logins THEN <<c0>> ELSE << >>)
      BY <1>5, <1>9, <2>1
    <3>2. CASE logins
      <4>1. script = <<a>> \o <<b>> \o <<c0>>
        BY <3>1, <3>2
      <4> QED
        BY <2>b, <2>1, <3>2, <4>1, Zenon
    <3>3. CASE ~logins
      <4>1. script = <<a>> \o <<b>> \o << >>
        BY <3>1, <3>3
      <4> QED
        BY <2>b, <2>1, <3>3, <4>1, Zenon
    <3> QED
      BY <3>2, <3>3
  <2>2. CASE old = role /\ stores
    <3>1. script = <<a>> \o << >> \o (IF logins THEN <<c0>> ELSE << >>)
      BY <1>5, <2>2
    <3>2. CASE logins
      <4>1. script = <<a>> \o << >> \o <<c0>>
        BY <3>1, <3>2
      <4> QED
        BY <2>a, <2>2, <3>2, <4>1, Zenon
    <3>3. CASE ~logins
      <4>1. script = <<a>> \o << >> \o << >>
        BY <3>1, <3>3
      <4> QED
        BY <2>a, <2>2, <3>3, <4>1, Zenon
    <3> QED
      BY <3>2, <3>3
  <2>3. CASE old = role /\ ~stores
    <3>1. script = << >> \o << >> \o (IF logins THEN <<c0>> ELSE << >>)
      BY <1>5, <2>3
    <3>2. CASE logins
      BY <1>4, <2>3, <3>1, <3>2, JoinedParts, Zenon
    <3>3. CASE ~logins
      BY <1>4, <2>3, <3>1, <3>3, JoinedParts, Zenon
    <3> QED
      BY <3>2, <3>3
  <2> QED
    BY <2>1, <2>2, <2>3
<1> HIDE DEF old
<1>12. script \in Seq(KeychainCall)
  <2>1. /\ << >> \in Seq(KeychainCall) /\ <<c0>> \in Seq(KeychainCall) /\ <<a>> \in Seq(KeychainCall)
        /\ <<a, c0>> \in Seq(KeychainCall) /\ <<a, b>> \in Seq(KeychainCall) /\ <<a, b, c0>> \in Seq(KeychainCall)
    BY <1>4, JoinedParts, Zenon
  <2> QED
    BY <1>11, <2>1, Zenon
<1>13. Safe(items, script)
  <2>1. CASE script = << >> \/ (script = <<c0>> /\ logins)
    BY <1>1, <1>6, <2>1 DEF Safe
  <2>2. CASE script = <<a>> \/ (script = <<a, c0>> /\ logins)
    BY <1>1, <1>6, <2>2 DEF Safe
  <2>3. CASE script = <<a, b>> /\ old # role
    <3>1. DOMAIN script = {1, 2} /\ script[1] = a /\ script[2] = b
      BY <2>3
    <3> QED
      BY <1>1, <1>6, <2>3, <3>1 DEF Safe
  <2>4. CASE script = <<a, b, c0>> /\ old # role /\ logins
    <3>1. DOMAIN script = {1, 2, 3} /\ script[1] = a /\ script[2] = b /\ script[3] = c0
      BY <2>4
    <3> QED
      BY <1>1, <1>6, <2>4, <3>1 DEF Safe
  <2> QED
    BY <1>11, <2>1, <2>2, <2>3, <2>4, Zenon
<1>14. \A k \in DOMAIN script : script[k].call # "delete" => script[k].role \in RolesOf(p.mode)
  BY <1>2, <1>6, <1>11
<1>15. old # role => \E k \in DOMAIN script : script[k] = b
  BY <1>11
<1>16. p.mode # "RemoteLogin" => \E k \in DOMAIN script : script[k] = c0
  BY <1>8, <1>11
<1> QED
  BY <1>6, <1>7, <1>10, <1>12, <1>13, <1>14, <1>15, <1>16 DEF script, role

-----------------------------------------------------------------------------
(* Every step keeps the lock, the jobs and the document apart.              *)

Update == [rdp : Secret, linux : Passwords \cup {"Keep", "Forget"}]

LEMMA NewJob ==
  ASSUME NEW op \in {"save", "delete", "forget", "pin"}, NEW id \in Ids,
         NEW profile \in Draft \cup Certs \cup {Nothing}, NEW update \in Update
  PROVE  LET job == Job(op, id, profile, update) IN
         /\ job \in JobState /\ job.step = "lock" /\ job.op = op /\ job.id = id
         /\ job.profile = profile /\ job.update = update
<1>1. << >> \in Seq(KeychainCall)
  OBVIOUS
<1> QED
  BY <1>1 DEF Job, JobState, Update, Saving

\* The variables no job is about keep their types.
RestOK ==
  /\ pins \in SUBSET (Ids \X Certs)
  /\ keychain \in [Ids -> Items]
  /\ frames \in [Ids -> WindowFrames \cup {Nothing}]
  /\ frameFile \in [Ids -> WindowFrames \cup {Nothing}]
  /\ entries \in Documents
  /\ sheet \in Sheet \cup {Nothing}
  /\ interrupted \in SUBSET Ids

LEMMA RestTypes ==
  StoreTypeOK <=>
    /\ file \in Documents \cup {Newer} /\ store = load(file) /\ holder \in Threads \cup {"nobody"}
    /\ jobs \in [Threads -> JobState \cup {Idle}] /\ RestOK
BY DEF StoreTypeOK, RestOK

LEMMA PageStep ==
  ASSUME AtomicInv, UNCHANGED <<store, file, temp, holder, jobs>>, RestOK',
         jobs["main"] # Idle => sheet' = sheet
  PROVE  AtomicInv'
<1>1. StoreTypeOK'
  BY RestTypes DEF AtomicInv, StoreTypeOK, load, RestOK
<1>2. JobInv'
  BY DEF AtomicInv, JobInv, Carries, Threads
<1>3. LockInv'
  BY LockStays DEF AtomicInv, LockInv
<1> QED
  BY <1>1, <1>2, <1>3 DEF AtomicInv

\* One thread's job changes while the store does not.
LEMMA JobMoves ==
  ASSUME AtomicInv, NEW t \in Threads, NEW job \in JobState \cup {Idle}, jobs' = [jobs EXCEPT ![t] = job],
         job # Idle => Carries(t, job, sheet'), t = "main" \/ sheet' = sheet, LockOf(t)',
         holder' \in Threads \cup {"nobody"}, UNCHANGED <<store, file>>, RestOK',
         \A u \in Threads : u # t => (holder' = u <=> holder = u),
         temp' = temp \/ holder = t
  PROVE  AtomicInv'
<1>1. StoreTypeOK'
  <2>1. jobs' \in [Threads -> JobState \cup {Idle}]
    BY DEF AtomicInv, StoreTypeOK
  <2> QED
    BY <2>1 DEF AtomicInv, StoreTypeOK, load, RestOK
<1>2. /\ jobs'[t] = job
      /\ \A u \in Threads : u # t => jobs'[u] = jobs[u]
  BY DEF AtomicInv, StoreTypeOK
<1>3. JobInv'
  BY <1>2 DEF AtomicInv, JobInv, Carries, Threads
<1>4. LockInv'
  <2>1. ASSUME NEW u \in Threads, u # t PROVE LockOf(u)'
    <3>1. LockOf(u) /\ jobs'[u] = jobs[u] /\ (temp' = temp \/ holder # u)
      BY <1>2, <2>1 DEF AtomicInv, LockInv
    <3> QED
      BY <2>1, <3>1, LockStays
  <2> QED
    BY <2>1 DEF LockInv
<1> QED
  BY <1>1, <1>3, <1>4 DEF AtomicInv

\* A command starts in a main thread that was idle and waits for the lock.
LEMMA CommandBegins ==
  ASSUME AtomicInv, NEW op \in {"save", "delete", "forget"}, NEW id \in Ids,
         NEW profile \in Draft \cup {Nothing}, NEW update \in Update,
         op = "save" => profile \in Draft, op = "forget" => sheet' \in Sheet,
         Begin(Job(op, id, profile, update)), sheet' \in Sheet \cup {Nothing},
         UNCHANGED <<store, file, temp, holder, pins, keychain, frames, frameFile, entries, interrupted>>
  PROVE  AtomicInv'
<1> DEFINE job == Job(op, id, profile, update)
<1>1. /\ job \in JobState /\ job.step = "lock" /\ job.op = op /\ job.profile = profile
  BY NewJob
<1>2. jobs["main"] = Idle /\ jobs' = [jobs EXCEPT !["main"] = job]
  BY DEF Begin, MainIdle
<1> HIDE DEF job
<1>3. "main" \in Threads /\ "main" # "nobody" /\ "lock" \notin Saving /\ "idle" \notin Saving
  BY DEF Threads, Saving
<1>4. jobs'["main"] = job /\ holder # "main"
  <2>1. LockOf("main") /\ jobs \in [Threads -> JobState \cup {Idle}]
    BY <1>3 DEF AtomicInv, LockInv, StoreTypeOK
  <2>2. jobs["main"].step \notin Saving
    BY <1>2, <1>3 DEF Idle
  <2> QED
    BY <1>2, <1>3, <2>1, <2>2 DEF LockOf
<1>5. LockOf("main")'
  BY <1>1, <1>3, <1>4, LockRests
<1>6. Carries("main", job, sheet')
  BY <1>1 DEF Carries
<1>7. RestOK'
  BY DEF RestOK, AtomicInv, StoreTypeOK
<1>8. holder' \in Threads \cup {"nobody"}
  BY DEF AtomicInv, StoreTypeOK
<1> QED
  BY <1>1, <1>2, <1>3, <1>5, <1>6, <1>7, <1>8, JobMoves

LEMMA ProfileTypes ==
  ASSUME StoreTypeOK, Open, NEW i \in Ids
  PROVE  /\ store[i] # Nothing => store[i] \in ConnectionProfile
         /\ entries[i] # Nothing => entries[i] \in ConnectionProfile
BY OpenStore DEF StoreTypeOK, Documents

LEMMA ProfileIsDraft == ConnectionProfile \subseteq Draft
BY DEF ConnectionProfile, Draft

LEMMA PageActions ==
  ASSUME AtomicInv,
         \/ \E i \in Ids : OpenEdit(i) \/ EditIntent(i)
         \/ \E i \in Ids, mode \in Modes : OpenNew(i, mode)
         \/ CloseSheet
         \/ \E i \in Ids, cert \in Certs : Trust(i, cert)
         \/ \E i \in Ids, f \in WindowFrames : SaveFrame(i, f)
         \/ UNCHANGED storeVars
  PROVE  AtomicInv'
<1>t. RestOK /\ StoreTypeOK
  BY DEF RestOK, AtomicInv, StoreTypeOK
<1>1. ASSUME NEW i \in Ids, OpenEdit(i) \/ EditIntent(i) PROVE AtomicInv'
  <2>1. Open /\ jobs["main"] = Idle /\ UNCHANGED <<store, file, temp, holder, jobs, pins, keychain, frames, frameFile, interrupted>>
    BY <1>1 DEF OpenEdit, EditIntent, MainIdle
  <2>2. \E q \in ConnectionProfile : sheet' = [id |-> i, profile |-> q]
    BY <1>1, <1>t, <2>1, ProfileTypes DEF OpenEdit, EditIntent
  <2>3. sheet' \in Sheet
    BY <2>2, ProfileIsDraft DEF Sheet
  <2>4. entries' \in Documents
    BY <1>1, <1>t, <2>1, OpenStore DEF OpenEdit, EditIntent, RestOK
  <2> QED
    BY <1>t, <2>1, <2>3, <2>4, PageStep DEF RestOK
<1>2. ASSUME NEW i \in Ids, NEW mode \in Modes, OpenNew(i, mode) PROVE AtomicInv'
  <2>1. jobs["main"] = Idle /\ UNCHANGED <<store, file, temp, holder, jobs, pins, keychain, frames, frameFile, entries, interrupted>>
    BY <1>2 DEF OpenNew, MainIdle
  <2>2. sheet' \in Sheet
    BY <1>2 DEF OpenNew, new_profile, Sheet, Draft
  <2> QED
    BY <1>t, <2>1, <2>2, PageStep DEF RestOK
<1>3. CASE CloseSheet
  BY <1>3, <1>t, PageStep DEF CloseSheet, MainIdle, RestOK
<1>4. ASSUME NEW i \in Ids, NEW cert \in Certs, Trust(i, cert) PROVE AtomicInv'
  BY <1>4, <1>t, PageStep DEF Trust, RestOK
<1>5. ASSUME NEW i \in Ids, NEW f \in WindowFrames, SaveFrame(i, f) PROVE AtomicInv'
  <2>1. /\ frames' \in [Ids -> WindowFrames \cup {Nothing}] /\ frameFile' \in [Ids -> WindowFrames \cup {Nothing}]
        /\ UNCHANGED <<store, file, temp, holder, jobs, pins, keychain, entries, sheet, interrupted>>
    BY <1>5, <1>t DEF SaveFrame, RestOK
  <2> QED
    BY <1>t, <2>1, PageStep DEF RestOK
<1>6. CASE UNCHANGED storeVars
  BY <1>6, <1>t, PageStep DEF storeVars, RestOK
<1> QED
  BY <1>1, <1>2, <1>3, <1>4, <1>5, <1>6

LEMMA Commands ==
  ASSUME AtomicInv,
         \/ \E i \in Ids : DeleteProfile(i)
         \/ ForgetCertificate
         \/ \E mode \in Modes, name \in Names, update \in Updates : SaveSheet(mode, name, update)
         \/ \E i, copy \in Ids : DuplicateProfile(i, copy)
  PROVE  AtomicInv'
<1>t. sheet \in Sheet \cup {Nothing} /\ StoreTypeOK
  BY DEF AtomicInv, StoreTypeOK
<1>k. KeepSecrets \in Update
  BY DEF KeepSecrets, Update, Secret
<1>1. ASSUME NEW i \in Ids, DeleteProfile(i) PROVE AtomicInv'
  BY <1>1, <1>t, <1>k, CommandBegins DEF DeleteProfile
<1>2. CASE ForgetCertificate
  <2>1. sheet.id \in Ids /\ sheet' \in Sheet
    BY <1>2, <1>t DEF ForgetCertificate, Sheet
  <2> QED
    BY <1>2, <1>k, <2>1, CommandBegins DEF ForgetCertificate
<1>3. ASSUME NEW mode \in Modes, NEW name \in Names, NEW update \in Updates, SaveSheet(mode, name, update)
      PROVE  AtomicInv'
  <2>1. sheet \in Sheet /\ update \in Update /\ sheet' = sheet
    BY <1>3, <1>t, StoreAssumption DEF SaveSheet, Update, Secret
  <2>2. sheet.id \in Ids /\ [sheet.profile EXCEPT !.mode = mode, !.name = name] \in Draft
    BY <2>1, StoreAssumption DEF Sheet, Draft
  <2> QED
    BY <1>3, <2>1, <2>2, CommandBegins DEF SaveSheet
<1>4. ASSUME NEW i \in Ids, NEW copy \in Ids, DuplicateProfile(i, copy) PROVE AtomicInv'
  <2> DEFINE p == store[i]
             draft == [p EXCEPT !.name = IF p.name = "full" THEN "too long" ELSE p.name, !.cert_pin = Nothing]
             update == [rdp |-> keychain[i][rdp_for(p.mode)],
                        linux |-> IF p.mode = "RemoteLogin" /\ keychain[i]["LinuxLogin"] # Nothing
                                  THEN keychain[i]["LinuxLogin"] ELSE "Keep"]
  <2>1. Open /\ p # Nothing /\ Begin(Job("save", copy, draft, update)) /\ sheet' = sheet
        /\ UNCHANGED <<store, file, temp, holder, pins, keychain, frames, frameFile, entries, interrupted>>
    BY <1>4 DEF DuplicateProfile
  <2>2. p \in ConnectionProfile
    BY <1>t, <2>1, ProfileTypes
  <2>3. draft \in Draft
    BY <2>2 DEF ConnectionProfile, Draft
  <2>4. keychain[i] \in Items /\ rdp_for(p.mode) \in SecretRoles /\ "LinuxLogin" \in SecretRoles
    BY <1>t DEF StoreTypeOK, rdp_for, SecretRoles
  <2>5. update \in Update
    BY <2>4 DEF Items, Update, Secret
  <2> HIDE DEF p, draft, update
  <2> QED
    BY <1>t, <2>1, <2>3, <2>5, CommandBegins
<1> QED
  BY <1>1, <1>2, <1>3, <1>4

LEMMA CallsOfDelete ==
  /\ DeleteSecrets \in Seq(KeychainCall)
  /\ \A items : Leaves(items, DeleteSecrets, {})
<1> DEFINE a == [call |-> "delete", role |-> "RdpSystem"]
           b == [call |-> "delete", role |-> "RdpUser"]
           c == [call |-> "delete", role |-> "LinuxLogin"]
<1>1. a \in KeychainCall /\ b \in KeychainCall /\ c \in KeychainCall
  BY DEF KeychainCall, SecretRoles
<1>2. DeleteSecrets = <<a, b, c>>
  BY DEF DeleteSecrets
<1>3. a.call = "delete" /\ b.call = "delete" /\ c.call = "delete"
  OBVIOUS
<1>4. \A r \in SecretRoles : [call |-> "delete", role |-> r] \in {a, b, c}
  BY DEF SecretRoles
<1> HIDE DEF a, b, c
<1>5. DOMAIN DeleteSecrets = {1, 2, 3} /\ DeleteSecrets[1] = a /\ DeleteSecrets[2] = b /\ DeleteSecrets[3] = c
  BY <1>2
<1>6. DeleteSecrets \in Seq(KeychainCall)
  BY <1>1, <1>2, JoinedParts
<1>7. ASSUME NEW items PROVE Leaves(items, DeleteSecrets, {})
  BY <1>3, <1>4, <1>5 DEF Leaves
<1> QED
  BY <1>6, <1>7

LEMMA ScriptType ==
  ASSUME StoreTypeOK, Open, NEW j \in JobState, j.op = "save" => j.profile \in Draft
  PROVE  Script(j) \in Seq(KeychainCall)
<1>1. CASE j.op = "save"
  <2>1. /\ j.profile \in Draft /\ j.update \in Update /\ j.id \in Ids
        /\ store[j.id] \in ConnectionProfile \cup {Nothing} /\ keychain[j.id] \in Items
    BY <1>1, OpenStore DEF JobState, Update, StoreTypeOK, Documents
  <2> QED
    BY <1>1, <2>1, CallsOfSave DEF Script, Update
<1>2. CASE j.op = "delete"
  BY <1>2, CallsOfDelete DEF Script
<1>3. CASE j.op \notin {"save", "delete"}
  BY <1>3 DEF Script
<1> QED
  BY <1>1, <1>2, <1>3

\* A job that ends, whether it held the lock or not.
LEMMA Aborts ==
  ASSUME AtomicInv, NEW t \in Threads, Abort(t), UNCHANGED <<store, file, temp, sheet>>, RestOK'
  PROVE  AtomicInv'
<1>1. Idle \in JobState \cup {Idle} /\ jobs' = [jobs EXCEPT ![t] = Idle] /\ jobs'[t] = Idle
  BY DEF Abort, AtomicInv, StoreTypeOK
<1>2. /\ holder' \in Threads \cup {"nobody"} /\ holder' # t
      /\ \A u \in Threads : u # t => (holder' = u <=> holder = u)
  BY DEF Abort, AtomicInv, StoreTypeOK, Threads
<1>3. jobs'[t].step \notin Saving
  BY <1>1 DEF Idle, Saving
<1>4. LockOf(t)'
  BY <1>2, <1>3, LockRests
<1> QED
  BY <1>1, <1>2, <1>4, JobMoves

LEMMA SavingStarts ==
  ASSUME AtomicInv, NEW t \in Threads, Lock(t)
  PROVE  AtomicInv'
<1>t. RestOK' /\ UNCHANGED <<store, file, temp, sheet>> /\ StoreTypeOK
  BY DEF Lock, RestOK, AtomicInv, StoreTypeOK
<1>1. CASE Document(jobs[t]) = Nothing
  BY <1>1, <1>t, Aborts DEF Lock
<1>2. CASE Document(jobs[t]) # Nothing
  <2> DEFINE job == [jobs[t] EXCEPT !.step = "create", !.script = Script(jobs[t])]
  <2>1. Open /\ jobs[t].step = "lock" /\ holder = "nobody" /\ holder' = t /\ jobs' = [jobs EXCEPT ![t] = job]
    BY <1>2 DEF Lock
  <2>2. jobs[t] \in JobState /\ Carries(t, jobs[t], sheet)
    BY <1>t, <2>1, ThreadJobs DEF AtomicInv, JobInv, Idle
  <2>3. Script(jobs[t]) \in Seq(KeychainCall)
    BY <1>t, <2>1, <2>2, ScriptType DEF Carries
  <2>4. /\ job \in JobState /\ job.step = "create" /\ job.script = Script(jobs[t]) /\ job.op = jobs[t].op
        /\ job.id = jobs[t].id /\ job.profile = jobs[t].profile /\ job.update = jobs[t].update
    BY <2>2, <2>3 DEF JobState, Saving
  <2> HIDE DEF job
  <2>5. jobs'[t] = job
    BY <2>1, <1>t DEF StoreTypeOK
  <2>6. Document(jobs[t])' = Document(jobs[t]) /\ Script(jobs[t])' = Script(jobs[t])
    BY <1>t, <2>4, <2>5, SameDocument
  <2>7. LockOf(t)'
    BY <1>2, <2>1, <2>4, <2>5, <2>6 DEF LockOf, Saving
  <2>8. Carries(t, job, sheet')
    BY <1>t, <2>2, <2>4 DEF Carries
  <2>9. \A u \in Threads : u # t => (holder' = u <=> holder = u)
    BY <2>1 DEF Threads
  <2> QED
    BY <1>t, <2>1, <2>4, <2>7, <2>8, <2>9, JobMoves
<1> QED
  BY <1>1, <1>2

LEMMA TempWritten ==
  ASSUME AtomicInv, NEW t \in Threads, CreateTemp(t) \/ WriteTemp(t)
  PROVE  AtomicInv'
<1>t. RestOK' /\ UNCHANGED <<store, file, sheet, holder>> /\ StoreTypeOK /\ holder \in Threads \cup {"nobody"}
  BY DEF CreateTemp, WriteTemp, RestOK, AtomicInv, StoreTypeOK
<1> DEFINE step == IF jobs[t].step = "create" THEN "write" ELSE "rename"
           job == [jobs[t] EXCEPT !.step = step]
<1>1. /\ jobs[t].step \in {"create", "write"} /\ jobs' = [jobs EXCEPT ![t] = job]
      /\ step = "rename" => temp' = Document(jobs[t])
  BY DEF CreateTemp, WriteTemp
<1>2. jobs[t] \in JobState /\ Carries(t, jobs[t], sheet)
  BY <1>t, <1>1, ThreadJobs DEF AtomicInv, JobInv, Idle
<1>3. /\ job \in JobState /\ job.step = step /\ job.script = jobs[t].script /\ job.op = jobs[t].op
      /\ job.id = jobs[t].id /\ job.profile = jobs[t].profile /\ job.update = jobs[t].update
      /\ step \in Saving /\ jobs[t].step \in Saving /\ step # "secrets"
  BY <1>1, <1>2 DEF JobState, Saving
<1> HIDE DEF job, step
<1>4. jobs'[t] = job
  BY <1>1, <1>t DEF StoreTypeOK
<1>5. Document(jobs[t])' = Document(jobs[t]) /\ Script(jobs[t])' = Script(jobs[t])
  BY <1>t, <1>3, <1>4, SameDocument
<1>6. holder = t /\ Document(jobs[t]) # Nothing /\ jobs[t].script = Script(jobs[t])
  BY <1>3 DEF AtomicInv, LockInv, LockOf
<1>7. LockOf(t)'
  BY <1>t, <1>1, <1>3, <1>4, <1>5, <1>6 DEF LockOf
<1>8. Carries(t, job, sheet')
  BY <1>t, <1>2, <1>3 DEF Carries
<1> QED
  BY <1>t, <1>1, <1>3, <1>6, <1>7, <1>8, JobMoves

\* The job that renames the temporary file replaces one profile, in the file and in memory.
LEMMA Renaming ==
  ASSUME AtomicInv, NEW t \in Threads, RenameTemp(t)
  PROVE  /\ jobs[t] \in JobState /\ Carries(t, jobs[t], sheet) /\ store \in Documents /\ store = file
         /\ holder = t /\ jobs[t].script = Script(jobs[t])
         /\ \A u \in Threads : u # t => jobs[u].step \notin Saving
         /\ store' = Document(jobs[t]) /\ file' = store' /\ store' # Nothing
<1>1. Open /\ jobs[t].step = "rename" /\ "rename" \in Saving /\ store' = temp /\ file' = temp
  BY DEF RenameTemp, Saving
<1>2. jobs[t] \in JobState /\ Carries(t, jobs[t], sheet)
  BY <1>1, ThreadJobs DEF AtomicInv, JobInv, Idle
<1>3. holder = t /\ temp = Document(jobs[t]) /\ Document(jobs[t]) # Nothing /\ jobs[t].script = Script(jobs[t])
  BY <1>1 DEF AtomicInv, LockInv, LockOf
<1>4. \A u \in Threads : u # t => jobs[u].step \notin Saving
  BY <1>3 DEF AtomicInv, LockInv, LockOf
<1> QED
  BY <1>1, <1>2, <1>3, <1>4, OpenStore DEF AtomicInv

LEMMA DocumentReplaced ==
  ASSUME AtomicInv, NEW t \in Threads, RenameTemp(t)
  PROVE  AtomicInv' /\ store' \in Documents
<1>r. /\ jobs[t] \in JobState /\ Carries(t, jobs[t], sheet) /\ store \in Documents
      /\ holder = t /\ store' = Document(jobs[t]) /\ file' = store' /\ store' # Nothing
      /\ \A u \in Threads : u # t => jobs[u].step \notin Saving
  BY Renaming
<1>1. PICK p \in ConnectionProfile \cup {Nothing} : store' = [store EXCEPT ![jobs[t].id] = p]
  <2>1. jobs[t].op = "save" => jobs[t].profile \in Draft
    BY <1>r DEF Carries
  <2>2. jobs[t].op = "pin" => jobs[t].profile \in Certs
    BY <1>r DEF Carries
  <2> QED
    BY <1>r, <2>1, <2>2, DocumentType
<1>2. store' \in Documents
  BY <1>r, <1>1 DEF Documents
<1> DEFINE job == IF t = "main" THEN [jobs[t] EXCEPT !.step = "secrets"] ELSE Idle
<1>3. /\ jobs' = [jobs EXCEPT ![t] = job] /\ holder' = "nobody"
      /\ UNCHANGED <<pins, keychain, frames, frameFile, entries, sheet, interrupted>>
  BY DEF RenameTemp
<1>4. /\ job \in JobState \cup {Idle} /\ job.step \in {"secrets", "idle"}
      /\ job # Idle => Carries(t, job, sheet')
  BY <1>r, <1>3 DEF JobState, Idle, Carries
<1> HIDE DEF job
<1>5. /\ jobs' \in [Threads -> JobState \cup {Idle}] /\ jobs'[t] = job
      /\ \A u \in Threads : u # t => jobs'[u] = jobs[u]
  BY <1>3, <1>4 DEF AtomicInv, StoreTypeOK
<1>6. StoreTypeOK'
  <2>1. file' \in Documents \cup {Newer} /\ store' = load(file')
    BY <1>r, <1>2, StoreAssumption DEF load
  <2> QED
    BY <1>3, <1>5, <2>1 DEF AtomicInv, StoreTypeOK
<1>7. JobInv'
  BY <1>3, <1>4, <1>5 DEF AtomicInv, JobInv, Carries, Threads
<1>8. LockInv'
  <2>1. ASSUME NEW u \in Threads PROVE LockOf(u)'
    <3>1. jobs'[u].step \notin Saving /\ holder' # u
      BY <1>r, <1>3, <1>4, <1>5 DEF Saving, Threads
    <3> QED
      BY <3>1, LockRests
  <2> QED
    BY <2>1 DEF LockInv
<1> QED
  BY <1>2, <1>6, <1>7, <1>8 DEF AtomicInv

LEMMA PinStarts ==
  ASSUME AtomicInv, NEW pin \in pins, CertificatePinned(pin)
  PROVE  AtomicInv'
<1>1. /\ pin \in Ids \X Certs /\ "events" \in Threads /\ "lock" \notin Saving /\ "idle" \notin Saving
      /\ KeepSecrets \in Update /\ holder \in Threads \cup {"nobody"}
  BY DEF AtomicInv, StoreTypeOK, Threads, Saving, KeepSecrets, Update, Secret
<1>2. pin[1] \in Ids /\ pin[2] \in Certs
  BY <1>1
<1> DEFINE fresh == Job("pin", pin[1], Nothing, KeepSecrets)
           job == [fresh EXCEPT !.profile = pin[2]]
<1>3. /\ jobs["events"] = Idle /\ jobs' = [jobs EXCEPT !["events"] = job]
      /\ UNCHANGED <<store, file, temp, holder, keychain, frames, frameFile, entries, sheet, interrupted>>
      /\ pins' \subseteq pins
  BY DEF CertificatePinned
<1>4. fresh \in JobState /\ fresh.step = "lock" /\ fresh.op = "pin"
  BY <1>1, <1>2, NewJob
<1> HIDE DEF fresh
<1>5. job \in JobState /\ job.step = "lock" /\ job.op = "pin" /\ job.profile \in Certs
  BY <1>2, <1>4 DEF JobState
<1> HIDE DEF job
<1>6. jobs'["events"] = job
  BY <1>1, <1>3 DEF AtomicInv, StoreTypeOK
<1>7. holder # "events"
  <2>1. LockOf("events") /\ jobs["events"].step \notin Saving
    BY <1>1, <1>3 DEF AtomicInv, LockInv, Idle
  <2> QED
    BY <2>1 DEF LockOf
<1>8. LockOf("events")'
  BY <1>1, <1>3, <1>5, <1>6, <1>7, LockRests
<1>9. Carries("events", job, sheet')
  BY <1>5 DEF Carries
<1>10. RestOK'
  BY <1>3 DEF RestOK, AtomicInv, StoreTypeOK
<1> QED
  BY <1>1, <1>3, <1>5, <1>8, <1>9, <1>10, JobMoves

LEMMA SavingFails ==
  ASSUME AtomicInv, NEW t \in Threads, SaveFails(t)
  PROVE  AtomicInv'
<1>1. RestOK'
  BY DEF SaveFails, RestOK, AtomicInv, StoreTypeOK
<1> QED
  BY <1>1, Aborts DEF SaveFails

LEMMA CallType ==
  ASSUME NEW items \in Items, NEW c \in KeychainCall
  PROVE  Call(items, c) \in Items
BY DEF Items, KeychainCall, Call, Secret

LEMMA NextCall ==
  ASSUME NEW script \in Seq(KeychainCall), script # << >>
  PROVE  /\ Head(script) = script[1] /\ 1 \in DOMAIN script /\ Head(script) \in KeychainCall
         /\ Tail(script) \in Seq(KeychainCall)
         /\ \A k \in DOMAIN Tail(script) : k + 1 \in DOMAIN script /\ Tail(script)[k] = script[k + 1] /\ k \in Nat \ {0}
         /\ \A k \in DOMAIN script : k # 1 => k \in Nat /\ k - 1 \in DOMAIN Tail(script) /\ Tail(script)[k - 1] = script[k]
OBVIOUS

\* The main thread at its Keychain calls, one of which is made or refused.
LEMMA SecretsMove ==
  ASSUME AtomicInv, SecretStep
  PROVE  LET job == jobs["main"] IN
         /\ Open /\ job \in JobState /\ job.script # << >> /\ job.id \in Ids /\ job.script \in Seq(KeychainCall)
         /\ jobs' = [jobs EXCEPT !["main"] = [job EXCEPT !.script = Tail(job.script)]]
         /\ keychain' = [keychain EXCEPT ![job.id] = Call(keychain[job.id], Head(job.script))]
         /\ [job EXCEPT !.script = Tail(job.script)] \in JobState
<1>1. "main" \in Threads /\ StoreTypeOK
  BY DEF Threads, AtomicInv
<1>2. /\ Open /\ jobs["main"].step = "secrets" /\ jobs["main"].script # << >>
  BY DEF SecretStep
<1>3. jobs["main"] \in JobState
  BY <1>1, <1>2, ThreadJobs
<1>4. /\ jobs["main"].id \in Ids /\ jobs["main"].script \in Seq(KeychainCall)
  BY <1>3 DEF JobState
<1>5. Tail(jobs["main"].script) \in Seq(KeychainCall)
  BY <1>2, <1>4, NextCall
<1>6. [jobs["main"] EXCEPT !.script = Tail(jobs["main"].script)] \in JobState
  BY <1>3, <1>5 DEF JobState
<1> QED
  BY <1>2, <1>3, <1>4, <1>6 DEF SecretStep

LEMMA CallMade ==
  ASSUME AtomicInv, SecretStep
  PROVE  AtomicInv'
<1> DEFINE job == jobs["main"]
           next == [job EXCEPT !.script = Tail(job.script)]
<1>1. /\ Open /\ job \in JobState /\ job.script # << >> /\ job.id \in Ids /\ job.script \in Seq(KeychainCall)
      /\ jobs' = [jobs EXCEPT !["main"] = next]
      /\ keychain' = [keychain EXCEPT ![job.id] = Call(keychain[job.id], Head(job.script))]
      /\ next \in JobState
  BY SecretsMove
<1>2. /\ UNCHANGED <<store, file, temp, holder, pins, frames, frameFile, entries, sheet, interrupted>>
      /\ job.step = "secrets" /\ "main" \in Threads /\ "secrets" \notin Saving
  BY DEF SecretStep, Threads, Saving
<1>3. keychain' \in [Ids -> Items]
  <2>1. keychain \in [Ids -> Items]
    BY DEF AtomicInv, StoreTypeOK
  <2>2. Call(keychain[job.id], Head(job.script)) \in Items
    BY <1>1, <2>1, NextCall, CallType
  <2> QED
    BY <1>1, <2>1, <2>2
<1>4. next.step = "secrets" /\ next.op = job.op /\ next.profile = job.profile
  BY <1>1, <1>2 DEF JobState
<1>5. Carries("main", job, sheet)
  BY <1>1, <1>2 DEF AtomicInv, JobInv, Idle
<1>6. jobs'["main"] = next
  BY <1>1, <1>2 DEF AtomicInv, StoreTypeOK
<1>7. holder # "main"
  BY <1>2 DEF AtomicInv, LockInv, LockOf
<1> HIDE DEF next
<1>8. LockOf("main")'
  BY <1>2, <1>4, <1>6, <1>7, LockRests
<1>9. Carries("main", next, sheet')
  BY <1>2, <1>4, <1>5 DEF Carries
<1>10. RestOK' /\ holder' \in Threads \cup {"nobody"}
  BY <1>2, <1>3 DEF RestOK, AtomicInv, StoreTypeOK
<1> QED
  BY <1>1, <1>2, <1>8, <1>9, <1>10, JobMoves

LEMMA CallRefused ==
  ASSUME AtomicInv, SecretStepFails
  PROVE  AtomicInv'
<1>1. "main" \in Threads /\ jobs["main"].step = "secrets"
  BY DEF SecretStepFails, Threads
<1>2. jobs["main"].id \in Ids
  BY <1>1, ThreadJobs DEF JobState, AtomicInv
<1>3. RestOK'
  BY <1>2 DEF SecretStepFails, RestOK, AtomicInv, StoreTypeOK
<1> QED
  BY <1>1, <1>3, Aborts DEF SecretStepFails

\* What Finish does, whether the frame file is written or not.
LEMMA Finishing ==
  ASSUME AtomicInv, NEW written \in BOOLEAN, Finish(written)
  PROVE  /\ Open /\ jobs["main"].step = "secrets" /\ jobs["main"].script = << >> /\ jobs["main"] \in JobState
         /\ jobs["main"].id \in Ids /\ Carries("main", jobs["main"], sheet)
         /\ jobs' = [jobs EXCEPT !["main"] = Idle] /\ jobs'["main"] = Idle
         /\ UNCHANGED <<store, file, temp, holder, pins, keychain, remembered>>
<1>1. "main" \in Threads
  BY DEF Threads
<1>2. /\ Open /\ jobs["main"].step = "secrets" /\ jobs["main"].script = << >>
      /\ jobs' = [jobs EXCEPT !["main"] = Idle] /\ UNCHANGED <<store, file, temp, holder, pins, keychain, remembered>>
  BY DEF Finish
<1>3. jobs["main"] \in JobState
  BY <1>1, <1>2, ThreadJobs DEF AtomicInv
<1> QED
  BY <1>1, <1>2, <1>3 DEF AtomicInv, JobInv, JobState, Idle, StoreTypeOK

LEMMA CommandFinishes ==
  ASSUME AtomicInv, NEW written \in BOOLEAN, Finish(written)
  PROVE  AtomicInv'
<1> DEFINE job == jobs["main"]
<1>t. RestOK /\ StoreTypeOK /\ "main" \in Threads /\ holder \in Threads \cup {"nobody"}
  BY DEF RestOK, AtomicInv, StoreTypeOK, Threads
<1>1. /\ Open /\ job.step = "secrets" /\ job \in JobState /\ job.id \in Ids /\ Carries("main", job, sheet)
      /\ jobs' = [jobs EXCEPT !["main"] = Idle] /\ jobs'["main"] = Idle
      /\ UNCHANGED <<store, file, temp, holder, pins, keychain>>
  BY Finishing
<1>2. frames' \in [Ids -> WindowFrames \cup {Nothing}]
  BY <1>t, <1>1 DEF Finish, RestOK
<1>3. /\ frameFile' \in [Ids -> WindowFrames \cup {Nothing}] /\ entries' \in Documents
      /\ interrupted' \in SUBSET Ids
  BY <1>t, <1>1, <1>2, OpenStore DEF Finish, RestOK
<1>4. sheet' \in Sheet \cup {Nothing}
  <2>1. CASE job.op = "forget"
    <3>1. sheet \in Sheet
      BY <1>1, <2>1 DEF Carries
    <3>2. [sheet EXCEPT !.profile.cert_pin = Nothing] \in Sheet
      BY <3>1 DEF Sheet, Draft
    <3> QED
      BY <2>1, <3>1, <3>2 DEF Finish
  <2>2. CASE job.op # "forget"
    BY <1>t, <2>2 DEF Finish, RestOK
  <2> QED
    BY <2>1, <2>2
<1>5. RestOK'
  BY <1>t, <1>1, <1>2, <1>3, <1>4 DEF RestOK
<1>6. holder # "main" /\ "idle" \notin Saving
  BY <1>t, <1>1 DEF AtomicInv, LockInv, LockOf, Saving
<1>7. LockOf("main")'
  BY <1>1, <1>6, LockRests DEF Idle
<1> QED
  BY <1>t, <1>1, <1>5, <1>7, JobMoves

LEMMA AppRelaunches ==
  ASSUME AtomicInv, Relaunch
  PROVE  AtomicInv'
<1>1. /\ holder' = "nobody" /\ \A t \in Threads : jobs'[t] = Idle
      /\ jobs' \in [Threads -> JobState \cup {Idle}]
  BY DEF Relaunch, AtomicInv, StoreTypeOK
<1>2. file' \in Documents \cup {Newer} /\ store' = load(file') /\ (store' = Closed \/ store' \in Documents)
  BY DEF Relaunch, AtomicInv, StoreTypeOK, load
<1>3. NoDocument \in Documents
  BY DEF NoDocument, Documents
<1>4. jobs["main"].step = "secrets" => jobs["main"].id \in Ids
  BY ThreadJobs DEF Threads, JobState, AtomicInv
<1>5. interrupted' \in SUBSET Ids
  BY <1>4 DEF Relaunch, AtomicInv, StoreTypeOK
<1>6. RestOK'
  BY <1>2, <1>3, <1>5 DEF Relaunch, RestOK, AtomicInv, StoreTypeOK
<1>7. StoreTypeOK'
  BY <1>1, <1>2, <1>6 DEF StoreTypeOK, RestOK
<1>8. JobInv'
  BY <1>1 DEF JobInv
<1>9. ASSUME NEW t \in Threads PROVE LockOf(t)'
  <2>1. jobs'[t].step \notin Saving /\ holder' # t
    BY <1>1 DEF Saving, Idle, Threads
  <2> QED
    BY <2>1, LockRests
<1> QED
  BY <1>7, <1>8, <1>9 DEF AtomicInv, LockInv

LEMMA AtomicStep == AtomicInv /\ [StoreNext]_storeVars => AtomicInv'
<1> SUFFICES ASSUME AtomicInv, [StoreNext]_storeVars PROVE AtomicInv'
  OBVIOUS
<1>1. ASSUME NEW t \in Threads, Lock(t) \/ CreateTemp(t) \/ WriteTemp(t) \/ RenameTemp(t) \/ SaveFails(t)
      PROVE  AtomicInv'
  BY <1>1, SavingStarts, TempWritten, DocumentReplaced, SavingFails
<1> QED
  BY <1>1, PageActions, Commands, PinStarts, CallMade, CallRefused, CommandFinishes, AppRelaunches
     DEF StoreNext, Threads

LEMMA AtomicStart == StoreInit => AtomicInv
<1> SUFFICES ASSUME StoreInit PROVE AtomicInv
  OBVIOUS
<1>1. NoDocument \in Documents
  BY DEF NoDocument, Documents
<1>2. file \in Documents \cup {Newer} /\ store = load(file) /\ entries \in Documents
  BY <1>1, StoreAssumption DEF StoreInit, load
<1>3. keychain \in [Ids -> Items]
  BY DEF StoreInit, NoItems, Items, Secret
<1>4. \A t \in Threads : jobs[t] = Idle
  BY DEF StoreInit, Threads
<1>5. StoreTypeOK
  BY <1>2, <1>3 DEF StoreInit, StoreTypeOK, Threads
<1>6. JobInv
  BY <1>4 DEF JobInv
<1>7. LockInv
  BY <1>4 DEF LockInv, LockOf, StoreInit, Idle, Saving, Threads
<1> QED
  BY <1>5, <1>6, <1>7 DEF AtomicInv

LEMMA AtomicAlways == StoreSpec => []AtomicInv
BY AtomicStart, AtomicStep, PTL DEF StoreSpec

-----------------------------------------------------------------------------
(* The store implements AtomicProfiles.                                     *)

LEMMA RenameCommits ==
  ASSUME AtomicInv, NEW t \in Threads, RenameTemp(t)
  PROVE  Atomic!Commit
<1>r. /\ jobs[t] \in JobState /\ Carries(t, jobs[t], sheet) /\ store \in Documents
      /\ store' = Document(jobs[t]) /\ file' = store' /\ store' # Nothing
  BY Renaming
<1>1. PICK p \in ConnectionProfile \cup {Nothing} : store' = [store EXCEPT ![jobs[t].id] = p]
  <2>1. jobs[t].op = "save" => jobs[t].profile \in Draft
    BY <1>r DEF Carries
  <2>2. jobs[t].op = "pin" => jobs[t].profile \in Certs
    BY <1>r DEF Carries
  <2> QED
    BY <1>r, <2>1, <2>2, DocumentType
<1>2. jobs[t].id \in Ids
  BY <1>r DEF JobState
<1> QED
  BY <1>r, <1>1, <1>2 DEF Atomic!Commit, Atomic!Documents, Documents

LEMMA StepIsAtomic ==
  ASSUME AtomicInv, [StoreNext]_storeVars
  PROVE  [Atomic!AtomicNext]_<<file, store>>
<1>1. CASE \E t \in Threads : RenameTemp(t)
  BY <1>1, RenameCommits DEF Atomic!AtomicNext
<1>2. CASE Relaunch
  <2>1. store' = load(file) /\ file' = file
    BY <1>2 DEF Relaunch
  <2> QED
    BY <2>1 DEF Atomic!AtomicNext, Atomic!Reopen, Atomic!Opened, load
<1>3. CASE ~Relaunch /\ ~\E t \in Threads : RenameTemp(t)
  <2>1. store' = store /\ file' = file
    BY <1>3 DEF StoreNext, storeVars, Threads, OpenEdit, EditIntent, DeleteProfile, OpenNew, CloseSheet, ForgetCertificate,
       SaveSheet, DuplicateProfile, Trust, CertificatePinned, Lock, CreateTemp, WriteTemp, SaveFails, SecretStep,
       SecretStepFails, Finish, SaveFrame
  <2> QED
    BY <2>1
<1> QED
  BY <1>1, <1>2, <1>3

(* Whatever fails and whenever the app ends, profiles.toml and the document *)
(* in memory change together and one profile at a time: ProfileFile::save   *)
(* under ProfileService's lock implements the atomic store, for any number  *)
(* of profiles, commands, pins and faults.                                  *)
THEOREM StoreIsAtomic == StoreSpec => SavesAreAtomic
<1>1. StoreInit => Atomic!AtomicInit
  BY AtomicStart DEF AtomicInv, StoreTypeOK, Atomic!AtomicInit, Atomic!Opened, Atomic!Documents, Documents, load
<1>2. AtomicInv /\ [StoreNext]_storeVars => [Atomic!AtomicNext]_<<file, store>>
  BY StepIsAtomic
<1> QED
  BY <1>1, <1>2, AtomicAlways, PTL DEF StoreSpec, SavesAreAtomic, Atomic!AtomicSpec

-----------------------------------------------------------------------------
(* Passwords: what each Keychain call leaves true.                          *)

LEMMA CallEffect ==
  ASSUME NEW items \in Items, NEW c \in KeychainCall
  PROVE  /\ c.role \in SecretRoles /\ c.call \in {"set", "move", "delete"}
         /\ c.call = "set" => c.secret # Nothing /\ Call(items, c) = [items EXCEPT ![c.role] = c.secret]
         /\ c.call = "move" => /\ c.from \in SecretRoles
                               /\ items[c.from] = Nothing => Call(items, c) = items
                               /\ items[c.from] # Nothing => Call(items, c) = [items EXCEPT ![c.role] = items[c.from]]
         /\ c.call = "delete" => c = [call |-> "delete", role |-> c.role] /\ Call(items, c) = [items EXCEPT ![c.role] = Nothing]
<1>1. CASE c \in [call : {"set"}, role : SecretRoles, secret : Passwords]
  BY <1>1, StoreAssumption DEF Call
<1>2. CASE c \in [call : {"move"}, role : SecretRoles, from : SecretRoles]
  BY <1>2 DEF Call
<1>3. CASE c \in [call : {"delete"}, role : SecretRoles]
  BY <1>3 DEF Call
<1> QED
  BY <1>1, <1>2, <1>3 DEF KeychainCall

LEMMA SafeStep ==
  ASSUME NEW items \in Items, NEW script \in Seq(KeychainCall), script # << >>, Safe(items, script)
  PROVE  Safe(Call(items, Head(script)), Tail(script))
<1> DEFINE c == Head(script)  after == Call(items, c)  rest == Tail(script)
<1>1. /\ c = script[1] /\ c \in KeychainCall
      /\ \A k \in DOMAIN rest : k + 1 \in DOMAIN script /\ rest[k] = script[k + 1] /\ k \in Nat \ {0}
  BY NextCall
<1>2. /\ c.role \in SecretRoles
      /\ c.call = "set" => c.secret # Nothing /\ after = [items EXCEPT ![c.role] = c.secret]
      /\ c.call = "move" => /\ items[c.from] = Nothing => after = items
                            /\ items[c.from] # Nothing => after = [items EXCEPT ![c.role] = items[c.from]]
  BY <1>1, CallEffect
<1> HIDE DEF c, after, rest
<1> SUFFICES ASSUME NEW k \in DOMAIN rest, rest[k].call = "delete", rest[k].role \in RdpRoles
             PROVE  k = 1 /\ (after[Other(rest[k].role)] # Nothing \/ after[rest[k].role] = Nothing)
  BY DEF Safe, c, after, rest
<1>3. k + 1 \in DOMAIN script /\ rest[k] = script[k + 1] /\ k \in Nat \ {0}
  BY <1>1
<1>4. /\ k + 1 = 2 /\ script[1].role = Other(script[2].role)
      /\ \/ script[1].call = "set" /\ script[1].secret # Nothing
         \/ script[1].call = "move" /\ script[1].from = script[2].role
  BY <1>3 DEF Safe
<1>5. k = 1 /\ rest[k] = script[2]
  BY <1>3, <1>4
<1>6. DOMAIN items = SecretRoles /\ Other(rest[k].role) \in SecretRoles /\ Other(rest[k].role) # rest[k].role
  BY DEF Items, Other, SecretRoles, RdpRoles
<1> QED
  BY <1>1, <1>2, <1>4, <1>5, <1>6 DEF Items

LEMMA LeavesStep ==
  ASSUME NEW items \in Items, NEW script \in Seq(KeychainCall), script # << >>, NEW roles, Leaves(items, script, roles)
  PROVE  Leaves(Call(items, Head(script)), Tail(script), roles)
<1> DEFINE c == Head(script)  after == Call(items, c)  rest == Tail(script)
<1>1. /\ c = script[1] /\ c \in KeychainCall /\ 1 \in DOMAIN script
      /\ \A k \in DOMAIN rest : k + 1 \in DOMAIN script /\ rest[k] = script[k + 1]
      /\ \A k \in DOMAIN script : k # 1 => k - 1 \in DOMAIN rest /\ rest[k - 1] = script[k]
  BY NextCall
<1>2. /\ c.role \in SecretRoles /\ c.call \in {"set", "move", "delete"}
      /\ c.call = "set" => after = [items EXCEPT ![c.role] = c.secret]
      /\ c.call = "move" => /\ items[c.from] = Nothing => after = items
                            /\ items[c.from] # Nothing => after = [items EXCEPT ![c.role] = items[c.from]]
      /\ c.call = "delete" => after = [items EXCEPT ![c.role] = Nothing]
  BY <1>1, CallEffect
<1> HIDE DEF c, after, rest
<1>3. \A k \in DOMAIN rest : rest[k].call # "delete" => rest[k].role \in roles
  BY <1>1 DEF Leaves
<1>4. ASSUME NEW r \in SecretRoles \ roles
      PROVE  after[r] = Nothing \/ \E k \in DOMAIN rest : rest[k] = [call |-> "delete", role |-> r]
  <2>1. CASE items[r] = Nothing
    <3>1. c.call # "delete" => c.role # r
      BY <1>1, <1>4 DEF Leaves
    <3> QED
      BY <1>2, <2>1, <3>1 DEF Items
  <2>2. CASE items[r] # Nothing
    <3>1. PICK k \in DOMAIN script : script[k] = [call |-> "delete", role |-> r]
      BY <1>4, <2>2 DEF Leaves
    <3>2. CASE k = 1
      BY <1>1, <1>2, <3>1, <3>2 DEF Items
    <3>3. CASE k # 1
      BY <1>1, <3>1, <3>3
    <3> QED
      BY <3>2, <3>3
  <2> QED
    BY <2>1, <2>2
<1> QED
  BY <1>3, <1>4 DEF Leaves, c, after, rest

-----------------------------------------------------------------------------
(* The passwords and frames of every profile, step by step.                 *)

\* The facts of TidyInv about one profile.
SecretsOf(i) ==
  AtSecrets(i) =>
    /\ jobs["main"].op = "delete" => store[i] = Nothing /\ Leaves(keychain[i], jobs["main"].script, {})
    /\ jobs["main"].op = "save" => /\ store[i] # Nothing /\ store[i].mode = jobs["main"].profile.mode
                                  /\ Safe(keychain[i], jobs["main"].script)
    /\ jobs["main"].op = "forget" => jobs["main"].script = << >>
CleanOf(i) ==
  /\ frames[i] = Nothing => frameFile[i] = Nothing
  /\ Open /\ (~AtSecrets(i) \/ jobs["main"].op = "forget") => Clean(i)
  /\ AtSecrets(i) /\ jobs["main"].op = "save" =>
       Leaves(keychain[i], jobs["main"].script, RolesOf(jobs["main"].profile.mode))

LEMMA TidyParts == TidyInv <=> \A i \in Ids : SecretsOf(i) /\ (i \notin interrupted => CleanOf(i))
BY DEF TidyInv, SecretsInv, CleanInv, SecretsOf, CleanOf

\* What happens elsewhere leaves the facts about a profile alone.
LEMMA ProfileRests ==
  ASSUME NEW i, store' = store \/ (store[i] # Nothing /\ store'[i] # Nothing /\ store'[i].mode = store[i].mode)
                \/ store'[i] = store[i],
         Open, keychain'[i] = keychain[i], frames'[i] = frames[i], frameFile'[i] = frameFile[i],
         (jobs'["main"] = jobs["main"]) \/ (~AtSecrets(i) /\ ~AtSecrets(i)')
  PROVE  (SecretsOf(i) => SecretsOf(i)') /\ (CleanOf(i) => CleanOf(i)')
<1>1. store'[i] = store[i] \/ (store[i] # Nothing /\ store'[i] # Nothing /\ store'[i].mode = store[i].mode)
  OBVIOUS
<1>2. AtSecrets(i)' <=> AtSecrets(i)
  BY DEF AtSecrets
<1>3. SecretsOf(i) => SecretsOf(i)'
  BY <1>1, <1>2 DEF SecretsOf, AtSecrets
<1>4. Clean(i) => Clean(i)'
  BY <1>1 DEF Clean
<1>5. CleanOf(i) => CleanOf(i)'
  BY <1>2, <1>4 DEF CleanOf, AtSecrets
<1> QED
  BY <1>3, <1>5

LEMMA TidyNext ==
  ASSUME \A i \in Ids : SecretsOf(i)' /\ (i \notin interrupted' => CleanOf(i)')
  PROVE  TidyInv'
BY DEF TidyInv, SecretsInv, CleanInv, SecretsOf, CleanOf

LEMMA TidyKept ==
  ASSUME TidyInv, Open, UNCHANGED <<store, keychain, frames, frameFile, interrupted>>,
         jobs'["main"] = jobs["main"] \/ (jobs["main"].step # "secrets" /\ jobs'["main"].step # "secrets")
  PROVE  TidyInv'
<1>1. ASSUME NEW i \in Ids PROVE (SecretsOf(i) => SecretsOf(i)') /\ (CleanOf(i) => CleanOf(i)')
  BY ProfileRests DEF AtSecrets
<1> QED
  BY <1>1, TidyParts, TidyNext

LEMMA CallKeepsTidy ==
  ASSUME AtomicInv, TidyInv, SecretStep
  PROVE  TidyInv'
<1> DEFINE job == jobs["main"]  next == [job EXCEPT !.script = Tail(job.script)]
<1>i. PICK id \in Ids : id = job.id
  BY SecretsMove
<1>1. /\ Open /\ job \in JobState /\ job.script # << >> /\ job.script \in Seq(KeychainCall)
      /\ jobs' = [jobs EXCEPT !["main"] = next]
      /\ keychain' = [keychain EXCEPT ![id] = Call(keychain[id], Head(job.script))]
  BY <1>i, SecretsMove
<1>2. UNCHANGED <<store, frames, frameFile, interrupted>> /\ job.step = "secrets"
  BY DEF SecretStep
<1>3. /\ jobs'["main"] = next /\ next.step = "secrets" /\ next.op = job.op /\ next.id = id
      /\ next.profile = job.profile /\ next.script = Tail(job.script)
  BY <1>i, <1>1, <1>2 DEF JobState, AtomicInv, StoreTypeOK, Threads
<1>4. keychain \in [Ids -> Items]
  BY DEF AtomicInv, StoreTypeOK
<1>5. keychain'[id] = Call(keychain[id], Head(job.script)) /\ keychain[id] \in Items
      /\ \A i \in Ids : i # id => keychain'[i] = keychain[i]
  BY <1>1, <1>4
<1>6. SecretsOf(id) /\ (id \notin interrupted => CleanOf(id))
  BY <1>1, TidyParts
<1>7. AtSecrets(id) /\ AtSecrets(id)' /\ \A i : i # id => ~AtSecrets(i) /\ ~AtSecrets(i)'
  BY <1>i, <1>2, <1>3 DEF AtSecrets
<1> HIDE DEF next
<1>8. ASSUME NEW i \in Ids, i # id PROVE (SecretsOf(i) => SecretsOf(i)') /\ (CleanOf(i) => CleanOf(i)')
  BY <1>1, <1>2, <1>5, <1>7, <1>8, ProfileRests
<1>9. SecretsOf(id)' /\ job.op # "forget"
  <2>1. job.op # "forget"
    BY <1>1, <1>6, <1>7 DEF SecretsOf
  <2>2. job.op = "delete" => store[id] = Nothing /\ Leaves(keychain'[id], next.script, {})
    BY <1>1, <1>3, <1>5, <1>6, <1>7, LeavesStep DEF SecretsOf
  <2>3. job.op = "save" => /\ store[id] # Nothing /\ store[id].mode = job.profile.mode
                           /\ Safe(keychain'[id], next.script)
    BY <1>1, <1>3, <1>5, <1>6, <1>7, SafeStep DEF SecretsOf
  <2> QED
    BY <1>2, <1>3, <2>1, <2>2, <2>3 DEF SecretsOf
<1>10. ASSUME id \notin interrupted PROVE CleanOf(id)'
  <2>1. CleanOf(id)
    BY <1>6, <1>10
  <2>2. job.op = "save" => Leaves(keychain'[id], next.script, RolesOf(job.profile.mode))
    BY <1>1, <1>3, <1>5, <1>7, <2>1, LeavesStep DEF CleanOf
  <2>3. frames[id] = Nothing => frameFile[id] = Nothing
    BY <2>1 DEF CleanOf
  <2> QED
    BY <1>2, <1>3, <1>7, <1>9, <2>2, <2>3 DEF CleanOf, AtSecrets
<1> QED
  BY <1>2, <1>8, <1>9, <1>10, TidyParts, TidyNext

\* Once a save is written, the calls that follow leave the passwords of its mode only.
LEMMA SaveLeaves ==
  ASSUME NEW p \in Draft, NEW previous \in ConnectionProfile \cup {Nothing}, NEW update \in Update, NEW items \in Items,
         IF previous = Nothing THEN items = NoItems
         ELSE \A r \in SecretRoles \ RolesOf(previous.mode) : items[r] = Nothing
  PROVE  Leaves(items, apply_secrets(p, previous, update), RolesOf(p.mode))
<1> DEFINE script == apply_secrets(p, previous, update)
<1>1. /\ \A k \in DOMAIN script : script[k].call # "delete" => script[k].role \in RolesOf(p.mode)
      /\ previous # Nothing /\ rdp_for(previous.mode) # rdp_for(p.mode) =>
           \E k \in DOMAIN script : script[k] = [call |-> "delete", role |-> rdp_for(previous.mode)]
      /\ p.mode # "RemoteLogin" =>
           \E k \in DOMAIN script : script[k] = [call |-> "delete", role |-> "LinuxLogin"]
  BY CallsOfSave DEF Update
<1> HIDE DEF script
<1> SUFFICES ASSUME NEW r \in SecretRoles \ RolesOf(p.mode)
             PROVE  items[r] = Nothing \/ \E k \in DOMAIN script : script[k] = [call |-> "delete", role |-> r]
  BY <1>1 DEF Leaves, script
<1>2. CASE previous = Nothing
  BY <1>2 DEF NoItems
<1>3. CASE previous # Nothing /\ r = "LinuxLogin"
  <2>1. p.mode # "RemoteLogin"
    BY <1>3 DEF RolesOf
  <2> QED
    BY <1>1, <1>3, <2>1
<1>4. CASE previous # Nothing /\ r # "LinuxLogin" /\ r = rdp_for(previous.mode)
  <2>1. rdp_for(previous.mode) # rdp_for(p.mode)
    BY <1>4 DEF RolesOf
  <2> QED
    BY <1>1, <1>4, <2>1
<1>5. CASE previous # Nothing /\ r # "LinuxLogin" /\ r # rdp_for(previous.mode)
  <2>1. r \in SecretRoles \ RolesOf(previous.mode)
    BY <1>5 DEF RolesOf
  <2> QED
    BY <1>5, <2>1
<1> QED
  BY <1>2, <1>3, <1>4, <1>5

LEMMA RenameKeepsTidy ==
  ASSUME AtomicInv, TidyInv, NEW t \in Threads, RenameTemp(t)
  PROVE  TidyInv'
<1> DEFINE job == jobs[t]  next == [job EXCEPT !.step = "secrets"]
<1>r. /\ job \in JobState /\ Carries(t, job, sheet) /\ store \in Documents /\ job.script = Script(job)
      /\ holder = t /\ store' = Document(job) /\ store' # Nothing
      /\ \A u \in Threads : u # t => jobs[u].step \notin Saving
  BY Renaming
<1>i. PICK id \in Ids : id = job.id
  BY <1>r DEF JobState
<1>o. /\ Open /\ job.step = "rename" /\ UNCHANGED <<keychain, frames, frameFile, interrupted>>
      /\ jobs' = [jobs EXCEPT ![t] = IF t = "main" THEN next ELSE Idle]
      /\ Open'
  BY DocumentReplaced, StoreAssumption DEF RenameTemp, Open
<1>1. PICK p \in ConnectionProfile \cup {Nothing} :
        /\ store' = [store EXCEPT ![id] = p]
        /\ job.op = "save" => p = job.profile /\ p \in ConnectionProfile
        /\ job.op = "delete" => p = Nothing
        /\ job.op \in {"forget", "pin"} => /\ store[id] # Nothing /\ p \in ConnectionProfile
                                          /\ p.mode = store[id].mode
  <2>1. job.op = "save" => job.profile \in Draft
    BY <1>r DEF Carries
  <2>2. job.op = "pin" => job.profile \in Certs
    BY <1>r DEF Carries
  <2> QED
    BY <1>r, <1>i, <2>1, <2>2, DocumentType
<1>2. store'[id] = p /\ \A i \in Ids : i # id => store'[i] = store[i]
  BY <1>r, <1>1 DEF Documents
<1>3. Nothing \notin ConnectionProfile
  BY StoreAssumption
<1>4. CASE t = "events"
  <2>1. jobs'["main"] = jobs["main"] /\ job.op = "pin"
    BY <1>r, <1>o, <1>4 DEF Carries, AtomicInv, StoreTypeOK, Threads
  <2>2. store[id] # Nothing /\ store'[id] # Nothing /\ store'[id].mode = store[id].mode
    BY <1>1, <1>2, <1>3, <2>1
  <2>3. ASSUME NEW i \in Ids PROVE (SecretsOf(i) => SecretsOf(i)') /\ (CleanOf(i) => CleanOf(i)')
    <3>1. (store[i] # Nothing /\ store'[i] # Nothing /\ store'[i].mode = store[i].mode) \/ store'[i] = store[i]
      BY <1>2, <2>2
    <3> QED
      BY <1>o, <2>1, <3>1, ProfileRests
  <2> QED
    BY <1>o, <2>3, TidyParts, TidyNext
<1>5. CASE t = "main"
  <2>1. /\ jobs'["main"] = next /\ next.step = "secrets" /\ next.id = id /\ next.op = job.op
        /\ next.profile = job.profile /\ next.script = job.script
    BY <1>r, <1>i, <1>o, <1>5 DEF AtomicInv, StoreTypeOK, JobState
  <2>2. ~AtSecrets(id) /\ AtSecrets(id)' /\ \A i : i # id => ~AtSecrets(i) /\ ~AtSecrets(i)'
    BY <1>i, <1>o, <1>5, <2>1 DEF AtSecrets
  <2> HIDE DEF next
  <2>3. ASSUME NEW i \in Ids, i # id PROVE (SecretsOf(i) => SecretsOf(i)') /\ (CleanOf(i) => CleanOf(i)')
    BY <1>o, <1>2, <2>2, <2>3, ProfileRests
  <2>4. /\ job.op \in {"save", "delete", "forget"} /\ (job.op = "save" => job.profile \in Draft)
        /\ job.update \in Update /\ keychain[id] \in Items /\ store[id] \in ConnectionProfile \cup {Nothing}
    BY <1>r, <1>5 DEF Carries, JobState, Update, AtomicInv, StoreTypeOK, Documents
  <2>5. CASE job.op = "delete"
    <3>1. Leaves(keychain[id], next.script, {}) /\ store'[id] = Nothing
      BY <1>r, <1>1, <1>2, <2>1, <2>5, CallsOfDelete DEF Script
    <3>2. SecretsOf(id)'
      BY <1>o, <2>1, <2>5, <3>1 DEF SecretsOf
    <3>3. CleanOf(id) => CleanOf(id)'
      BY <1>o, <2>1, <2>2, <2>5 DEF CleanOf
    <3> QED
      BY <1>o, <2>3, <3>2, <3>3, TidyParts, TidyNext
  <2>6. CASE job.op = "save"
    <3>1. next.script = apply_secrets(job.profile, store[id], job.update)
      BY <1>r, <1>i, <2>1, <2>6 DEF Script
    <3>2. Safe(keychain[id], next.script)
      <4>1. job.profile \in Draft /\ job.update \in [rdp : Secret, linux : Passwords \cup {"Keep", "Forget"}]
        BY <2>4, <2>6 DEF Update
      <4> HIDE DEF job
      <4>2. Safe(keychain[id], apply_secrets(job.profile, store[id], job.update))
        BY <2>4, <4>1, CallsOfSave
      <4> QED
        BY <3>1, <4>2
    <3>3. store'[id] # Nothing /\ store'[id].mode = job.profile.mode
      BY <1>1, <1>2, <1>3, <2>6
    <3>4. SecretsOf(id)'
      BY <1>o, <2>1, <2>6, <3>2, <3>3 DEF SecretsOf
    <3>5. ASSUME CleanOf(id) PROVE CleanOf(id)'
      <4>1. IF store[id] = Nothing THEN keychain[id] = NoItems
            ELSE \A r \in SecretRoles \ RolesOf(store[id].mode) : keychain[id][r] = Nothing
        BY <1>o, <2>2, <3>5 DEF CleanOf, Clean
      <4>2. Leaves(keychain[id], next.script, RolesOf(job.profile.mode))
        BY <2>4, <2>6, <3>1, <4>1, SaveLeaves
      <4>3. frames[id] = Nothing => frameFile[id] = Nothing
        BY <3>5 DEF CleanOf
      <4> QED
        BY <1>o, <2>1, <2>2, <2>6, <4>2, <4>3 DEF CleanOf
    <3> QED
      BY <1>o, <2>3, <3>4, <3>5, TidyParts, TidyNext
  <2>7. CASE job.op = "forget"
    <3>1. next.script = << >>
      BY <1>r, <2>1, <2>7 DEF Script
    <3>2. SecretsOf(id)'
      BY <2>1, <2>7, <3>1 DEF SecretsOf
    <3>3. store[id] # Nothing /\ store'[id] # Nothing /\ store'[id].mode = store[id].mode
      BY <1>1, <1>2, <1>3, <2>7
    <3>4. Clean(id) => Clean(id)'
      BY <1>o, <3>3 DEF Clean
    <3>5. CleanOf(id) => CleanOf(id)'
      BY <1>o, <2>1, <2>2, <2>7, <3>4 DEF CleanOf
    <3> QED
      BY <1>o, <2>3, <3>2, <3>5, TidyParts, TidyNext
  <2> QED
    BY <2>4, <2>5, <2>6, <2>7
<1> QED
  BY <1>4, <1>5 DEF Threads

LEMMA RefusalKeepsTidy ==
  ASSUME AtomicInv, TidyInv, SecretStepFails
  PROVE  TidyInv'
<1>1. /\ Open /\ jobs["main"].step = "secrets" /\ UNCHANGED <<store, keychain, frames, frameFile>>
      /\ jobs'["main"] = Idle /\ interrupted' = interrupted \cup {jobs["main"].id}
  BY DEF SecretStepFails, Abort, AtomicInv, StoreTypeOK, Threads
<1>2. \A i \in Ids : ~AtSecrets(i)'
  BY <1>1 DEF AtSecrets, Idle
<1>3. ASSUME NEW i \in Ids, i \notin interrupted' PROVE CleanOf(i) => CleanOf(i)'
  <2>1. ~AtSecrets(i)
    BY <1>1, <1>3 DEF AtSecrets
  <2> QED
    BY <1>1, <1>2, <2>1, ProfileRests
<1>4. ASSUME NEW i \in Ids PROVE SecretsOf(i)'
  BY <1>2 DEF SecretsOf
<1> QED
  BY <1>1, <1>3, <1>4, TidyParts, TidyNext

LEMMA FinishKeepsTidy ==
  ASSUME AtomicInv, TidyInv, NEW written \in BOOLEAN, Finish(written)
  PROVE  TidyInv'
<1> DEFINE job == jobs["main"]
           forgets == job.op = "delete" /\ frames[job.id] # Nothing
<1>1. /\ Open /\ job.step = "secrets" /\ job.script = << >> /\ Carries("main", job, sheet) /\ job \in JobState
      /\ jobs'["main"] = Idle /\ UNCHANGED <<store, keychain>>
  BY Finishing
<1>i. PICK id \in Ids : id = job.id
  BY Finishing
<1>2. /\ frames' = IF forgets THEN [frames EXCEPT ![id] = Nothing] ELSE frames
      /\ IF written
           THEN /\ frameFile' = (IF forgets THEN frames' ELSE frameFile)
                /\ interrupted' = (IF job.op = "delete" /\ (forgets \/ frameFile[id] = Nothing)
                                   THEN interrupted \ {id} ELSE interrupted)
           ELSE forgets /\ interrupted' = interrupted \cup {id} /\ frameFile' = frameFile
  BY <1>i DEF Finish
<1>3. \A i \in Ids : ~AtSecrets(i)'
  BY <1>1 DEF AtSecrets, Idle
<1>4. AtSecrets(id) /\ \A i \in Ids : i # id => ~AtSecrets(i)
  BY <1>1, <1>i DEF AtSecrets
<1>5. \A i \in Ids : SecretsOf(i) /\ (i \notin interrupted => CleanOf(i))
  BY TidyParts
<1>6. frames \in [Ids -> WindowFrames \cup {Nothing}]
  BY DEF AtomicInv, StoreTypeOK
<1>7. ASSUME NEW i \in Ids, i # id, i \notin interrupted' PROVE CleanOf(i)'
  <2>1. CleanOf(i) /\ Clean(i)
    BY <1>1, <1>2, <1>4, <1>5, <1>7 DEF CleanOf
  <2>2. frames'[i] = frames[i] /\ (frameFile'[i] = frames[i] \/ frameFile'[i] = frameFile[i])
    BY <1>2, <1>6, <1>7
  <2>3. Clean(i)'
    BY <1>1, <2>1, <2>2 DEF Clean
  <2>4. frames'[i] = Nothing => frameFile'[i] = Nothing
    BY <2>1, <2>2 DEF CleanOf
  <2> QED
    BY <1>3, <2>3, <2>4 DEF CleanOf
<1>8. ASSUME id \notin interrupted' PROVE CleanOf(id)'
  <2>1. written
    BY <1>2, <1>8
  <2>2. CASE job.op = "delete"
    <3>1. store[id] = Nothing /\ \A r \in SecretRoles : keychain[id][r] = Nothing
      BY <1>1, <1>4, <1>5, <2>2 DEF SecretsOf, Leaves
    <3>2. keychain[id] = NoItems
      <4>1. keychain[id] \in Items
        BY DEF AtomicInv, StoreTypeOK
      <4> QED
        BY <3>1, <4>1 DEF NoItems, Items
    <3>3. frames'[id] = Nothing
      BY <1>i, <1>2, <1>6, <2>2
    <3>4. frameFile'[id] = Nothing
      <4>1. CASE forgets
        BY <1>2, <2>1, <3>3, <4>1
      <4>2. CASE ~forgets /\ frameFile[id] # Nothing
        <5>1. id \notin interrupted /\ frames[id] = Nothing
          BY <1>i, <1>2, <1>8, <2>1, <2>2, <4>2
        <5> QED
          BY <1>5, <4>2, <5>1 DEF CleanOf
      <4>3. CASE ~forgets /\ frameFile[id] = Nothing
        BY <1>2, <2>1, <4>3
      <4> QED
        BY <4>1, <4>2, <4>3
    <3>5. Clean(id)'
      BY <1>1, <3>1, <3>2, <3>3, <3>4 DEF Clean
    <3> QED
      BY <1>3, <3>4, <3>5 DEF CleanOf
  <2>3. CASE job.op # "delete"
    <3>1. id \notin interrupted /\ frames' = frames /\ frameFile' = frameFile
      BY <1>2, <1>8, <2>1, <2>3
    <3>2. CleanOf(id) /\ SecretsOf(id)
      BY <1>5, <3>1
    <3>3. CASE job.op = "forget"
      <4>1. Clean(id)
        BY <1>1, <3>2, <3>3 DEF CleanOf
      <4>2. Clean(id)'
        BY <1>1, <3>1, <4>1 DEF Clean
      <4> QED
        BY <1>3, <3>1, <3>2, <4>2 DEF CleanOf
    <3>4. CASE job.op = "save"
      <4>1. Leaves(keychain[id], << >>, RolesOf(job.profile.mode)) /\ store[id] # Nothing
            /\ store[id].mode = job.profile.mode
        BY <1>1, <1>4, <3>2, <3>4 DEF CleanOf, SecretsOf
      <4>2. \A r \in SecretRoles \ RolesOf(store[id].mode) : keychain[id][r] = Nothing
        BY <4>1 DEF Leaves
      <4>3. Clean(id)'
        BY <1>1, <4>1, <4>2 DEF Clean
      <4> QED
        BY <1>3, <3>1, <3>2, <4>3 DEF CleanOf
    <3> QED
      BY <1>1, <2>3, <3>3, <3>4 DEF Carries, JobState
  <2> QED
    BY <2>2, <2>3
<1>9. ASSUME NEW i \in Ids PROVE SecretsOf(i)'
  BY <1>3 DEF SecretsOf
<1> QED
  BY <1>7, <1>8, <1>9, TidyNext

LEMMA FrameKeepsTidy ==
  ASSUME AtomicInv, TidyInv, NEW i \in Ids, NEW f \in WindowFrames, SaveFrame(i, f)
  PROVE  TidyInv'
<1>1. /\ Open /\ jobs["main"] = Idle /\ jobs' = jobs /\ store[i] # Nothing /\ frames' = [frames EXCEPT ![i] = f]
      /\ frameFile' = frames' \/ frameFile' = frameFile
      /\ UNCHANGED <<store, keychain, interrupted>>
  BY DEF SaveFrame, MainIdle
<1>2. f # Nothing /\ frames \in [Ids -> WindowFrames \cup {Nothing}]
  BY StoreAssumption DEF AtomicInv, StoreTypeOK
<1>3. \A j \in Ids : ~AtSecrets(j) /\ ~AtSecrets(j)'
  BY <1>1 DEF AtSecrets, Idle
<1>4. ASSUME NEW j \in Ids, CleanOf(j) PROVE CleanOf(j)'
  <2>1. Clean(j) /\ (frames[j] = Nothing => frameFile[j] = Nothing)
    BY <1>1, <1>3, <1>4 DEF CleanOf
  <2>2. (j = i /\ frames'[j] = f) \/ (j # i /\ frames'[j] = frames[j])
    BY <1>1, <1>2
  <2>3. frames'[j] = Nothing => frameFile'[j] = Nothing
    BY <1>1, <1>2, <2>1, <2>2
  <2>4. Clean(j)'
    BY <1>1, <2>1, <2>2 DEF Clean
  <2> QED
    BY <1>3, <2>3, <2>4 DEF CleanOf
<1>5. ASSUME NEW j \in Ids PROVE SecretsOf(j)'
  BY <1>3 DEF SecretsOf
<1> QED
  BY <1>1, <1>4, <1>5, TidyParts, TidyNext

LEMMA RelaunchKeepsTidy ==
  ASSUME AtomicInv, TidyInv, Relaunch
  PROVE  TidyInv'
<1>1. /\ Open /\ store' = store /\ frames' = frameFile /\ UNCHANGED <<keychain, frameFile>> /\ jobs'["main"] = Idle
      /\ interrupted' = (IF jobs["main"].step = "secrets" THEN interrupted \cup {jobs["main"].id} ELSE interrupted)
  BY DEF Relaunch, AtomicInv, StoreTypeOK, Threads
<1>2. \A i \in Ids : ~AtSecrets(i)'
  BY <1>1 DEF AtSecrets, Idle
<1>3. ASSUME NEW i \in Ids, i \notin interrupted' PROVE CleanOf(i)'
  <2>1. i \notin interrupted /\ ~AtSecrets(i)
    BY <1>1, <1>3 DEF AtSecrets
  <2>2. Clean(i)
    BY <1>1, <2>1, TidyParts DEF CleanOf
  <2>3. Clean(i)'
    BY <1>1, <2>2 DEF Clean
  <2> QED
    BY <1>1, <1>2, <2>3 DEF CleanOf
<1>4. ASSUME NEW i \in Ids PROVE SecretsOf(i)'
  BY <1>2 DEF SecretsOf
<1> QED
  BY <1>3, <1>4, TidyNext

LEMMA OthersKeepTidy ==
  ASSUME AtomicInv, TidyInv,
         \/ \E i \in Ids : OpenEdit(i) \/ EditIntent(i) \/ DeleteProfile(i)
         \/ \E i \in Ids, mode \in Modes : OpenNew(i, mode)
         \/ CloseSheet \/ ForgetCertificate
         \/ \E mode \in Modes, name \in Names, update \in Updates : SaveSheet(mode, name, update)
         \/ \E i, copy \in Ids : DuplicateProfile(i, copy)
         \/ \E i \in Ids, cert \in Certs : Trust(i, cert)
         \/ \E pin \in pins : CertificatePinned(pin)
         \/ \E t \in Threads : Lock(t) \/ CreateTemp(t) \/ WriteTemp(t) \/ SaveFails(t)
  PROVE  TidyInv'
<1>t. "main" \in Threads /\ "events" \in Threads /\ "events" # "main" /\ StoreTypeOK
      /\ jobs \in [Threads -> JobState \cup {Idle}]
  BY DEF Threads, AtomicInv, StoreTypeOK
<1>1. Open /\ UNCHANGED <<store, keychain, frames, frameFile, interrupted>>
  BY DEF OpenEdit, EditIntent, DeleteProfile, OpenNew, CloseSheet, ForgetCertificate, SaveSheet, DuplicateProfile, Begin,
     MainIdle, Trust, CertificatePinned, Lock, CreateTemp, WriteTemp, SaveFails
<1>2. CASE \/ \E i \in Ids : OpenEdit(i) \/ EditIntent(i)
           \/ \E i \in Ids, mode \in Modes : OpenNew(i, mode)
           \/ CloseSheet
           \/ \E i \in Ids, cert \in Certs : Trust(i, cert)
  <2>1. jobs' = jobs
    BY <1>2 DEF OpenEdit, EditIntent, OpenNew, CloseSheet, Trust
  <2> QED
    BY <1>1, <2>1, TidyKept
<1>3. ASSUME NEW op, NEW id, NEW profile, NEW update, Begin(Job(op, id, profile, update)) PROVE TidyInv'
  <2>1. jobs["main"] = Idle /\ jobs'["main"] = Job(op, id, profile, update)
    BY <1>3, <1>t DEF Begin, MainIdle
  <2>2. jobs["main"].step # "secrets" /\ jobs'["main"].step # "secrets"
    BY <2>1 DEF Idle, Job
  <2> QED
    BY <1>1, <2>2, TidyKept
<1>4. CASE \E i \in Ids : DeleteProfile(i)
  BY <1>3, <1>4 DEF DeleteProfile
<1>5. CASE ForgetCertificate
  BY <1>3, <1>5 DEF ForgetCertificate
<1>6. CASE \E mode \in Modes, name \in Names, update \in Updates : SaveSheet(mode, name, update)
  BY <1>3, <1>6 DEF SaveSheet
<1>7. CASE \E i, copy \in Ids : DuplicateProfile(i, copy)
  BY <1>3, <1>7 DEF DuplicateProfile
<1>8. CASE \E pin \in pins : CertificatePinned(pin)
  <2>1. jobs'["main"] = jobs["main"]
    BY <1>8, <1>t DEF CertificatePinned
  <2> QED
    BY <1>1, <2>1, TidyKept
<1>9. ASSUME NEW t \in Threads, Lock(t) \/ CreateTemp(t) \/ WriteTemp(t) \/ SaveFails(t) PROVE TidyInv'
  <2>1. CASE t # "main"
    <3>1. jobs'["main"] = jobs["main"]
      BY <1>9, <1>t, <2>1 DEF Lock, CreateTemp, WriteTemp, SaveFails, Abort
    <3> QED
      BY <1>1, <3>1, TidyKept
  <2>2. CASE t = "main"
    <3>1. jobs["main"].step # "secrets" /\ jobs["main"].step # "idle"
      BY <1>9, <2>2 DEF Lock, CreateTemp, WriteTemp, SaveFails
    <3>2. jobs["main"] \in JobState
      BY <1>t, <3>1, ThreadJobs
    <3>3. \/ jobs'["main"] = Idle
          \/ jobs'["main"] = [jobs["main"] EXCEPT !.step = "create", !.script = Script(jobs["main"])]
          \/ jobs'["main"] = [jobs["main"] EXCEPT !.step = "write"]
          \/ jobs'["main"] = [jobs["main"] EXCEPT !.step = "rename"]
      BY <1>9, <1>t, <2>2 DEF Lock, CreateTemp, WriteTemp, SaveFails, Abort
    <3>4. jobs'["main"].step # "secrets"
      <4>1. ASSUME NEW j \in JobState, NEW calls
            PROVE  /\ [j EXCEPT !.step = "create", !.script = calls].step = "create"
                   /\ [j EXCEPT !.step = "write"].step = "write" /\ [j EXCEPT !.step = "rename"].step = "rename"
        BY DEF JobState
      <4>2. Idle.step = "idle"
        BY DEF Idle
      <4> QED
        BY <3>2, <3>3, <4>1, <4>2
    <3> QED
      BY <1>1, <3>1, <3>4, TidyKept
  <2> QED
    BY <2>1, <2>2
<1> QED
  BY <1>2, <1>4, <1>5, <1>6, <1>7, <1>8, <1>9

LEMMA TidyStep ==
  ASSUME AtomicInv, TidyInv, [StoreNext]_storeVars
  PROVE  TidyInv'
<1>1. CASE UNCHANGED storeVars
  BY <1>1 DEF storeVars, TidyInv, SecretsInv, CleanInv, AtSecrets, Clean, Open
<1>2. CASE StoreNext
  BY <1>2, OthersKeepTidy, CallKeepsTidy, RenameKeepsTidy, RefusalKeepsTidy, FinishKeepsTidy, FrameKeepsTidy, RelaunchKeepsTidy
     DEF StoreNext, Threads
<1> QED
  BY <1>1, <1>2

LEMMA TidyStart == StoreInit => TidyInv
<1> SUFFICES ASSUME StoreInit PROVE TidyInv
  OBVIOUS
<1>1. \A i \in Ids : ~AtSecrets(i)
  BY DEF StoreInit, AtSecrets, Idle
<1>2. \A i \in Ids : frames[i] = Nothing /\ frameFile[i] = Nothing /\ keychain[i] = NoItems
  BY DEF StoreInit
<1>3. ASSUME NEW i \in Ids PROVE Clean(i)
  BY <1>2 DEF Clean, NoItems
<1> QED
  BY <1>1, <1>2, <1>3, TidyParts DEF SecretsOf, CleanOf

LEMMA TidyAlways == StoreSpec => [](AtomicInv /\ TidyInv)
<1>1. StoreInit => AtomicInv /\ TidyInv
  BY AtomicStart, TidyStart
<1>2. AtomicInv /\ TidyInv /\ [StoreNext]_storeVars => (AtomicInv /\ TidyInv)'
  BY AtomicStep, TidyStep
<1> QED
  BY <1>1, <1>2, PTL DEF StoreSpec

LEMMA TidyIsTidy == AtomicInv /\ TidyInv => NothingLeftBehind
<1> SUFFICES ASSUME AtomicInv, TidyInv, MainIdle, NEW i \in Ids \ interrupted
             PROVE  IF store[i] = Nothing
                      THEN keychain[i] = NoItems /\ frames[i] = Nothing /\ frameFile[i] = Nothing
                      ELSE /\ keychain[i][rdp_for(IF store[i].mode = "RemoteLogin" THEN "Headless" ELSE "RemoteLogin")] = Nothing
                           /\ store[i].mode # "RemoteLogin" => keychain[i]["LinuxLogin"] = Nothing
  BY DEF NothingLeftBehind
<1>1. Open /\ ~AtSecrets(i)
  BY DEF MainIdle, AtSecrets, Idle
<1>2. Clean(i)
  BY <1>1, TidyParts DEF CleanOf
<1>3. CASE store[i] # Nothing
  <2> DEFINE wrong == rdp_for(IF store[i].mode = "RemoteLogin" THEN "Headless" ELSE "RemoteLogin")
  <2>1. wrong \in SecretRoles \ RolesOf(store[i].mode)
    BY DEF rdp_for, SecretRoles, RolesOf
  <2>2. store[i].mode # "RemoteLogin" => "LinuxLogin" \in SecretRoles \ RolesOf(store[i].mode)
    BY DEF rdp_for, SecretRoles, RolesOf
  <2> HIDE DEF wrong
  <2>3. keychain[i][wrong] = Nothing /\ (store[i].mode # "RemoteLogin" => keychain[i]["LinuxLogin"] = Nothing)
    BY <1>2, <1>3, <2>1, <2>2 DEF Clean
  <2> QED
    BY <1>3, <2>3 DEF wrong
<1> QED
  BY <1>2, <1>3 DEF Clean

(* Nothing is left behind (ProfileService::save and ::delete, FrameStore::  *)
(* remove): outside a command, a profile none of whose commands was cut     *)
(* short has passwords for the roles of its mode only, and a deleted one    *)
(* neither a password nor a window frame - for any number of profiles and   *)
(* faults, and for all interleavings with the pins the events task stores.  *)
THEOREM CommandsLeaveNothingBehind == StoreSpec => []NothingLeftBehind
BY TidyAlways, TidyIsTidy, PTL

\* The call at hand never takes the last RDP password of a profile that is saved.
LEMMA CallSparesPassword ==
  ASSUME AtomicInv, TidyInv, SecretStep, NEW i \in Ids, HasRdpPassword(i), ~HasRdpPassword(i)'
  PROVE  store[i] = Nothing
<1> DEFINE job == jobs["main"]  c == Head(job.script)
<1>1. /\ Open /\ job \in JobState /\ job.script # << >> /\ job.id \in Ids /\ job.script \in Seq(KeychainCall)
      /\ keychain' = [keychain EXCEPT ![job.id] = Call(keychain[job.id], c)]
  BY SecretsMove
<1>2. keychain \in [Ids -> Items] /\ job.step = "secrets" /\ "main" \in Threads
  BY DEF AtomicInv, StoreTypeOK, SecretStep, Threads
<1>3. i = job.id
  BY <1>1, <1>2 DEF HasRdpPassword
<1>4. keychain[i] \in Items /\ keychain'[i] = Call(keychain[i], c)
  BY <1>1, <1>2, <1>3
<1>5. Carries("main", job, sheet) /\ SecretsOf(i) /\ AtSecrets(i)
  BY <1>2, <1>3, TidyParts DEF AtomicInv, JobInv, Idle, AtSecrets
<1>6. job.op \in {"save", "delete", "forget"}
  BY <1>1, <1>5 DEF Carries, JobState
<1>7. job.op # "forget"
  BY <1>1, <1>5 DEF SecretsOf
<1>8. CASE job.op = "save"
  <2>1. Safe(keychain[i], job.script)
    BY <1>5, <1>8 DEF SecretsOf
  <2>2. c = job.script[1] /\ 1 \in DOMAIN job.script /\ c \in KeychainCall
    BY <1>1, NextCall
  <2> DEFINE items == keychain[i]  after == Call(items, c)
  <2>3. /\ c.role \in SecretRoles /\ c.call \in {"set", "move", "delete"}
        /\ c.call = "set" => c.secret # Nothing /\ after = [items EXCEPT ![c.role] = c.secret]
        /\ c.call = "move" => /\ items[c.from] = Nothing => after = items
                              /\ items[c.from] # Nothing => after = [items EXCEPT ![c.role] = items[c.from]]
        /\ c.call = "delete" => after = [items EXCEPT ![c.role] = Nothing]
    BY <1>4, <2>2, CallEffect
  <2>4. c.call = "delete" /\ c.role \in RdpRoles => items[Other(c.role)] # Nothing \/ items[c.role] = Nothing
    BY <2>1, <2>2 DEF Safe
  <2>5. /\ items["RdpSystem"] # Nothing \/ items["RdpUser"] # Nothing
        /\ after["RdpSystem"] = Nothing /\ after["RdpUser"] = Nothing
    BY <1>4 DEF HasRdpPassword
  <2>6. DOMAIN items = SecretRoles /\ {"RdpSystem", "RdpUser"} \subseteq SecretRoles
    BY <1>4 DEF Items, SecretRoles
  <2> HIDE DEF items, after, c
  <2> QED
    BY <2>3, <2>4, <2>5, <2>6 DEF RdpRoles, Other
<1>9. CASE job.op = "delete"
  BY <1>5, <1>9 DEF SecretsOf
<1> QED
  BY <1>6, <1>7, <1>8, <1>9

LEMMA OnlyCallsTouchKeychain ==
  ASSUME [StoreNext]_storeVars, ~SecretStep
  PROVE  keychain' = keychain
BY DEF StoreNext, storeVars, Threads, OpenEdit, EditIntent, DeleteProfile, OpenNew, CloseSheet, ForgetCertificate,
   SaveSheet, DuplicateProfile, Trust, CertificatePinned, Lock, CreateTemp, WriteTemp, RenameTemp, SaveFails,
   SecretStepFails, Finish, SaveFrame, Relaunch

(* A profile's RDP password survives (ProfileService::apply_secrets): no    *)
(* step of any command, whatever failed before it, takes the last RDP       *)
(* password of a profile that is not being deleted.                         *)
THEOREM RdpPasswordSurvives == StoreSpec => PasswordSurvives
<1> DEFINE Lost == \A i \in Ids : HasRdpPassword(i) /\ ~HasRdpPassword(i)' => store[i] = Nothing
<1>1. AtomicInv /\ TidyInv /\ [StoreNext]_storeVars => [Lost]_storeVars
  <2> SUFFICES ASSUME AtomicInv, TidyInv, [StoreNext]_storeVars PROVE Lost
    OBVIOUS
  <2>1. CASE SecretStep
    BY <2>1, CallSparesPassword
  <2>2. CASE ~SecretStep
    <3>1. keychain' = keychain
      BY <2>2, OnlyCallsTouchKeychain
    <3> QED
      BY <3>1 DEF HasRdpPassword
  <2> QED
    BY <2>1, <2>2
<1> QED
  BY <1>1, TidyAlways, PTL DEF StoreSpec, PasswordSurvives
=============================================================================
