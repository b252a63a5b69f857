------------------------------ MODULE FolderSync ------------------------------
(***************************************************************************)
(* The pass that reconciles the document of a shared folder with the       *)
(* library of a device (internal/app/sync_folder.go, syncFolder;           *)
(* internal/backup/sync.go, Sync; service.go, merge), step by step and on  *)
(* several devices at once: reading the file, merging section after        *)
(* section, comparing, writing the temporary file, renaming it over the    *)
(* document, and recording what was seen.                                  *)
(*                                                                         *)
(* Two sections stand for the six of the document, one of each kind.  The  *)
(* order of a shelf lives in a store with a lock and a dirty mark of its   *)
(* own (internal/ordering), as playlists, follows and saved do; a carried  *)
(* setting is two keys of the settings bucket and an atomic mark that no   *)
(* lock ties together (internal/app/backup_settings.go), as a session is.  *)
(* What is stored is the moment it was written; 0 is a missing key.        *)
(***************************************************************************)
EXTENDS Integers, FiniteSets

CONSTANTS Devices,
          Importing,    \* the devices whose import switch is on
          Overlap,      \* whether passes of two devices may overlap
          MaxOrders, MaxSettings,   \* bounds on the edits
          MaxRestores,  \* bound on SyncReload and ImportBackup
          MaxCrashes,   \* bound on the restarts of a device
          MaxFaults     \* bound on read and write errors and spoiled copies

ASSUME FolderAssumption ==
  /\ Importing \subseteq Devices
  /\ Overlap \in BOOLEAN
  /\ MaxOrders \in Nat /\ MaxSettings \in Nat /\ MaxRestores \in Nat
  /\ MaxCrashes \in Nat /\ MaxFaults \in Nat

VARIABLES
  order, orderDirty,      \* the ordering store of a device, and its mark
  setting, settingDirty,  \* the carried setting: value and "-at" key, and its mark
  writer,     \* where a setter of the setting is: it still has to call touch
  status,     \* the stored SyncStatus of a device
  pass,       \* where the pass of a device is, and what it holds
  file,       \* the canonical document of the folder
  tmp,        \* the temporary file next to it
  exported,   \* a backup file some user exported
  now,        \* the moment of the latest write of a store
  used,       \* how much of each bound is used up
  exposed     \* history: the devices whose last pass had another device write
              \* between its own writing and its own stat, or that restarted
              \* with an edit or a pass under way

vars == <<order, orderDirty, setting, settingDirty, writer, status, pass,
          file, tmp, exported, now, used, exposed>>

stores == <<order, orderDirty, setting, settingDirty, writer>>

Stamp == Nat
Keys == [value : Stamp, at : Stamp]
Setting == {s \in Keys : s.value = 0 => s.at = 0}
Document == [order : Stamp, setting : Setting]
NoSetting == [value |-> 0, at |-> 0]
EmptyDocument == [order |-> 0, setting |-> NoSetting]

\* A file that is not there, or does not parse, carries nothing.
File == [kind : {"absent", "garbled", "doc"}, doc : Document]
NoFile == [kind |-> "absent", doc |-> EmptyDocument]
Garbled == [kind |-> "garbled", doc |-> EmptyDocument]
Holding(document) == [kind |-> "doc", doc |-> document]

PassStep == {"idle", "read", "order", "value", "stamp", "apply", "applied",
             "synced", "compare", "write", "rename", "record", "clear"}

Idle == [at |-> "idle", found |-> FALSE, doc |-> EmptyDocument, local |-> NoSetting]

Uses == [orders : 0 .. MaxOrders, settings : 0 .. MaxSettings,
         restores : 0 .. MaxRestores, crashes : 0 .. MaxCrashes,
         faults : 0 .. MaxFaults]

Passes == [at : PassStep, found : BOOLEAN, doc : Document, local : Keys]
Statuses == [ran : BOOLEAN, problem : BOOLEAN, seen : BOOLEAN]

\* status.seen: MTime and FileSize are those of the file as it is now.
NeverSynced == [ran |-> FALSE, problem |-> FALSE, seen |-> FALSE]

TypeOK ==
  /\ order \in [Devices -> Stamp]
  /\ orderDirty \in [Devices -> BOOLEAN]
  /\ setting \in [Devices -> Setting]
  /\ settingDirty \in [Devices -> BOOLEAN]
  /\ writer \in [Devices -> {"none", "touch"}]
  /\ status \in [Devices -> Statuses]
  /\ pass \in [Devices -> Passes]
  /\ file \in File
  /\ tmp \in File
  /\ exported \in Document
  /\ now \in Stamp
  /\ exposed \subseteq Devices
  /\ used \in Uses

Init ==
  /\ order = [d \in Devices |-> 0]
  /\ orderDirty = [d \in Devices |-> FALSE]
  /\ setting = [d \in Devices |-> NoSetting]
  /\ settingDirty = [d \in Devices |-> FALSE]
  /\ writer = [d \in Devices |-> "none"]
  /\ status = [d \in Devices |-> NeverSynced]
  /\ pass = [d \in Devices |-> Idle]
  /\ file = NoFile
  /\ tmp = NoFile
  /\ exported = EmptyDocument
  /\ now = 0
  /\ exposed = {}
  /\ used = [orders |-> 0, settings |-> 0, restores |-> 0, crashes |-> 0, faults |-> 0]

Later(a, b) == IF a > b THEN a ELSE b

-----------------------------------------------------------------------------
(* The user's writes                                                       *)

\* ordering.Save, whole under the store's lock.
SaveOrder(d) ==
  /\ used.orders < MaxOrders
  /\ used' = [used EXCEPT !.orders = @ + 1]
  /\ now' = now + 1
  /\ order' = [order EXCEPT ![d] = now + 1]
  /\ orderDirty' = [orderDirty EXCEPT ![d] = TRUE]
  /\ UNCHANGED <<setting, settingDirty, writer, status, pass, file, tmp, exported, exposed>>

\* SetSyncAuto, SetSyncImport, SetSyncInterval: the value is written first ...
WriteValue(d) ==
  /\ writer[d] = "none"
  /\ used.settings < MaxSettings
  /\ used' = [used EXCEPT !.settings = @ + 1]
  /\ now' = now + 1
  /\ setting' = [setting EXCEPT ![d].value = now + 1]
  /\ writer' = [writer EXCEPT ![d] = "touch"]
  /\ UNCHANGED <<order, orderDirty, settingDirty, status, pass, file, tmp, exported, exposed>>

\* ... and touch stamps it and sets the mark.
Touch(d) ==
  /\ writer[d] = "touch"
  /\ now' = now + 1
  /\ setting' = [setting EXCEPT ![d].at = now + 1]
  /\ settingDirty' = [settingDirty EXCEPT ![d] = TRUE]
  /\ writer' = [writer EXCEPT ![d] = "none"]
  /\ UNCHANGED <<order, orderDirty, status, pass, file, tmp, exported, used, exposed>>

-----------------------------------------------------------------------------
(* Whether a pass is worth a read                                          *)

\* SyncPending
SyncPending(d) ==
  \/ ~status[d].ran
  \/ status[d].problem
  \/ orderDirty[d]
  \/ settingDirty[d]

\* syncSettled
Settled(d) ==
  /\ ~SyncPending(d)
  /\ file.kind # "absent"
  /\ status[d].seen

-----------------------------------------------------------------------------
(* The pass                                                                *)

Goto(d, step) == pass' = [pass EXCEPT ![d].at = step]

\* The status after a pass that failed (recordProblem).
Failed(st) == [st EXCEPT !.problem = TRUE]

Fail(d) ==
  /\ pass' = [pass EXCEPT ![d] = Idle]
  /\ status' = [status EXCEPT ![d] = Failed(@)]

\* syncMu admits one pass of a device.  A settled automatic pass is a stat and
\* a new moment of the last pass (touchSync), which nothing here depends on.
Begin(d) ==
  /\ pass[d].at = "idle"
  /\ Overlap \/ \A e \in Devices : pass[e].at = "idle"
  /\ Goto(d, "read")
  /\ exposed' = exposed \ {d}
  /\ UNCHANGED <<stores, status, file, tmp, exported, now, used>>

\* SyncPlaylists while there is something to do, or SyncSave, or a pass that
\* has to resolve the snapshots again.
AutomaticPass(d) == ~Settled(d) /\ Begin(d)
AskedPass(d) == Settled(d) /\ Begin(d)

\* read: a missing file is an empty document; a copy that does not parse is
\* going to be overwritten by this device's document.
Read(d) ==
  /\ pass[d].at = "read"
  /\ pass' = [pass EXCEPT ![d] = [at |-> "order", found |-> file.kind # "absent",
                                  doc |-> file.doc, local |-> NoSetting]]
  /\ UNCHANGED <<stores, status, file, tmp, exported, now, used, exposed>>

\* The folder cannot be read: the pass fails ...
ReadFails(d) ==
  /\ pass[d].at = "read"
  /\ used.faults < MaxFaults
  /\ used' = [used EXCEPT !.faults = @ + 1]
  /\ Fail(d)
  /\ UNCHANGED <<stores, file, tmp, exported, now, exposed>>

\* ... unless it is SyncOverwrite, which goes on as over an empty folder.
ReadForced(d) ==
  /\ pass[d].at = "read"
  /\ used.faults < MaxFaults
  /\ used' = [used EXCEPT !.faults = @ + 1]
  /\ pass' = [pass EXCEPT ![d] = [Idle EXCEPT !.at = "order"]]
  /\ UNCHANGED <<stores, status, file, tmp, exported, now, exposed>>

\* ordering.MergeSection, whole under the store's lock: the newest list wins
\* and the mark goes, whether or not the store takes the list.
MergedOrderRemote(remote, local) == remote       \* mutated: the file wins
MergedOrder(remote, local) == Later(local, remote)

MergeOrder(d) ==
  /\ pass[d].at = "order"
  /\ LET out == MergedOrder(pass[d].doc.order, order[d])
     IN  /\ order' = IF d \in Importing THEN [order EXCEPT ![d] = out] ELSE order
         /\ pass' = [pass EXCEPT ![d].doc.order = out, ![d].at = "value"]
  /\ orderDirty' = [orderDirty EXCEPT ![d] = FALSE]
  /\ UNCHANGED <<setting, settingDirty, writer, status, file, tmp, exported, now, used, exposed>>

\* settingsStore.Section reads the value, then the moment it was written.
ReadValue(d) ==
  /\ pass[d].at = "value"
  /\ pass' = [pass EXCEPT ![d].local.value = setting[d].value, ![d].at = "stamp"]
  /\ UNCHANGED <<stores, status, file, tmp, exported, now, used, exposed>>

\* union: the newest write wins, the local one on a tie.
Union(remote, local) ==
  IF local.value = 0 THEN remote
  ELSE IF remote.value = 0 \/ local.at >= remote.at THEN local ELSE remote

\* The value read with its moment; a missing key has neither.
Stamped(value, at) == IF value = 0 THEN NoSetting ELSE [value |-> value, at |-> at]

ReadStamp(d) ==
  /\ pass[d].at = "stamp"
  /\ LET local == Stamped(pass[d].local.value, setting[d].at)
         out == Union(pass[d].doc.setting, local)
         next == IF d \notin Importing THEN "compare"
                 ELSE IF out # local THEN "apply" ELSE "synced"
     IN  pass' = [pass EXCEPT ![d].local = NoSetting, ![d].doc.setting = out, ![d].at = next]
  /\ UNCHANGED <<stores, status, file, tmp, exported, now, used, exposed>>

\* settingsStore.Apply writes the value ...
ApplyValue(d) ==
  /\ pass[d].at = "apply"
  /\ setting' = [setting EXCEPT ![d].value = pass[d].doc.setting.value]
  /\ Goto(d, "applied")
  /\ UNCHANGED <<order, orderDirty, settingDirty, writer, status, file, tmp,
                 exported, now, used, exposed>>

\* ... then its moment, and sets the mark.
ApplyStamp(d) ==
  /\ pass[d].at = "applied"
  /\ setting' = [setting EXCEPT ![d].at = pass[d].doc.setting.at]
  /\ settingDirty' = [settingDirty EXCEPT ![d] = TRUE]
  /\ Goto(d, "synced")
  /\ UNCHANGED <<order, orderDirty, writer, status, file, tmp, exported, now, used, exposed>>

\* mergeSettings ends with store.Synced().
SectionSynced(d) ==
  /\ pass[d].at = "synced"
  /\ settingDirty' = [settingDirty EXCEPT ![d] = FALSE]
  /\ Goto(d, "compare")
  /\ UNCHANGED <<order, orderDirty, setting, writer, status, file, tmp,
                 exported, now, used, exposed>>

\* An empty folder with nothing to back up is an error; a file that already
\* holds the merged document is left alone.
Compare(d) ==
  /\ pass[d].at = "compare"
  /\ IF ~pass[d].found /\ pass[d].doc = EmptyDocument
     THEN Fail(d)
     ELSE /\ Goto(d, IF file = Holding(pass[d].doc) THEN "record" ELSE "write")
          /\ UNCHANGED status
  /\ UNCHANGED <<stores, file, tmp, exported, now, used, exposed>>

\* The passes of other devices a write of d falls into.
RacedBy(d) == {e \in Devices \ {d} : pass[e].at \in {"rename", "record"}}

\* os.WriteFile of the temporary file, which every device gives one name.
WriteTmp(d) ==
  /\ pass[d].at = "write"
  /\ tmp' = Holding(pass[d].doc)
  /\ exposed' = exposed \union RacedBy(d)
  /\ Goto(d, "rename")
  /\ UNCHANGED <<stores, status, file, exported, now, used>>

WriteFails(d) ==
  /\ pass[d].at \in {"write", "rename"}
  /\ used.faults < MaxFaults
  /\ used' = [used EXCEPT !.faults = @ + 1]
  /\ Fail(d)
  /\ UNCHANGED <<stores, file, tmp, exported, now, exposed>>

\* The document is replaced: every stat taken before is of another file.
Replaced == [d \in Devices |-> [status[d] EXCEPT !.seen = FALSE]]

\* os.Rename puts whatever the temporary file holds in place; when another
\* device has renamed it already, the pass fails.
Rename(d) ==
  /\ pass[d].at = "rename"
  /\ \/ /\ tmp.kind = "doc"
        /\ file' = tmp
        /\ tmp' = NoFile
        /\ status' = Replaced
        /\ exposed' = exposed \union RacedBy(d)
        /\ Goto(d, "record")
     \/ /\ tmp.kind = "absent"
        /\ Fail(d)
        /\ UNCHANGED <<file, tmp, exposed>>
  /\ UNCHANGED <<stores, exported, now, used>>

\* recordSync: the pass ran, and the file is stat'ed as it is by now.
Record(d) ==
  /\ pass[d].at = "record"
  /\ status' = [status EXCEPT ![d] = [ran |-> TRUE, problem |-> FALSE,
                                      seen |-> file.kind # "absent"]]
  /\ pass' = [pass EXCEPT ![d] = [Idle EXCEPT !.at = "clear"]]
  /\ UNCHANGED <<stores, file, tmp, exported, now, used, exposed>>

\* Synced() of the app: the settings' mark goes once more.
MarksAtEndAll(d) == [orderDirty EXCEPT ![d] = FALSE]   \* mutated: the store's mark too
MarksAtEnd(d) == orderDirty

Clear(d) ==
  /\ pass[d].at = "clear"
  /\ settingDirty' = [settingDirty EXCEPT ![d] = FALSE]
  /\ orderDirty' = MarksAtEnd(d)
  /\ pass' = [pass EXCEPT ![d] = Idle]
  /\ UNCHANGED <<order, setting, writer, status, file, tmp, exported, now, used, exposed>>

-----------------------------------------------------------------------------
(* Restores, restarts and what happens to the file                         *)

\* Restore: a whole document applied to the library, the document winning.
\* A restored order has to be pushed; a restored setting counts as carried.
Restore(d, doc) ==
  LET list == IF doc.order = 0 THEN order[d] ELSE doc.order
      carried == IF doc.setting.value = 0 THEN setting[d] ELSE doc.setting
  IN  /\ used.restores < MaxRestores
      /\ used' = [used EXCEPT !.restores = @ + 1]
      /\ order' = [order EXCEPT ![d] = list]
      /\ orderDirty' = [orderDirty EXCEPT ![d] = @ \/ list # order[d]]
      /\ setting' = [setting EXCEPT ![d] = carried]
      /\ settingDirty' = [settingDirty EXCEPT ![d] = FALSE]
      /\ UNCHANGED <<writer, status, pass, file, tmp, exported, now, exposed>>

SyncReload(d) == file.kind = "doc" /\ Restore(d, file.doc)
ImportBackup(d) == Restore(d, exported)

\* A backup file is worth a step only while one can still be imported.
ExportBackup(d) ==
  /\ used.restores < MaxRestores
  /\ exported' = [order |-> order[d], setting |-> Stamped(setting[d].value, setting[d].at)]
  /\ UNCHANGED <<stores, status, pass, file, tmp, now, used, exposed>>

\* The process ends and comes back: the stores and the status are on disk,
\* the marks and the pass are not.
Crash(d) ==
  /\ used.crashes < MaxCrashes
  /\ used' = [used EXCEPT !.crashes = @ + 1]
  /\ orderDirty' = [orderDirty EXCEPT ![d] = FALSE]
  /\ settingDirty' = [settingDirty EXCEPT ![d] = FALSE]
  /\ writer' = [writer EXCEPT ![d] = "none"]
  /\ pass' = [pass EXCEPT ![d] = Idle]
  /\ exposed' = IF orderDirty[d] \/ pass[d].at # "idle" THEN exposed \union {d} ELSE exposed
  /\ UNCHANGED <<order, setting, status, file, tmp, exported, now>>

\* The provider's client leaves a half-uploaded copy.
Spoil ==
  /\ file.kind = "doc"
  /\ used.faults < MaxFaults
  /\ used' = [used EXCEPT !.faults = @ + 1]
  /\ file' = Garbled
  /\ status' = Replaced
  /\ UNCHANGED <<stores, pass, tmp, exported, now, exposed>>

-----------------------------------------------------------------------------

PassStepOf(d) ==
  \/ Read(d) \/ MergeOrder(d) \/ ReadValue(d) \/ ReadStamp(d)
  \/ ApplyValue(d) \/ ApplyStamp(d) \/ SectionSynced(d)
  \/ Compare(d) \/ WriteTmp(d) \/ Rename(d) \/ Record(d) \/ Clear(d)

Fault(d) == ReadFails(d) \/ ReadForced(d) \/ WriteFails(d)

Edit(d) == SaveOrder(d) \/ WriteValue(d) \/ Touch(d)

Next ==
  \/ \E d \in Devices : Edit(d)
  \/ \E d \in Devices : AutomaticPass(d) \/ AskedPass(d)
  \/ \E d \in Devices : PassStepOf(d)
  \/ \E d \in Devices : Fault(d)
  \/ \E d \in Devices : SyncReload(d) \/ ImportBackup(d) \/ ExportBackup(d)
  \/ \E d \in Devices : Crash(d)
  \/ Spoil

Spec == Init /\ [][Next]_vars

\* A pass goes on to its end, a setter calls touch, and the ticker asks for a
\* pass as long as the folder is not settled.  That is a minute's tick against
\* passes of milliseconds, so a device also gets its turn where passes do not
\* overlap.
FairSpec ==
  /\ Spec
  /\ \A d \in Devices : /\ WF_vars(PassStepOf(d))
                        /\ SF_vars(AutomaticPass(d))
                        /\ WF_vars(Touch(d))

\* A settled device runs a full pass too once the snapshots have aged
\* (snapshotsDue, every refresh.Interval).
RefreshSpec == FairSpec /\ \A d \in Devices : SF_vars(AskedPass(d))

-----------------------------------------------------------------------------
(* Properties                                                              *)

AtRest(d) == pass[d].at = "idle"

\* A device that imports holds what was merged; one that does not has at least
\* given what it has.
Covered(d, merged) ==
  /\ order[d] <= merged
  /\ d \in Importing => order[d] = merged

InStep(d) == Covered(d, file.doc.order)

\* "syncSettled reports whether the folder still holds the copy this device
\* last reconciled and the library has nothing new to write": a device that is
\* settled is in step with the document.
SettledOrder ==
  \A d \in Devices : (AtRest(d) /\ Settled(d) /\ file.kind = "doc") => InStep(d)

\* The same where passes overlap and devices restart: the only ways to be
\* settled and out of step are a write of another device between one's own
\* write and one's own stat, and a restart that forgets an edit.
SettledUnlessExposed ==
  \A d \in Devices \ exposed : (AtRest(d) /\ Settled(d) /\ file.kind = "doc") => InStep(d)

\* What passes, edits, restarts and faults keep at every step.
FolderSafe == TypeOK /\ SettledUnlessExposed

\* No pass takes the order of a shelf back, whatever is read, merged, written
\* and edited meanwhile; only an explicit restore does.
OrderMonotone ==
  [][\A d \in Devices : order'[d] < order[d] => used'.restores # used.restores]_vars

\* With passes that do not overlap every device and the document end up with
\* one order, restarts or not, and it is the one that was saved last unless a
\* restore put an older one back.
OrderConverges ==
  <>[]/\ \A d \in Devices : order[d] = file.doc.order
      /\ (used.restores = 0 /\ used.settings = 0) => file.doc.order = now

-----------------------------------------------------------------------------
(* The inductive strengthening the theorems of SyncProofs use              *)

\* No order is ahead of the clock its saves are stamped with.
PastInv ==
  /\ \A d \in Devices : order[d] <= now /\ pass[d].doc.order <= now
  /\ file.doc.order <= now /\ tmp.doc.order <= now /\ exported.order <= now

Merged == {"value", "stamp", "apply", "applied", "synced", "compare", "write",
           "rename", "record"}

\* From the merge of the order on, the document the pass carries covers the
\* store unless a later edit has marked it again.
CarriesInv ==
  \A d \in Devices :
    pass[d].at \in Merged /\ ~orderDirty[d] => Covered(d, pass[d].doc.order)

\* A device that is not exposed has its own document in the temporary file before
\* its rename, and in the folder after it.
WritesInv ==
  \A d \in Devices \ exposed :
    /\ pass[d].at = "rename" => tmp.doc = pass[d].doc
    /\ pass[d].at = "record" /\ file.kind = "doc" => file.doc = pass[d].doc

\* What recordSync saw stands until the file is replaced or the store marked.
SeenInv ==
  \A d \in Devices \ exposed :
    (/\ pass[d].at \in {"idle", "clear"}
     /\ ~orderDirty[d]
     /\ status[d].ran /\ ~status[d].problem /\ status[d].seen
     /\ file.kind = "doc") => Covered(d, file.doc.order)

StepInv == TypeOK /\ CarriesInv /\ WritesInv /\ SeenInv
=============================================================================
