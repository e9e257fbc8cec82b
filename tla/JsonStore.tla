------------------------------ MODULE JsonStore ------------------------------
(***************************************************************************)
(* A settings file as utils/json_store.rs keeps it, and the store in front *)
(* of it (ProfileStore, KnownHostsStore, SettingsStore, LogService): the   *)
(* file is loaded once at start and rewritten as a whole on every change,  *)
(* under the mutex of the store, which changes its memory only when the    *)
(* write succeeded.  Each save makes a new version of the contents, so a   *)
(* file is the number of the version in it.                                *)
(*                                                                         *)
(* Between any two steps the process may be killed, and the machine may    *)
(* lose power: the contents of the temporary file were synced before it    *)
(* was renamed, so what a power loss undoes is the last renames and        *)
(* removals, in order, back to the last sync of the directory.             *)
(***************************************************************************)
EXTENDS Integers

CONSTANTS SyncsDirectory,   \* sync_parent syncs (unix) or does nothing
          MaxWrites         \* bound: saves

ASSUME StoreAssumption == SyncsDirectory \in BOOLEAN /\ MaxWrites \in Nat

Missing == 0                \* no such file; as contents, an empty store
Bad     == -1               \* a file that does not parse

VARIABLES
    primary, bak,           \* the file and its .bak
    temp,                   \* the temporary file of the write that is under way
    recent,                 \* the directory since it was last synced: <<primary, backup>>
    step,                   \* how far write_bytes got; "idle" between writes, "down"
                            \*     while the application does not run
    pending,                \* the version being written
    memory,                 \* the version the store shows
    version,                \* last version made
    acceptable,             \* history: the version acknowledged last, and those whose
                            \*     write was cut short by a crash since
    harmed                  \* history: what happened to the files from outside

diskVars == <<primary, bak, recent>>
storeVars == <<primary, bak, temp, recent, step, pending, memory, version, acceptable,
              harmed>>

\* load_json: the primary, or else the backup.
Loads(p, b) == p > 0 \/ b > 0 \/ (p = Missing /\ b = Missing)
Load(p, b)  == IF p > 0 THEN p ELSE IF b > 0 THEN b ELSE Missing

Touch(p, b) == primary' = p /\ bak' = b /\ recent' = recent \cup {<<p, b>>}

\* The backup's place is free: write_bytes goes on to the first rename.
ReadyToMove ==
    primary # Missing /\ (step = "unbacked" \/ (step = "written" /\ bak = Missing))

StoreInit ==
    /\ primary = Missing /\ bak = Missing /\ temp = Missing
    /\ recent = {<<Missing, Missing>>}
    /\ step = "idle"
    /\ pending = Missing /\ memory = Missing
    /\ version = 0
    /\ acceptable = {Missing}
    /\ harmed = {}

-----------------------------------------------------------------------------
(* Faulty variants of what follows, for the properties to tell apart.      *)

\* The file is removed, not renamed, to make room.
DropPrimary ==
    /\ ReadyToMove
    /\ step' = "moved"
    /\ Touch(Missing, bak)
    /\ UNCHANGED <<temp, pending, memory, version, acceptable, harmed>>

-----------------------------------------------------------------------------
(* A save: ProfileStore::upsert and its like, down to write_bytes.         *)

BeginWrite ==
    /\ step = "idle" /\ version < MaxWrites
    /\ step' = "writing"
    /\ version' = version + 1 /\ pending' = version + 1
    /\ acceptable' = acceptable \cup {version + 1}
    /\ UNCHANGED <<diskVars, temp, memory, harmed>>

WriteTemporary ==
    /\ step = "writing"
    /\ step' = "written"
    /\ temp' = pending
    /\ UNCHANGED <<diskVars, pending, memory, version, acceptable, harmed>>

RemoveOldBackup ==
    /\ step = "written" /\ primary # Missing /\ bak # Missing
    /\ step' = "unbacked"
    /\ Touch(primary, Missing)
    /\ UNCHANGED <<temp, pending, memory, version, acceptable, harmed>>

MoveToBackup ==
    /\ ReadyToMove
    /\ step' = "moved"
    /\ Touch(Missing, primary)
    /\ UNCHANGED <<temp, pending, memory, version, acceptable, harmed>>

ReadyToCommit == step = "moved" \/ (step = "written" /\ primary = Missing)

Commit ==
    /\ ReadyToCommit
    /\ step' = "committed"
    /\ Touch(temp, bak)
    /\ temp' = Missing
    /\ UNCHANGED <<pending, memory, version, acceptable, harmed>>

\* sync_parent, and the store takes the new contents over.
Acknowledge ==
    /\ step = "committed"
    /\ step' = "idle"
    /\ memory' = pending
    /\ acceptable' = {pending}
    /\ recent' = IF SyncsDirectory THEN {<<primary, bak>>} ELSE recent
    /\ UNCHANGED <<primary, bak, temp, pending, version, harmed>>

Refused ==
    /\ step' = "idle"
    /\ temp' = Missing
    /\ acceptable' = acceptable \ {pending}
    /\ UNCHANGED <<pending, memory, version, harmed>>

\* An error up to the rename of the file; the store keeps what it has.
WriteFails ==
    /\ step \in {"writing", "written", "unbacked"}
    /\ Refused
    /\ UNCHANGED diskVars

\* The last rename fails; the one before is undone, or that fails as well.
CommitFails ==
    /\ ReadyToCommit
    /\ \/ step = "moved" /\ Touch(bak, Missing)
       \/ UNCHANGED diskVars
    /\ Refused

-----------------------------------------------------------------------------
(* The process, the machine and the disk.                                  *)

Stop ==
    /\ step' = "down"
    /\ temp' = Missing
    /\ memory' = Missing

\* The process ends or is killed.
Crash ==
    /\ step # "down"
    /\ Stop
    /\ UNCHANGED <<diskVars, pending, version, acceptable, harmed>>

PowerLoss ==
    /\ Stop
    /\ \E d \in recent : primary' = d[1] /\ bak' = d[2] /\ recent' = {d}
    /\ harmed' = IF SyncsDirectory THEN harmed ELSE harmed \cup {"outage"}
    /\ UNCHANGED <<pending, version, acceptable>>

\* A file that cannot be loaded counts as an empty store.
Start ==
    /\ step = "down"
    /\ step' = "idle"
    /\ memory' = Load(primary, bak)
    /\ UNCHANGED <<diskVars, temp, pending, version, acceptable, harmed>>

\* Something else spoils the file (bound: once), with or without a usable backup.
Damage ==
    /\ step \in {"idle", "down"} /\ primary # Missing /\ harmed = {}
    /\ primary' = Bad
    /\ recent' = {<<Bad, bak>>}
    /\ harmed' = {IF bak > 0 THEN "damaged" ELSE "wiped"}
    /\ UNCHANGED <<bak, temp, step, pending, memory, version, acceptable>>

StoreNext ==
    \/ BeginWrite \/ WriteTemporary \/ RemoveOldBackup \/ MoveToBackup \/ Commit
    \/ Acknowledge \/ WriteFails \/ CommitFails
    \/ Crash \/ PowerLoss \/ Start \/ Damage

StoreSpec == StoreInit /\ [][StoreNext]_storeVars

-----------------------------------------------------------------------------
(* Properties.                                                             *)

Versions == Nat \cup {Bad}

\* Type invariant.
StoreTypeOK ==
    /\ primary \in Versions
    /\ bak \in Versions
    /\ temp \in Nat
    /\ recent \subseteq Versions \X Versions
    /\ step \in {"idle", "writing", "written", "unbacked", "moved", "committed", "down"}
    /\ pending \in Nat
    /\ memory \in Nat
    /\ version \in Nat
    /\ acceptable \subseteq Nat
    /\ harmed \subseteq {"damaged", "wiped", "outage"}

\* At every moment of a save, a failed save or a restart, what load_json would find is
\* the version acknowledged last, or one whose save a crash cut short: an error or a
\* kill between the removal of the backup and the two renames loses nothing, and where
\* the directory is synced neither does a power loss.
SavedStays == harmed = {} => Loads(primary, bak) /\ Load(primary, bak) \in acceptable

\* The store shows what is on the disk: a save that fails is not half taken over.
ShownIsSaved ==
    step \notin {"committed", "down"} /\ harmed = {} => memory = Load(primary, bak)

\* The store and its files go together, through every save, error and restart.
StoreSound == SavedStays /\ ShownIsSaved

\* Where the files are at each stage, and that the version being written is not to be
\* found before it is committed: the inductive invariant behind SavedStays.
Reachable == IF SyncsDirectory THEN recent ELSE {<<primary, bak>>}
StoreInv ==
    /\ acceptable \subseteq 0..version
    /\ pending <= version
    /\ step \in {"writing", "written", "unbacked", "moved", "committed"} =>
          pending \in acceptable /\ pending > 0
    /\ step \in {"written", "unbacked", "moved"} => temp = pending
    /\ step = "moved" => primary = Missing
    /\ <<primary, bak>> \in recent
    /\ harmed = {} =>
          /\ \A d \in Reachable : /\ d \in Nat \X Nat
                                  /\ Load(d[1], d[2]) \in acceptable
                                  /\ step \in {"writing", "written", "unbacked", "moved"}
                                        => Load(d[1], d[2]) # pending
          /\ step = "committed" => primary = pending

\* The test keeps_previous_version_as_recovery_backup (json_store.rs:165) recovers the
\* previous version when the file is spoilt: spoilt with a good backup beside it, it
\* stays recoverable.  Refuted: see the findings.
DamageIsRecovered ==
    step \in {"idle", "down"} /\ harmed \subseteq {"damaged"} => Loads(primary, bak)
=============================================================================
