-------------------------------- MODULE MCDisk --------------------------------
(***************************************************************************)
(* What the backend does on the disk, for TLC: a settings file, or one     *)
(* file transfer.  The two share nothing; one runs in each behaviour.      *)
(***************************************************************************)
EXTENDS JsonStore, FileCopy

VARIABLE disk   \* what runs: "store" or "copy"

diskWork == <<disk, storeVars, vars>>

\* The kind of a transfer that does not run is of no interest.
DiskInit ==
    /\ disk \in {"store", "copy"}
    /\ StoreInit /\ Init
    /\ disk # "copy" => method = CHOOSE m \in Methods : TRUE

Store == disk = "store" /\ StoreNext /\ UNCHANGED <<disk, vars>>
Copy  == disk = "copy" /\ Next /\ UNCHANGED <<disk, storeVars>>

DiskNext == Store \/ Copy

\* The worker of the transfer goes on, as in FairSpec of FileCopy.
DiskSpec ==
    DiskInit /\ [][DiskNext]_diskWork
             /\ WF_diskWork(disk = "copy" /\ stage # "asking" /\ CopyStep /\ UNCHANGED <<disk, storeVars>>)

\* TransferEnds, where a transfer runs.
CopyEndsOrAsks == disk = "copy" => TransferEnds
=============================================================================
