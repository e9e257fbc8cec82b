------------------------------ MODULE DiskProofs ------------------------------
(***************************************************************************)
(* What the backend does on the disk: JsonStore, for any number of saves,  *)
(* errors, kills and power losses, whether the directory is synced or not; *)
(* FileCopy, for any kinds of transfer and any number of files that others *)
(* put at the target.                                                      *)
(***************************************************************************)
EXTENDS JsonStore, FileCopy, TLAPS

(* The settings files (JsonStore).                                         *)

\* The stages before the version being written can be found in the directory.
Hidden == {"writing", "written", "unbacked", "moved"}

\* The initial files have their types and satisfy the invariant.
LEMMA InitHolds == StoreInit => StoreTypeOK /\ StoreInv
BY DEF StoreInit, StoreTypeOK, StoreInv, Versions, Reachable, Load, Missing

\* Every step of a save, the process, the machine or the disk keeps the types.
LEMMA TypeStep == StoreTypeOK /\ StoreInv /\ [StoreNext]_storeVars => StoreTypeOK'
<1> SUFFICES ASSUME StoreTypeOK, StoreInv, [StoreNext]_storeVars PROVE StoreTypeOK'
  OBVIOUS
<1> USE DEF StoreTypeOK, diskVars
<1>0. Missing \in Versions /\ Bad \in Versions /\ Missing \in Nat /\ Nat \subseteq Versions
  BY DEF Versions, Missing, Bad
<1>1. ASSUME NEW p \in Versions, NEW b \in Versions, Touch(p, b)
      PROVE  /\ primary' \in Versions /\ bak' \in Versions
             /\ recent' \subseteq Versions \X Versions
  BY <1>1 DEF Touch
<1>2. CASE BeginWrite \/ WriteTemporary
  <2>1. version + 1 \in Nat
    OBVIOUS
  <2>2. CASE BeginWrite
    BY <2>1, <2>2 DEF BeginWrite
  <2>3. CASE WriteTemporary
    BY <2>3 DEF WriteTemporary
  <2>4. QED
    BY <1>2, <2>2, <2>3
<1>3. CASE RemoveOldBackup \/ MoveToBackup
  BY <1>0, <1>1, <1>3 DEF RemoveOldBackup, MoveToBackup
<1>4. CASE Commit
  BY <1>0, <1>1, <1>4 DEF Commit
<1>5. CASE Acknowledge
  BY <1>5 DEF Acknowledge
<1>6. CASE WriteFails \/ CommitFails
  BY <1>0, <1>1, <1>6 DEF WriteFails, CommitFails, Refused
<1>7. CASE Crash \/ PowerLoss
  BY <1>0, <1>7 DEF Crash, PowerLoss, Stop
<1>8. CASE Start
  <2>1. Load(primary, bak) \in Nat
    BY DEF Load, Versions, Missing, Bad
  <2>2. QED
    BY <1>8, <2>1 DEF Start
<1>9. CASE Damage
  BY <1>0, <1>9 DEF Damage
<1>10. CASE UNCHANGED storeVars
  BY <1>10 DEF storeVars
<1>11. QED
  BY <1>2, <1>3, <1>4, <1>5, <1>6, <1>7, <1>8, <1>9, <1>10 DEF StoreNext

\* What every directory the store may find after a crash must satisfy.
Good(d) == /\ d \in Nat \X Nat
           /\ Load(d[1], d[2]) \in acceptable
           /\ step \in Hidden => Load(d[1], d[2]) # pending

\* A step of a save before the commit leaves the files alone or shows the same version.
LEMMA BeforeCommit ==
    ASSUME StoreTypeOK, StoreInv,
           WriteTemporary \/ RemoveOldBackup \/ MoveToBackup
    PROVE  StoreInv'
<1> USE DEF StoreTypeOK, Versions, Missing, diskVars, Hidden, Reachable
<1>1. CASE WriteTemporary
  BY <1>1 DEF WriteTemporary, StoreInv
<1>2. ASSUME NEW p, NEW b, Touch(p, b),
             UNCHANGED <<pending, version, acceptable, harmed>>,
             step \in {"written", "unbacked"}, step' \in {"unbacked", "moved"}, temp' = temp,
             step' = "moved" => p = Missing,
             harmed = {} => p \in Nat /\ b \in Nat /\ Load(p, b) = Load(primary, bak)
      PROVE  StoreInv'
  <2>1. /\ acceptable' \subseteq 0..version' /\ pending' <= version'
        /\ pending' \in acceptable' /\ pending' > 0 /\ temp' = pending'
        /\ <<primary', bak'>> \in recent' /\ (step' = "moved" => primary' = Missing)
    BY <1>2 DEF StoreInv, Touch
  <2>2. ASSUME harmed = {} PROVE \A d \in Reachable' : Good(d)'
    <3>1. <<primary, bak>> \in Reachable
      BY DEF StoreInv
    <3>2. \A d \in Reachable : Good(d)
      BY <2>2 DEF StoreInv, Good
    <3>3. Load(p, b) \in acceptable /\ Load(p, b) # pending
      BY <1>2, <2>2, <3>1, <3>2 DEF Good
    <3>4. \A d \in Reachable' : d \in Reachable \/ d = <<p, b>>
      BY <1>2 DEF Touch
    <3>5. ASSUME NEW d \in Reachable' PROVE Good(d)'
      <4>1. CASE d \in Reachable
        BY <1>2, <3>2, <4>1 DEF Good, Load
      <4>2. CASE d = <<p, b>>
        BY <1>2, <2>2, <3>3, <4>2 DEF Good, Load
      <4>3. QED
        BY <3>4, <4>1, <4>2
    <3>6. QED
      BY <3>5
  <2>3. QED
    BY <1>2, <2>1, <2>2 DEF StoreInv, Good
<1>3. CASE RemoveOldBackup
  <2>1. harmed = {} => primary \in Nat /\ primary > 0
    BY <1>3 DEF RemoveOldBackup, StoreInv
  <2>2. harmed = {} => Load(primary, Missing) = Load(primary, bak)
    BY <2>1 DEF Load
  <2>3. QED
    BY <1>2, <1>3, <2>1, <2>2 DEF RemoveOldBackup
<1>4. CASE MoveToBackup
  <2>1. harmed = {} => primary \in Nat /\ primary > 0
    BY <1>4 DEF MoveToBackup, ReadyToMove, StoreInv
  <2>2. harmed = {} => Load(Missing, primary) = Load(primary, bak)
    BY <2>1 DEF Load
  <2>3. QED
    BY <1>2, <1>4, <2>1, <2>2 DEF MoveToBackup, ReadyToMove
<1>5. QED
  BY <1>1, <1>3, <1>4

\* A save begins with a version no file holds, and is committed or refused as a whole.
LEMMA RestOfSave ==
    ASSUME StoreTypeOK, StoreInv,
           BeginWrite \/ Commit \/ Acknowledge \/ WriteFails \/ CommitFails
    PROVE  StoreInv'
<1> USE DEF StoreTypeOK, Versions, Missing, diskVars, Reachable, Load, Hidden
<1>1. CASE BeginWrite
  BY <1>1 DEF BeginWrite, StoreInv
<1>2. CASE Commit
  <2>1. step \in {"written", "moved"} /\ temp = pending /\ pending > 0 /\ step' = "committed"
        /\ Touch(pending, bak) /\ UNCHANGED <<pending, version, acceptable, harmed>>
    BY <1>2 DEF Commit, ReadyToCommit, StoreInv
  <2>2. harmed = {} => bak \in Nat
    BY DEF StoreInv
  <2>3. QED
    BY <2>1, <2>2 DEF StoreInv, Touch
<1>3. CASE Acknowledge
  <2>1. harmed = {} => bak \in Nat /\ primary = pending
    BY <1>3 DEF Acknowledge, StoreInv
  <2>2. QED
    BY <1>3, <2>1 DEF Acknowledge, StoreInv
<1>4. CASE WriteFails
  BY <1>4 DEF WriteFails, Refused, StoreInv
<1>5. CASE CommitFails
  <2>1. CASE UNCHANGED diskVars
    BY <1>5, <2>1 DEF CommitFails, ReadyToCommit, Refused, StoreInv
  <2>2. CASE step = "moved" /\ Touch(bak, Missing)
    <3>1. harmed = {} => bak \in Nat /\ Load(bak, Missing) = Load(primary, bak)
      BY <2>2 DEF StoreInv
    <3>2. QED
      BY <1>5, <2>2, <3>1 DEF CommitFails, Refused, StoreInv, Touch
  <2>3. QED
    BY <1>5, <2>1, <2>2 DEF CommitFails
<1>6. QED
  BY <1>1, <1>2, <1>3, <1>4, <1>5

\* Wherever a kill or a power loss leaves the files, the invariant holds of them.
LEMMA OutsideStep ==
    ASSUME StoreTypeOK, StoreInv, Crash \/ PowerLoss \/ Start \/ Damage
    PROVE  StoreInv'
<1> USE DEF StoreTypeOK, Versions, Missing, diskVars, Reachable, Hidden
<1>1. CASE Crash
  BY <1>1 DEF Crash, Stop, StoreInv
<1>2. CASE PowerLoss
  <2>1. PICK d \in recent : primary' = d[1] /\ bak' = d[2] /\ recent' = {d}
    BY <1>2 DEF PowerLoss
  <2>2. d = <<d[1], d[2]>>
    BY <2>1
  <2>3. harmed' = {} => SyncsDirectory /\ harmed = {}
    BY <1>2 DEF PowerLoss
  <2>4. QED
    BY <1>2, <2>1, <2>2, <2>3 DEF PowerLoss, Stop, StoreInv, Load
<1>3. CASE Start
  BY <1>3 DEF Start, StoreInv
<1>4. CASE Damage
  BY <1>4 DEF Damage, StoreInv
<1>5. QED
  BY <1>1, <1>2, <1>3, <1>4

\* The invariant holds in every reachable state.
LEMMA StoreCorrect == StoreSpec => [](StoreTypeOK /\ StoreInv)
<1>1. StoreTypeOK /\ StoreInv /\ [StoreNext]_storeVars => (StoreTypeOK /\ StoreInv)'
  <2>1. StoreTypeOK /\ StoreInv /\ UNCHANGED storeVars => StoreInv'
    BY DEF storeVars, StoreTypeOK, StoreInv, Reachable
  <2>2. QED
    BY <2>1, TypeStep, BeforeCommit, RestOfSave, OutsideStep DEF StoreNext
<1>2. QED
  BY <1>1, InitHolds, PTL DEF StoreSpec

-----------------------------------------------------------------------------
\* Every variable keeps its type.
THEOREM StoreTypeCorrect == StoreSpec => []StoreTypeOK
  BY StoreCorrect, PTL

\* No error, kill or (where the directory is synced) power loss makes the store lose
\* the version it acknowledged last.
THEOREM NothingLost == StoreSpec => []SavedStays
<1>1. StoreTypeOK /\ StoreInv => SavedStays
  <2> SUFFICES ASSUME StoreTypeOK, StoreInv, harmed = {}
               PROVE  Loads(primary, bak) /\ Load(primary, bak) \in acceptable
    BY DEF SavedStays
  <2>1. <<primary, bak>> \in Reachable
    BY DEF StoreInv, Reachable
  <2>2. QED
    BY <2>1 DEF StoreInv, StoreTypeOK, Loads, Load, Missing
<1>2. QED
  BY <1>1, StoreCorrect, PTL

-----------------------------------------------------------------------------
\* The memory of the store follows the files.
LEMMA ShownStep == StoreTypeOK /\ StoreInv /\ ShownIsSaved /\ [StoreNext]_storeVars => ShownIsSaved'
<1> SUFFICES ASSUME StoreTypeOK, StoreInv, ShownIsSaved, [StoreNext]_storeVars PROVE ShownIsSaved'
  OBVIOUS
<1> USE DEF ShownIsSaved, Load, Touch, diskVars, Missing
<1>0. harmed = {} => primary \in Nat /\ bak \in Nat
  BY DEF StoreInv, Reachable
<1>1. CASE BeginWrite
  BY <1>1 DEF BeginWrite
<1>2. CASE WriteTemporary
  BY <1>2 DEF WriteTemporary
<1>3. CASE RemoveOldBackup
  BY <1>0, <1>3 DEF RemoveOldBackup
<1>4. CASE MoveToBackup
  BY <1>0, <1>4 DEF MoveToBackup, ReadyToMove
<1>5. CASE Commit
  BY <1>5 DEF Commit
<1>6. CASE Acknowledge
  BY <1>6 DEF Acknowledge, StoreInv
<1>7. CASE WriteFails
  BY <1>7 DEF WriteFails, Refused
<1>8. CASE CommitFails
  BY <1>0, <1>8 DEF CommitFails, ReadyToCommit, Refused, StoreInv
<1>9. CASE Crash
  BY <1>9 DEF Crash, Stop
<1>10. CASE PowerLoss
  BY <1>10 DEF PowerLoss, Stop
<1>11. CASE Start
  BY <1>11 DEF Start
<1>12. CASE Damage
  BY <1>12 DEF Damage
<1>13. CASE UNCHANGED storeVars
  BY <1>13 DEF storeVars
<1>14. QED
  BY <1>1, <1>2, <1>3, <1>4, <1>5, <1>6, <1>7, <1>8, <1>9, <1>10, <1>11, <1>12, <1>13 DEF StoreNext

\* What was acknowledged is found, and what is shown is what is found (StoreSound).
THEOREM SoundStore == StoreSpec => []StoreSound
<1>1. StoreInit => ShownIsSaved
  BY DEF StoreInit, ShownIsSaved, Load, Missing
<1>2. SavedStays /\ ShownIsSaved => StoreSound
  BY DEF StoreSound
<1>3. QED
  BY <1>1, <1>2, ShownStep, StoreCorrect, NothingLost, PTL DEF StoreSpec

-----------------------------------------------------------------------------
(* A file transfer (FileCopy).                                             *)

\* Where temporary files can be, and that what is about to take a name is complete.
PartsInv ==
    /\ part # Nothing => stage \in {"copying", "copied", "checked", "failing"}
    /\ stage \in {"copied", "checked"} => part = Mine
    /\ stage \in {"staged", "moved"} => staged = Mine
    /\ staged # Nothing /\ ~dirty => replace /\ stage \in {"staged", "moved", "unstaging"}
    /\ backup # Nothing => stage \in {"moved", "placed"}
    /\ NeverHalf

\* What the file the user was asked about has to do with each stage.
AnswersInv ==
    /\ stage \in {"removing", "reopenToRemove"} => method = "upload" /\ agreed
    /\ stage \in {"ready", "asking"} => method # "download"
    /\ outcome = "conflict" => method = "upload"
    /\ stage \in {"planning", "staged", "moved", "placed", "unstaging"} \/ replace => method = "wsl"
    /\ stage \in {"staged", "moved", "placed"} => replace
    /\ method = "wsl" /\ ~replace /\ stage \notin {"over", "ready", "asking"} => asked = Nothing
    /\ stage = "moved" /\ asked # Nothing => target \notin {asked} \ {Mine}
    /\ stage = "placed" => placed
    /\ AskedKept

CopyInv == TypeOK /\ PartsInv /\ AnswersInv

-----------------------------------------------------------------------------
\* The program starts in the invariant.
LEMMA InitInv == Init => CopyInv
<1> SUFFICES ASSUME Init PROVE CopyInv
  OBVIOUS
<1>1. FilesTyped
  BY DEF Init, FilesTyped, Contents
<1>2. ControlTyped
  BY DEF Init, ControlTyped, Stages, Outcomes
<1>3. PartsInv
  BY DEF Init, PartsInv, NeverHalf, Nothing, Half
<1>4. AnswersInv
  BY DEF Init, AnswersInv, AskedKept, Lost, Nothing
<1>5. QED
  BY <1>1, <1>2, <1>3, <1>4 DEF CopyInv, TypeOK

\* The types of the files are kept ...
LEMMA FilesStep == ASSUME FilesTyped, [Next]_vars PROVE FilesTyped'
<1> USE DEF filesVars, callVars, historyVars, othersVars, GoTo, End, GiveUp, Sftp,
            Nothing, Mine, Half, FilesTyped, Contents
<1>1. CASE Begin
  BY <1>1 DEF Begin
<1>2. CASE CheckTarget
  BY <1>2 DEF CheckTarget
<1>3. CASE RemoveTarget
  BY <1>3 DEF RemoveTarget
<1>4. CASE RemovalUnanswered
  BY <1>4 DEF RemovalUnanswered
<1>5. CASE Plan
  BY <1>5 DEF Plan
<1>6. CASE PlanFails
  BY <1>6 DEF PlanFails
<1>7. CASE OpenPart
  BY <1>7 DEF OpenPart
<1>8. CASE OpeningUnanswered
  BY <1>8 DEF OpeningUnanswered
<1>9. CASE TargetExists
  BY <1>9 DEF TargetExists
<1>10. CASE CopyEnds
  BY <1>10 DEF CopyEnds
<1>11. CASE RecheckTarget
  BY <1>11 DEF RecheckTarget
<1>12. CASE PlacePart
  BY <1>12 DEF PlacePart
<1>13. CASE PlacingUnanswered
  BY <1>13 DEF PlacingUnanswered
<1>14. CASE StagePart
  BY <1>14 DEF StagePart
<1>15. CASE PreserveTarget
  BY <1>15 DEF PreserveTarget
<1>16. CASE PlaceStaged
  BY <1>16 DEF PlaceStaged
<1>17. CASE PlacingFails
  BY <1>17 DEF PlacingFails
<1>18. CASE RemoveBackup
  BY <1>18 DEF RemoveBackup
<1>19. CASE ReplaceFails
  BY <1>19 DEF ReplaceFails
<1>20. CASE StopsEarly
  BY <1>20 DEF StopsEarly
<1>21. CASE StopsLate
  BY <1>21 DEF StopsLate
<1>22. CASE CleanUp
  BY <1>22 DEF CleanUp, Follows
<1>23. CASE Unstage
  BY <1>23 DEF Unstage
<1>24. CASE Reopen
  BY <1>24 DEF Reopen
<1>25. CASE ReopenFails
  BY <1>25 DEF ReopenFails
<1>26. ASSUME NEW answer \in Answers, Decide(answer) PROVE FilesTyped'
  BY <1>26 DEF Decide, Answers
<1>27. CASE Kill
  BY <1>27 DEF Kill
<1>28. CASE OthersPut
  BY <1>28 DEF OthersPut
<1>29. CASE OthersTake
  BY <1>29 DEF OthersTake
<1>30. CASE UNCHANGED vars
  BY <1>30 DEF vars
<1>31. QED
  BY <1>1, <1>2, <1>3, <1>4, <1>5, <1>6, <1>7, <1>8, <1>9, <1>10, <1>11, <1>12,
     <1>13, <1>14, <1>15, <1>16, <1>17, <1>18, <1>19, <1>20, <1>21, <1>22, <1>23,
     <1>24, <1>25, <1>26, <1>27, <1>28, <1>29, <1>30
     DEF Next, CopyStep

\* ... and those of the rest.
LEMMA ControlStep == ASSUME ControlTyped, [Next]_vars PROVE ControlTyped'
<1> USE DEF filesVars, callVars, historyVars, othersVars, GoTo, End, GiveUp, Sftp,
            Nothing, Mine, Half, ControlTyped, Stages, Outcomes
<1>1. CASE Begin
  BY <1>1 DEF Begin
<1>2. CASE CheckTarget
  BY <1>2 DEF CheckTarget
<1>3. CASE RemoveTarget
  BY <1>3 DEF RemoveTarget
<1>4. CASE RemovalUnanswered
  BY <1>4 DEF RemovalUnanswered
<1>5. CASE Plan
  BY <1>5 DEF Plan
<1>6. CASE PlanFails
  BY <1>6 DEF PlanFails
<1>7. CASE OpenPart
  BY <1>7 DEF OpenPart
<1>8. CASE OpeningUnanswered
  BY <1>8 DEF OpeningUnanswered
<1>9. CASE TargetExists
  BY <1>9 DEF TargetExists
<1>10. CASE CopyEnds
  BY <1>10 DEF CopyEnds
<1>11. CASE RecheckTarget
  BY <1>11 DEF RecheckTarget
<1>12. CASE PlacePart
  BY <1>12 DEF PlacePart
<1>13. CASE PlacingUnanswered
  BY <1>13 DEF PlacingUnanswered
<1>14. CASE StagePart
  BY <1>14 DEF StagePart
<1>15. CASE PreserveTarget
  BY <1>15 DEF PreserveTarget
<1>16. CASE PlaceStaged
  BY <1>16 DEF PlaceStaged
<1>17. CASE PlacingFails
  BY <1>17 DEF PlacingFails
<1>18. CASE RemoveBackup
  BY <1>18 DEF RemoveBackup
<1>19. CASE ReplaceFails
  BY <1>19 DEF ReplaceFails
<1>20. CASE StopsEarly
  BY <1>20 DEF StopsEarly
<1>21. CASE StopsLate
  BY <1>21 DEF StopsLate
<1>22. CASE CleanUp
  BY <1>22 DEF CleanUp, Follows
<1>23. CASE Unstage
  BY <1>23, ZenonT(30) DEF Unstage
<1>24. CASE Reopen
  BY <1>24 DEF Reopen
<1>25. CASE ReopenFails
  BY <1>25 DEF ReopenFails
<1>26. ASSUME NEW answer \in Answers, Decide(answer) PROVE ControlTyped'
  BY <1>26 DEF Decide, Answers
<1>27. CASE Kill
  BY <1>27 DEF Kill
<1>28. CASE OthersPut
  BY <1>28 DEF OthersPut
<1>29. CASE OthersTake
  BY <1>29 DEF OthersTake
<1>30. CASE UNCHANGED vars
  BY <1>30 DEF vars
<1>31. QED
  BY <1>1, <1>2, <1>3, <1>4, <1>5, <1>6, <1>7, <1>8, <1>9, <1>10, <1>11, <1>12,
     <1>13, <1>14, <1>15, <1>16, <1>17, <1>18, <1>19, <1>20, <1>21, <1>22, <1>23,
     <1>24, <1>25, <1>26, <1>27, <1>28, <1>29, <1>30
     DEF Next, CopyStep

\* Every action keeps temporary files where the clean-up finds them.
LEMMA PartsStep ==
    ASSUME TypeOK, PartsInv, AnswersInv, [Next]_vars
    PROVE  PartsInv'
<1> USE DEF filesVars, callVars, historyVars, othersVars, GoTo, End, GiveUp, Sftp,
            Nothing, Mine, Half, TypeOK, FilesTyped, ControlTyped, Contents,
            PartsInv, NeverHalf, AnswersInv
<1>1. CASE Begin
  BY <1>1 DEF Begin
<1>2. CASE CheckTarget
  BY <1>2 DEF CheckTarget
<1>3. CASE RemoveTarget
  BY <1>3 DEF RemoveTarget
<1>4. CASE RemovalUnanswered
  BY <1>4 DEF RemovalUnanswered
<1>5. CASE Plan
  BY <1>5 DEF Plan
<1>6. CASE PlanFails
  BY <1>6 DEF PlanFails
<1>7. CASE OpenPart
  BY <1>7 DEF OpenPart
<1>8. CASE OpeningUnanswered
  BY <1>8 DEF OpeningUnanswered
<1>9. CASE TargetExists
  BY <1>9 DEF TargetExists
<1>10. CASE CopyEnds
  BY <1>10 DEF CopyEnds
<1>11. CASE RecheckTarget
  BY <1>11 DEF RecheckTarget
<1>12. CASE PlacePart
  BY <1>12 DEF PlacePart
<1>13. CASE PlacingUnanswered
  BY <1>13 DEF PlacingUnanswered
<1>14. CASE StagePart
  BY <1>14 DEF StagePart
<1>15. CASE PreserveTarget
  BY <1>15 DEF PreserveTarget
<1>16. CASE PlaceStaged
  BY <1>16 DEF PlaceStaged
<1>17. CASE PlacingFails
  BY <1>17 DEF PlacingFails
<1>18. CASE RemoveBackup
  BY <1>18 DEF RemoveBackup
<1>19. CASE ReplaceFails
  BY <1>19 DEF ReplaceFails
<1>20. CASE StopsEarly
  BY <1>20 DEF StopsEarly
<1>21. CASE StopsLate
  BY <1>21 DEF StopsLate
<1>22. CASE CleanUp
  BY <1>22 DEF CleanUp, Follows
<1>23. CASE Unstage
  BY <1>23 DEF Unstage
<1>24. CASE Reopen
  BY <1>24 DEF Reopen
<1>25. CASE ReopenFails
  BY <1>25 DEF ReopenFails
<1>26. ASSUME NEW answer \in Answers, Decide(answer) PROVE PartsInv'
  BY <1>26 DEF Decide, Answers
<1>27. CASE Kill
  BY <1>27 DEF Kill
<1>28. CASE OthersPut
  BY <1>28 DEF OthersPut
<1>29. CASE OthersTake
  BY <1>29 DEF OthersTake
<1>30. CASE UNCHANGED vars
  BY <1>30 DEF vars
<1>31. QED
  BY <1>1, <1>2, <1>3, <1>4, <1>5, <1>6, <1>7, <1>8, <1>9, <1>10, <1>11, <1>12,
     <1>13, <1>14, <1>15, <1>16, <1>17, <1>18, <1>19, <1>20, <1>21, <1>22, <1>23,
     <1>24, <1>25, <1>26, <1>27, <1>28, <1>29, <1>30
     DEF Next, CopyStep

\* Every action keeps the file asked about until the copy is in place.
LEMMA AnswersStep ==
    ASSUME TypeOK, PartsInv, AnswersInv, [Next]_vars
    PROVE  AnswersInv'
<1> USE CopyAssumption DEF filesVars, callVars, historyVars, othersVars, GoTo, End, GiveUp, Sftp,
            Nothing, Mine, Half, TypeOK, FilesTyped, ControlTyped, Contents,
            PartsInv, AnswersInv, AskedKept, Lost
<1>1. CASE Begin
  BY <1>1 DEF Begin
<1>2. CASE CheckTarget
  BY <1>2 DEF CheckTarget
<1>3. CASE RemoveTarget
  BY <1>3 DEF RemoveTarget
<1>4. CASE RemovalUnanswered
  BY <1>4 DEF RemovalUnanswered
<1>5. CASE Plan
  BY <1>5 DEF Plan
<1>6. CASE PlanFails
  BY <1>6 DEF PlanFails
<1>7. CASE OpenPart
  BY <1>7 DEF OpenPart
<1>8. CASE OpeningUnanswered
  BY <1>8 DEF OpeningUnanswered
<1>9. CASE TargetExists
  BY <1>9 DEF TargetExists
<1>10. CASE CopyEnds
  BY <1>10 DEF CopyEnds
<1>11. CASE RecheckTarget
  BY <1>11 DEF RecheckTarget
<1>12. CASE PlacePart
  BY <1>12 DEF PlacePart
<1>13. CASE PlacingUnanswered
  BY <1>13 DEF PlacingUnanswered
<1>14. CASE StagePart
  <2>1. method' = method /\ asked' = asked /\ Lost' = Lost /\ placed' = placed
    BY <1>14 DEF StagePart
  <2>2. AskedKept'
    BY <2>1
  <2>3. stage' = "staged" /\ replace /\ replace' /\ outcome' = outcome
    BY <1>14 DEF StagePart
  <2>4. QED
    BY <2>1, <2>2, <2>3
<1>15. CASE PreserveTarget
  BY <1>15 DEF PreserveTarget
<1>16. CASE PlaceStaged
  BY <1>16 DEF PlaceStaged
<1>17. CASE PlacingFails
  BY <1>17 DEF PlacingFails
<1>18. CASE RemoveBackup
  BY <1>18 DEF RemoveBackup
<1>19. CASE ReplaceFails
  BY <1>19 DEF ReplaceFails
<1>20. CASE StopsEarly
  BY <1>20 DEF StopsEarly
<1>21. CASE StopsLate
  BY <1>21 DEF StopsLate
<1>22. CASE CleanUp
  BY <1>22 DEF CleanUp, Follows
<1>23. CASE Unstage
  BY <1>23 DEF Unstage
<1>24. CASE Reopen
  BY <1>24 DEF Reopen
<1>25. CASE ReopenFails
  BY <1>25 DEF ReopenFails
<1>26. ASSUME NEW answer \in Answers, Decide(answer) PROVE AnswersInv'
  <2>1. method' = method /\ asked' = asked /\ Lost' = Lost /\ placed' = placed
    BY <1>26 DEF Decide
  <2>2. AskedKept'
    BY <2>1
  <2>3. CASE answer \in {"Overwrite", "OverwriteAll"}
    <3>1. stage' = (IF method = "upload" THEN "removing" ELSE "planning")
          /\ agreed' /\ stage = "asking" /\ outcome' = outcome
      BY <1>26, <2>3 DEF Decide
    <3>2. replace' <=> method = "wsl"
      BY <1>26, <2>3 DEF Decide
    <3>3. QED
      BY <2>1, <2>2, <3>1, <3>2
  <2>4. CASE answer \in {"Skip", "SkipAll"}
    BY <1>26, <2>1, <2>2, <2>4 DEF Decide
  <2>5. QED
    BY <2>3, <2>4 DEF Answers
<1>27. CASE Kill
  BY <1>27 DEF Kill
<1>28. CASE OthersPut
  BY <1>28 DEF OthersPut
<1>29. CASE OthersTake
  BY <1>29 DEF OthersTake
<1>30. CASE UNCHANGED vars
  BY <1>30 DEF vars
<1>31. QED
  BY <1>1, <1>2, <1>3, <1>4, <1>5, <1>6, <1>7, <1>8, <1>9, <1>10, <1>11, <1>12,
     <1>13, <1>14, <1>15, <1>16, <1>17, <1>18, <1>19, <1>20, <1>21, <1>22, <1>23,
     <1>24, <1>25, <1>26, <1>27, <1>28, <1>29, <1>30
     DEF Next, CopyStep

\* In an upload only RemoveTarget and RemovalUnanswered lose a file, after an answer.
LEMMA LostStep ==
    ASSUME TypeOK, PartsInv, AnswersInv, [Next]_vars
    PROVE  method = "upload" /\ Lost' # Lost => agreed'
<1> USE DEF filesVars, callVars, historyVars, othersVars, GoTo, End, GiveUp, Sftp,
            Nothing, Mine, Half, TypeOK, FilesTyped, ControlTyped, Contents,
            PartsInv, AnswersInv, Lost
<1>1. CASE Begin
  BY <1>1 DEF Begin
<1>2. CASE CheckTarget
  BY <1>2 DEF CheckTarget
<1>3. CASE RemoveTarget
  BY <1>3 DEF RemoveTarget
<1>4. CASE RemovalUnanswered
  BY <1>4 DEF RemovalUnanswered
<1>5. CASE Plan
  BY <1>5 DEF Plan
<1>6. CASE PlanFails
  BY <1>6 DEF PlanFails
<1>7. CASE OpenPart
  BY <1>7 DEF OpenPart
<1>8. CASE OpeningUnanswered
  BY <1>8 DEF OpeningUnanswered
<1>9. CASE TargetExists
  BY <1>9 DEF TargetExists
<1>10. CASE CopyEnds
  BY <1>10 DEF CopyEnds
<1>11. CASE RecheckTarget
  BY <1>11 DEF RecheckTarget
<1>12. CASE PlacePart
  BY <1>12 DEF PlacePart
<1>13. CASE PlacingUnanswered
  BY <1>13 DEF PlacingUnanswered
<1>14. CASE StagePart
  BY <1>14 DEF StagePart
<1>15. CASE PreserveTarget
  BY <1>15 DEF PreserveTarget
<1>16. CASE PlaceStaged
  BY <1>16 DEF PlaceStaged
<1>17. CASE PlacingFails
  BY <1>17 DEF PlacingFails
<1>18. CASE RemoveBackup
  BY <1>18 DEF RemoveBackup
<1>19. CASE ReplaceFails
  BY <1>19 DEF ReplaceFails
<1>20. CASE StopsEarly
  BY <1>20 DEF StopsEarly
<1>21. CASE StopsLate
  BY <1>21 DEF StopsLate
<1>22. CASE CleanUp
  BY <1>22 DEF CleanUp, Follows
<1>23. CASE Unstage
  BY <1>23 DEF Unstage
<1>24. CASE Reopen
  BY <1>24 DEF Reopen
<1>25. CASE ReopenFails
  BY <1>25 DEF ReopenFails
<1>26. ASSUME NEW answer \in Answers, Decide(answer)
       PROVE  method = "upload" /\ Lost' # Lost => agreed'
  BY <1>26 DEF Decide, Answers
<1>27. CASE Kill
  BY <1>27 DEF Kill
<1>28. CASE OthersPut
  BY <1>28 DEF OthersPut
<1>29. CASE OthersTake
  BY <1>29 DEF OthersTake
<1>30. CASE UNCHANGED vars
  BY <1>30 DEF vars
<1>31. QED
  BY <1>1, <1>2, <1>3, <1>4, <1>5, <1>6, <1>7, <1>8, <1>9, <1>10, <1>11, <1>12,
     <1>13, <1>14, <1>15, <1>16, <1>17, <1>18, <1>19, <1>20, <1>21, <1>22, <1>23,
     <1>24, <1>25, <1>26, <1>27, <1>28, <1>29, <1>30
     DEF Next, CopyStep

\* The invariant is kept by every step.
LEMMA InvStep == CopyInv /\ [Next]_vars => CopyInv'
BY FilesStep, ControlStep, PartsStep, AnswersStep DEF CopyInv, TypeOK

-----------------------------------------------------------------------------
\* What the report and the history say of each other on the way to the end.
EndsInv ==
    /\ stage \in {"failing", "unstaging"} => outcome # "done"
    /\ stage \notin {"over", "placed"} /\ placed => unanswered
    /\ HonestEnd

\* No step makes the report say what is not so.
LEMMA EndsStep == ASSUME CopyInv, EndsInv, [Next]_vars PROVE EndsInv'
<1> USE DEF filesVars, callVars, historyVars, othersVars, GoTo, End, GiveUp, Sftp, EndsInv, HonestEnd
<1>0. stage = "placed" => placed
  BY DEF CopyInv, AnswersInv
<1>1. CASE Begin
  BY <1>1 DEF Begin
<1>2. CASE CheckTarget
  BY <1>2 DEF CheckTarget
<1>3. CASE RemoveTarget
  BY <1>3 DEF RemoveTarget
<1>4. CASE RemovalUnanswered
  BY <1>4 DEF RemovalUnanswered
<1>5. CASE Plan
  BY <1>5 DEF Plan
<1>6. CASE PlanFails
  BY <1>6 DEF PlanFails
<1>7. CASE OpenPart
  BY <1>7 DEF OpenPart
<1>8. CASE OpeningUnanswered
  BY <1>8 DEF OpeningUnanswered
<1>9. CASE TargetExists
  BY <1>9 DEF TargetExists
<1>10. CASE CopyEnds
  BY <1>10 DEF CopyEnds
<1>11. CASE RecheckTarget
  BY <1>11 DEF RecheckTarget
<1>12. CASE PlacePart
  BY <1>12 DEF PlacePart
<1>13. CASE PlacingUnanswered
  BY <1>13 DEF PlacingUnanswered
<1>14. CASE StagePart
  BY <1>14 DEF StagePart
<1>15. CASE PreserveTarget
  BY <1>15 DEF PreserveTarget
<1>16. CASE PlaceStaged
  BY <1>16 DEF PlaceStaged
<1>17. CASE PlacingFails
  BY <1>17 DEF PlacingFails
<1>18. CASE RemoveBackup
  BY <1>0, <1>18 DEF RemoveBackup
<1>19. CASE ReplaceFails
  BY <1>19 DEF ReplaceFails
<1>20. CASE StopsEarly
  BY <1>20 DEF StopsEarly
<1>21. CASE StopsLate
  BY <1>21 DEF StopsLate
<1>22. CASE CleanUp
  BY <1>22 DEF CleanUp, Follows
<1>23. CASE Unstage
  BY <1>23 DEF Unstage
<1>24. CASE Reopen
  BY <1>24 DEF Reopen
<1>25. CASE ReopenFails
  BY <1>25 DEF ReopenFails
<1>26. ASSUME NEW answer \in Answers, Decide(answer) PROVE EndsInv'
  BY <1>26 DEF Decide, Answers
<1>27. CASE Kill
  BY <1>27 DEF Kill
<1>28. CASE OthersPut
  BY <1>28 DEF OthersPut
<1>29. CASE OthersTake
  BY <1>29 DEF OthersTake
<1>30. CASE UNCHANGED vars
  BY <1>30 DEF vars
<1>31. QED
  BY <1>1, <1>2, <1>3, <1>4, <1>5, <1>6, <1>7, <1>8, <1>9, <1>10, <1>11, <1>12,
     <1>13, <1>14, <1>15, <1>16, <1>17, <1>18, <1>19, <1>20, <1>21, <1>22, <1>23, <1>24,
     <1>25, <1>26, <1>27, <1>28, <1>29, <1>30
     DEF Next, CopyStep

-----------------------------------------------------------------------------
\* Where the temporary files are and what became of the file asked about, at every stage.
THEOREM CopySafe == Spec => []CopyInv
BY InitInv, InvStep, PTL DEF Spec

\* The variables of a transfer keep their types.
THEOREM TypeCorrect == Spec => []TypeOK
<1>1. CopyInv => TypeOK
  BY DEF CopyInv
<1>2. QED
  BY <1>1, CopySafe, PTL

\* An incomplete file is never at the target (NeverHalf).
THEOREM TargetComplete == Spec => []NeverHalf
<1>1. CopyInv => NeverHalf
  BY DEF CopyInv, PartsInv
<1>2. QED
  BY <1>1, CopySafe, PTL

\* Every way out of a transfer removes what it made beside the target (CleanEnd).
THEOREM NothingLeft == Spec => []CleanEnd
<1>1. CopyInv => CleanEnd
  BY DEF CopyInv, PartsInv, CleanEnd
<1>2. QED
  BY <1>1, CopySafe, PTL

\* The WSL replacement gives up the old file only for the new one (AskedKept).
THEOREM OldOrNew == Spec => []AskedKept
<1>1. CopyInv => AskedKept
  BY DEF CopyInv, AnswersInv
<1>2. QED
  BY <1>1, CopySafe, PTL

\* What a transfer reports of its end is so (HonestEnd).
THEOREM HonestReport == Spec => []HonestEnd
<1>1. Init => EndsInv
  BY DEF Init, EndsInv, HonestEnd
<1>2. CopyInv /\ EndsInv /\ [Next]_vars => EndsInv'
  BY EndsStep
<1>3. EndsInv => HonestEnd
  BY DEF EndsInv
<1>4. QED
  BY <1>1, <1>2, <1>3, CopySafe, PTL DEF Spec

\* Whole files, one of the two, nothing beside them, and a true report (CopySound).
THEOREM SoundCopies == Spec => []CopySound
<1>1. NeverHalf /\ AskedKept /\ CleanEnd /\ HonestEnd => CopySound
  BY DEF CopySound
<1>2. QED
  BY <1>1, TargetComplete, OldOrNew, NothingLeft, HonestReport, PTL

\* An upload removes nothing without an answer (AskedFirst).
THEOREM UploadsAsk == Spec => AskedFirst
<1>1. CopyInv /\ [Next]_vars => [method = "upload" /\ Lost' # Lost => agreed']_vars
  BY LostStep DEF CopyInv
<1>2. QED
  BY <1>1, CopySafe, PTL DEF Spec, AskedFirst
===============================================================================
