------------------------------ MODULE PanelProofs ------------------------------
(***************************************************************************)
(* Host trust, settings, updates, the listing of an SFTP tab, the saved    *)
(* commands, the serial log, the transfer panel and the network scan, for  *)
(* any number of profiles, servers, keys, changes, refused saves,          *)
(* attempts, handlers, windows, tasks, answers and scans.  A fingerprint   *)
(* is trusted only for the server it was shown for and only after it was   *)
(* confirmed; the window shows the settings that are stored; the progress  *)
(* of an update counts no more parts than there are; what is asked of a    *)
(* server is asked of the one the tab is of; windows come to show the      *)
(* commands that are stored; the log is in the order of its times; the     *)
(* panel refreshes its listing once for a task that ended; the page of the *)
(* scan lists the hosts of the scan it names, each once.                   *)
(***************************************************************************)
EXTENDS HostTrust, SettingsSaving, AppUpdate, SftpBrowse, SavedCommands, SerialLog,
        TransferView, NetworkScan, ListLemmas, FiniteSetTheorems, SequenceTheorems, TLAPS

(* Host trust (HostTrust).                                                 *)

Calls == [profile : Profiles, at : SshServers, by : {"list", "dialog", "test", "trust"}]
TrustAnswers == [profile : Profiles, at : SshServers, key : Keys]
Questions == [profile : Profiles, at : SshServers, connect : BOOLEAN]
Confirmations == [profile : Profiles, at : SshServers, connect : BOOLEAN, key : Keys]
Dialogs == [open : {TRUE}, profile : Profiles, draft : SshServers, busy : BOOLEAN,
            secret : {"empty", "typed", "saved"}, edited : BOOLEAN, loading : BOOLEAN]

TrustTypeOK ==
    /\ server \in [Profiles -> SshServers] /\ serverKey \in [SshServers -> Keys]
    /\ knownKey \in [SshServers -> Keys \cup {NoKey}]
    /\ connects \subseteq Calls
    /\ pending = NoQuestion \/ pending \in TrustAnswers
    /\ request = NoQuestion \/ request \in Questions
    /\ trusting = NoQuestion \/ trusting \in Confirmations
    /\ dialog = NoDialog \/ dialog \in Dialogs

\* What is being stored was confirmed: the answer and the question were of one server.
StoringWasConfirmed ==
    trusting # NoQuestion => [at |-> trusting.at, key |-> trusting.key] \in confirmed

\* What was typed is known to be, so that a password that is read late leaves it.
TypedIsKnown == dialog.open /\ dialog.secret = "typed" => dialog.edited

TrustInv == TrustTypeOK /\ StoringWasConfirmed /\ TypedIsKnown

-----------------------------------------------------------------------------
\* The dialog that is absent is closed, the others are open.
LEMMA DialogIsOpen ==
    /\ ~NoDialog.open
    /\ \A d \in Dialogs : d.open
  BY DEF NoDialog, Dialogs

\* A dialog that opens knows no password yet.
LEMMA OpenedDialog ==
    ASSUME TrustTypeOK, NEW p \in Profiles, NEW remembered \in BOOLEAN
    PROVE  /\ DialogOf(p, remembered) \in Dialogs
           /\ DialogOf(p, remembered).secret = "empty"
  BY DEF DialogOf, Dialogs, TrustTypeOK

\* An answer ends the wait of the dialog its call came from, and nothing else of it.
LEMMA ServedDialog ==
    ASSUME TrustInv, NEW c \in Calls
    PROVE  /\ Served(c, dialog) = NoDialog \/ Served(c, dialog) \in Dialogs
           /\ Served(c, dialog).open = dialog.open
           /\ dialog.open => /\ Served(c, dialog).secret = dialog.secret
                             /\ Served(c, dialog).edited = dialog.edited
  <1>1. CASE dialog.open /\ c.by \in {"dialog", "test"}
    <2>1. dialog \in Dialogs
      BY <1>1, DialogIsOpen DEF TrustInv, TrustTypeOK
    <2>2. QED BY <1>1, <2>1 DEF Served, Dialogs
  <1>2. CASE ~(dialog.open /\ c.by \in {"dialog", "test"})
    BY <1>2 DEF Served, TrustInv, TrustTypeOK
  <1>3. QED BY <1>1, <1>2

-----------------------------------------------------------------------------
(* The dialog, whose steps leave the question and the calls alone.          *)

DialogSide == EditServer \/ TypeSecret \/ SecretRead \/ CloseDialog
                  \/ (\E p \in Profiles : OpenDialog(p)) \/ SaveDraft

\* What a step of the dialog leaves: its types, and that a typed password stays typed.
LEMMA DialogStep ==
    ASSUME TrustInv, DialogSide
    PROVE  /\ dialog' = NoDialog \/ dialog' \in Dialogs
           /\ server' \in [Profiles -> SshServers]
           /\ TypedIsKnown'
           /\ dialog.open /\ dialog.secret = "typed" /\ dialog'.open
                => dialog'.secret # "saved"
  <1>1. /\ TrustTypeOK /\ TypedIsKnown /\ server \in [Profiles -> SshServers]
        /\ dialog.open => dialog \in Dialogs
    BY DialogIsOpen DEF TrustInv, TrustTypeOK
  <1>2. CASE EditServer
    <2>1. PICK s \in SshServers :
            dialog' = [dialog EXCEPT !.draft = s,
                         !.secret = IF s = server[dialog.profile] THEN @ ELSE "empty"]
      BY <1>2 DEF EditServer
    <2>2. dialog \in Dialogs /\ server' = server
      BY <1>1, <1>2 DEF EditServer
    <2>3. /\ dialog' \in Dialogs /\ dialog'.edited = dialog.edited
          /\ dialog'.secret \in {dialog.secret, "empty"}
      BY <2>1, <2>2 DEF Dialogs
    <2>4. QED BY <1>1, <2>2, <2>3, DialogIsOpen DEF TypedIsKnown
  <1>3. CASE TypeSecret
    <2>1. dialog \in Dialogs /\ server' = server
      BY <1>1, <1>3 DEF TypeSecret
    <2>2. dialog' \in Dialogs /\ dialog'.edited /\ dialog'.secret = "typed"
      BY <1>3, <2>1 DEF TypeSecret, Dialogs
    <2>3. QED BY <1>1, <2>1, <2>2 DEF TypedIsKnown
  <1>4. CASE SecretRead
    <2>1. dialog \in Dialogs /\ server' = server
      BY <1>1, <1>4 DEF SecretRead
    <2>2. /\ dialog' \in Dialogs /\ dialog'.edited = dialog.edited
          /\ dialog'.secret = IF dialog.edited THEN dialog.secret ELSE "saved"
      BY <1>4, <2>1 DEF SecretRead, Fills, Dialogs
    <2>3. QED BY <1>1, <2>1, <2>2, DialogIsOpen DEF TypedIsKnown
  <1>5. CASE CloseDialog
    BY <1>1, <1>5, DialogIsOpen DEF CloseDialog, TypedIsKnown
  <1>6. CASE \E p \in Profiles : OpenDialog(p)
    <2>1. PICK p \in Profiles, remembered \in BOOLEAN : dialog' = DialogOf(p, remembered)
      BY <1>6 DEF OpenDialog
    <2>2. server' = server
      BY <1>6 DEF OpenDialog
    <2>3. QED BY <1>1, <2>1, <2>2, OpenedDialog DEF TypedIsKnown
  <1>7. CASE SaveDraft
    <2>1. dialog \in Dialogs /\ dialog.profile \in Profiles /\ dialog.draft \in SshServers
      BY <1>1, <1>7 DEF SaveDraft, Dialogs
    <2>2. PICK remembered \in BOOLEAN :
            dialog' = [DialogOf(dialog.profile, remembered) EXCEPT !.draft = dialog.draft]
      BY <1>7 DEF SaveDraft
    <2>3. /\ DialogOf(dialog.profile, remembered) \in Dialogs
          /\ DialogOf(dialog.profile, remembered).secret = "empty"
      BY <1>1, <2>1, OpenedDialog
    <2>4. dialog' \in Dialogs /\ dialog'.secret = "empty"
      BY <2>1, <2>2, <2>3 DEF Dialogs
    <2>5. server' \in [Profiles -> SshServers]
      BY <1>1, <1>7, <2>1 DEF SaveDraft
    <2>6. QED BY <2>4, <2>5 DEF TypedIsKnown
  <1>8. QED BY <1>2, <1>3, <1>4, <1>5, <1>6, <1>7 DEF DialogSide

\* The dialog has no part in the question about a fingerprint.
LEMMA DialogLeavesQuestion ==
    ASSUME DialogSide
    PROVE  UNCHANGED <<serverKey, knownKey, connects, pending, request, trusting, confirmed>>
  BY DEF DialogSide, EditServer, TypeSecret, SecretRead, CloseDialog, OpenDialog, SaveDraft,
         QuestionSide

-----------------------------------------------------------------------------
\* What a step does to the key of a server and to the secret of the dialog.
StepSound ==
    /\ \A s \in SshServers :
         knownKey'[s] # knownKey[s] => [at |-> s, key |-> knownKey'[s]] \in confirmed
    /\ ~(dialog.open /\ dialog.secret = "typed" /\ dialog'.open /\ dialog'.secret = "saved")

\* A call is made.
LEMMA AskStep ==
    ASSUME TrustInv, DialogCalls \/ \E p \in Profiles : ConnectSaved(p)
    PROVE  TrustInv' /\ StepSound
  <1>1. /\ TrustTypeOK /\ TypedIsKnown /\ StoringWasConfirmed
        /\ dialog.open => dialog \in Dialogs
    BY DialogIsOpen DEF TrustInv, TrustTypeOK
  <1>2. CASE \E p \in Profiles : ConnectSaved(p)
    <2>1. PICK p \in Profiles : ConnectSaved(p)
      BY <1>2
    <2>2. connects' \subseteq Calls
      BY <1>1, <2>1 DEF ConnectSaved, Ask, Call, Calls, TrustTypeOK
    <2>3. /\ UNCHANGED <<server, serverKey, knownKey, pending, request, trusting, confirmed, dialog>>
      BY <2>1 DEF ConnectSaved, QuestionSide
    <2>4. QED BY <1>1, <2>2, <2>3
             DEF TrustInv, TrustTypeOK, StoringWasConfirmed, TypedIsKnown, StepSound
  <1>3. CASE DialogCalls
    <2>1. dialog \in Dialogs /\ dialog.profile \in Profiles /\ dialog.draft \in SshServers
      BY <1>1, <1>3 DEF DialogCalls, Dialogs
    <2>2. UNCHANGED <<serverKey, knownKey, pending, request, trusting, confirmed>>
      BY <1>3 DEF DialogCalls, QuestionSide
    <2>3. connects' \subseteq Calls
      BY <1>1, <1>3, <2>1 DEF DialogCalls, Ask, Call, Calls, TrustTypeOK
    <2>4. server' \in [Profiles -> SshServers]
      BY <1>1, <1>3, <2>1 DEF DialogCalls, TrustTypeOK
    <2>5. /\ dialog' \in Dialogs /\ dialog'.secret = dialog.secret
          /\ dialog'.edited = dialog.edited
      BY <1>3, <2>1 DEF DialogCalls, Dialogs
    <2>6. QED BY <1>1, <2>1, <2>2, <2>3, <2>4, <2>5, DialogIsOpen
             DEF TrustInv, TrustTypeOK, StoringWasConfirmed, TypedIsKnown, StepSound
  <1>4. QED BY <1>2, <1>3

\* A call is answered: connected, asked whether to trust, or failed.
LEMMA AnswerStep ==
    ASSUME TrustInv, Connected \/ NeedsTrust \/ ConnectFails
    PROVE  TrustInv' /\ StepSound
  <1>1. TrustTypeOK /\ TypedIsKnown /\ StoringWasConfirmed
    BY DEF TrustInv
  <1>2. UNCHANGED <<server, serverKey, knownKey, trusting, confirmed>>
    BY DEF Connected, NeedsTrust, ConnectFails
  <1>3. PICK c \in connects :
          /\ connects' = connects \ {c}
          /\ dialog' \in {NoDialog, Served(c, dialog)}
          /\ \/ pending' \in {NoQuestion, pending} /\ request' = request
             \/ /\ pending' = [profile |-> c.profile, at |-> c.at, key |-> serverKey[c.at]]
                /\ request' = [profile |-> c.profile, at |-> c.at, connect |-> c.by # "test"]
    BY DEF Connected, NeedsTrust, ConnectFails
  <1>4. c \in Calls /\ c.profile \in Profiles /\ c.at \in SshServers
    BY <1>1 DEF TrustTypeOK, Calls
  <1>5. /\ pending' = NoQuestion \/ pending' \in TrustAnswers
        /\ request' = NoQuestion \/ request' \in Questions
    <2>1. /\ pending = NoQuestion \/ pending \in TrustAnswers
          /\ request = NoQuestion \/ request \in Questions
      BY <1>1 DEF TrustTypeOK
    <2>2. serverKey[c.at] \in Keys
      BY <1>1, <1>4 DEF TrustTypeOK
    <2>3. [profile |-> c.profile, at |-> c.at, key |-> serverKey[c.at]] \in TrustAnswers
      BY <1>4, <2>2 DEF TrustAnswers
    <2>4. [profile |-> c.profile, at |-> c.at, connect |-> c.by # "test"] \in Questions
      BY <1>4, (c.by # "test") \in BOOLEAN DEF Questions
    <2>5. QED BY <1>3, <2>1, <2>3, <2>4, Zenon
  <1>6. /\ dialog' = NoDialog \/ dialog' \in Dialogs
        /\ dialog'.open => /\ dialog.open /\ dialog'.secret = dialog.secret
                           /\ dialog'.edited = dialog.edited
    BY <1>3, <1>4, ServedDialog, DialogIsOpen
  <1>7. QED BY <1>1, <1>2, <1>3, <1>5, <1>6
           DEF TrustInv, TrustTypeOK, StoringWasConfirmed, TypedIsKnown, StepSound

\* The question is cancelled or confirmed, and the fingerprint stored or refused.
LEMMA QuestionStep ==
    ASSUME TrustInv, CancelTrust \/ ConfirmTrust \/ TrustStored \/ TrustRefused
    PROVE  TrustInv' /\ StepSound
  <1>1. TrustTypeOK /\ TypedIsKnown /\ StoringWasConfirmed
    BY DEF TrustInv
  <1>2. UNCHANGED <<server, serverKey, dialog>>
    BY DEF CancelTrust, ConfirmTrust, TrustStored, TrustRefused
  <1>3. CASE CancelTrust
    BY <1>1, <1>2, <1>3
       DEF CancelTrust, TrustInv, TrustTypeOK, StoringWasConfirmed, TypedIsKnown, StepSound
  <1>4. CASE ConfirmTrust
    <2>1. /\ request \in Questions /\ pending \in TrustAnswers /\ request.at = pending.at
      BY <1>1, <1>4 DEF ConfirmTrust, Asking, TrustTypeOK
    <2>2. /\ trusting' = [profile |-> request.profile, at |-> request.at,
                          connect |-> request.connect, key |-> pending.key]
          /\ confirmed' = confirmed \cup {[at |-> pending.at, key |-> pending.key]}
          /\ UNCHANGED <<knownKey, connects, pending, request>>
      BY <1>4 DEF ConfirmTrust
    <2>3. trusting' \in Confirmations
      BY <2>1, <2>2 DEF Questions, TrustAnswers, Confirmations
    <2>4. StoringWasConfirmed'
      BY <2>1, <2>2 DEF StoringWasConfirmed
    <2>5. QED BY <1>1, <1>2, <2>2, <2>3, <2>4
             DEF TrustInv, TrustTypeOK, TypedIsKnown, StepSound
  <1>5. CASE TrustStored
    <2>1. /\ trusting \in Confirmations
          /\ [at |-> trusting.at, key |-> trusting.key] \in confirmed
      BY <1>1, <1>5 DEF TrustStored, TrustTypeOK, StoringWasConfirmed
    <2>2. /\ trusting.profile \in Profiles /\ trusting.at \in SshServers /\ trusting.key \in Keys
      BY <2>1 DEF Confirmations
    <2>3. /\ knownKey' = [knownKey EXCEPT ![trusting.at] = trusting.key]
          /\ trusting' = NoQuestion /\ pending' = NoQuestion /\ request' = NoQuestion
          /\ confirmed' = confirmed
          /\ connects' \subseteq connects \cup {Call(trusting.profile, trusting.at, "trust")}
      BY <1>5 DEF TrustStored, Stored
    <2>4. /\ knownKey' \in [SshServers -> Keys \cup {NoKey}]
          /\ \A s \in SshServers : knownKey'[s] # knownKey[s] =>
               s = trusting.at /\ knownKey'[s] = trusting.key
      BY <1>1, <2>2, <2>3 DEF TrustTypeOK
    <2>5. connects' \subseteq Calls
      BY <1>1, <2>2, <2>3 DEF TrustTypeOK, Call, Calls
    <2>6. StepSound
      BY <1>2, <2>1, <2>4 DEF StepSound
    <2>7. QED BY <1>1, <1>2, <2>3, <2>4, <2>5, <2>6
             DEF TrustInv, TrustTypeOK, StoringWasConfirmed, TypedIsKnown
  <1>6. CASE TrustRefused
    BY <1>1, <1>2, <1>6
       DEF TrustRefused, TrustInv, TrustTypeOK, StoringWasConfirmed, TypedIsKnown, StepSound
  <1>7. QED BY <1>3, <1>4, <1>5, <1>6

\* A server that changes its key changes nothing that was asked or is known.
LEMMA ServerStep ==
    ASSUME TrustInv, ServerChangesKey
    PROVE  TrustInv' /\ StepSound
  <1>1. serverKey' \in [SshServers -> Keys]
    BY DEF ServerChangesKey, TrustInv, TrustTypeOK
  <1>2. QED BY <1>1 DEF ServerChangesKey, QuestionSide, TrustInv, TrustTypeOK,
                        StoringWasConfirmed, TypedIsKnown, StepSound

\* Every step keeps the invariant and trusts only what was confirmed.
LEMMA TrustStep == TrustInv /\ [TrustNext]_trustVars => TrustInv' /\ StepSound
  <1> SUFFICES ASSUME TrustInv, [TrustNext]_trustVars PROVE TrustInv' /\ StepSound
    OBVIOUS
  <1>1. CASE DialogSide
    BY <1>1, DialogStep, DialogLeavesQuestion
       DEF TrustInv, TrustTypeOK, StoringWasConfirmed, StepSound
  <1>2. CASE DialogCalls \/ \E p \in Profiles : ConnectSaved(p)
    BY <1>2, AskStep
  <1>3. CASE Connected \/ NeedsTrust \/ ConnectFails
    BY <1>3, AnswerStep
  <1>4. CASE CancelTrust \/ ConfirmTrust \/ TrustStored \/ TrustRefused
    BY <1>4, QuestionStep
  <1>5. CASE ServerChangesKey
    BY <1>5, ServerStep
  <1>6. CASE UNCHANGED trustVars
    BY <1>6 DEF trustVars, TrustInv, TrustTypeOK, StoringWasConfirmed, TypedIsKnown, StepSound
  <1>7. QED BY <1>1, <1>2, <1>3, <1>4, <1>5, <1>6 DEF TrustNext, DialogSide

\* At the start nothing is known, asked or open.
LEMMA TrustStarts == TrustInit => TrustInv
  <1> SUFFICES ASSUME TrustInit PROVE TrustInv
    OBVIOUS
  <1>1. knownKey \in [SshServers -> Keys \cup {NoKey}]
    BY DEF TrustInit
  <1>2. QED BY <1>1, DialogIsOpen
           DEF TrustInit, TrustInv, TrustTypeOK, StoringWasConfirmed, TypedIsKnown

\* A fingerprint is trusted only for the server it was shown for, after a user
\* confirmed that very one, and a typed password is not replaced by the saved one
\* that is read late (confirmHostTrust, trustProfileHost, ConnectionProfileDialog).
THEOREM TrustIsSound == TrustSpec => TrustSound
  <1>1. TrustInit => TrustInv
    BY TrustStarts
  <1>2. TrustInv /\ [TrustNext]_trustVars => TrustInv' /\ StepSound
    BY TrustStep
  <1>3. TrustInv /\ [TrustNext]_trustVars =>
          [\A s \in SshServers :
             knownKey'[s] # knownKey[s] => [at |-> s, key |-> knownKey'[s]] \in confirmed]_trustVars
    BY <1>2 DEF StepSound
  <1>4. TrustInv /\ [TrustNext]_trustVars =>
          [dialog.open /\ dialog.secret = "typed" /\ dialog'.open /\ dialog'.secret = "saved"
             => FALSE]_trustVars
    BY <1>2 DEF StepSound
  <1>5. QED BY <1>1, <1>2, <1>3, <1>4, PTL DEF TrustSpec, TrustSound, TrustedWasShown, TypedStays
-----------------------------------------------------------------------------
(* The settings (SettingsSaving).                                          *)

AnySettings == [size : Sizes, user : Users, proxy : BOOLEAN, auth : BOOLEAN, picture : Nat]

SaveCalls == [kind : {"save"}, turn : Nat, value : AnySettings, before : AnySettings]
ServiceCalls == SaveCalls \cup [kind : {"load", "restore"}]

SlowChanges == [{"picture", "password", "clear"} -> AnySettings \cup {NotBegun}]

SettingsTypeOK ==
    /\ stored \in AnySettings /\ settings \in [SettingsWindows -> AnySettings]
    /\ sequence \in [SettingsWindows -> Nat] /\ settingChanges \in Nat /\ reloads \in Nat
    /\ unsent \in [SettingsWindows -> Seq(SaveCalls)]
    /\ serviceCalls \in [SettingsWindows -> Seq(ServiceCalls)]
    /\ slow \in SlowChanges

\* The newest save of a window is the last that waits, or, when none waits, its one
\* save at the service: the answer that is shown is the last that comes.
NewestIsLast(w) ==
    /\ unsent[w] # <<>> => unsent[w][Len(unsent[w])].turn = sequence[w]
    /\ unsent[w] = <<>> =>
         \A i \in DOMAIN serviceCalls[w] :
             serviceCalls[w][i].kind = "save" => serviceCalls[w][i].turn = sequence[w]

ShownAt(w) == AllAnswered(w) /\ w \notin outdated => settings[w] = stored

SavingInv ==
    /\ SettingsTypeOK
    /\ \A w \in SettingsWindows : NewestIsLast(w) /\ ShownAt(w)

-----------------------------------------------------------------------------
\* What the store holds first, and what the windows show before it was loaded,
\* are settings.
LEMMA FirstSettings == SettingsInit => SettingsTypeOK
  <1> SUFFICES ASSUME SettingsInit PROVE SettingsTypeOK
    OBVIOUS
  <1>1. stored \in AnySettings
    BY SettingsSavingAssumption DEF SettingsInit, SettingsSet, AnySettings
  <1>2. (CHOOSE s \in ValidSizes : TRUE) \in Sizes
    BY SettingsSavingAssumption
  <1>3. DefaultSettings \in AnySettings
    BY <1>2, SettingsSavingAssumption DEF DefaultSettings, AnySettings
  <1>4. <<Load>> \in Seq(ServiceCalls)
    BY DEF Load, ServiceCalls
  <1>5. slow \in SlowChanges
    BY DEF SettingsInit, NoSlowChange, SlowChanges
  <1>6. QED BY <1>1, <1>3, <1>4, <1>5 DEF SettingsInit, SettingsTypeOK

\* A window that a step leaves alone is as before, but that it may become outdated.
LEMMA OthersKeep ==
    ASSUME SavingInv, NEW v \in SettingsWindows,
           settings'[v] = settings[v], sequence'[v] = sequence[v],
           unsent'[v] = unsent[v], serviceCalls'[v] = serviceCalls[v],
           v \in outdated' \/ (stored' = stored /\ (v \in outdated' <=> v \in outdated))
    PROVE  NewestIsLast(v)' /\ ShownAt(v)'
  BY DEF SavingInv, NewestIsLast, ShownAt, AllAnswered

\* What Save leaves: settings that wait as the newest.
LEMMA SaveWaits ==
    ASSUME SavingInv, NEW w \in SettingsWindows, NEW next \in AnySettings, Save(w, next),
           UNCHANGED <<StoreSide, serviceCalls>>,
           settingChanges' \in Nat, reloads' \in Nat, slow' \in SlowChanges
    PROVE  SavingInv'
  <1> DEFINE call == [kind |-> "save", turn |-> sequence[w] + 1, value |-> next,
                      before |-> settings[w]]
  <1>1. call \in SaveCalls
    BY DEF SaveCalls, SavingInv, SettingsTypeOK
  <1>2. /\ unsent[w] \in Seq(SaveCalls) /\ unsent' = [unsent EXCEPT ![w] = Append(@, call)]
        /\ sequence' = [sequence EXCEPT ![w] = @ + 1] /\ settings' = [settings EXCEPT ![w] = next]
        /\ sequence[w] \in Nat
    BY DEF SavingInv, SettingsTypeOK, Save
  <1> HIDE DEF call
  <1>3. Append(unsent[w], call) \in Seq(SaveCalls)
    BY <1>1, <1>2
  <1>4. SettingsTypeOK'
    BY <1>2, <1>3 DEF SavingInv, SettingsTypeOK, StoreSide
  <1>5. /\ unsent'[w] = Append(unsent[w], call) /\ sequence'[w] = sequence[w] + 1
    BY <1>2 DEF SavingInv, SettingsTypeOK
  <1>6. unsent'[w] # <<>> /\ unsent'[w][Len(unsent'[w])] = call
    BY <1>1, <1>2, <1>5
  <1>7. call.turn = sequence[w] + 1
    BY DEF call
  <1>8. NewestIsLast(w)' /\ ShownAt(w)'
    BY <1>5, <1>6, <1>7 DEF NewestIsLast, ShownAt, AllAnswered
  <1>9. ASSUME NEW v \in SettingsWindows, v # w
        PROVE  NewestIsLast(v)' /\ ShownAt(v)'
    BY <1>2, <1>9, OthersKeep DEF SavingInv, SettingsTypeOK, StoreSide
  <1>10. QED BY <1>4, <1>8, <1>9 DEF SavingInv

\* A save goes to the service: it is the newest if none waits any longer, and there
\* is no other save of its window there.
LEMMA SendKeeps ==
    ASSUME SavingInv, NEW w \in SettingsWindows, SendSave(w)
    PROVE  SavingInv'
  <1> DEFINE toSend == unsent[w]
             calls == serviceCalls[w]
             rest == Tail(toSend)
             more == Append(calls, Head(toSend))
  <1>1. /\ toSend \in Seq(SaveCalls) /\ toSend # <<>> /\ calls \in Seq(ServiceCalls)
        /\ unsent' = [unsent EXCEPT ![w] = rest] /\ serviceCalls' = [serviceCalls EXCEPT ![w] = more]
        /\ UNCHANGED <<stored, outdated, settings, sequence, slow, settingChanges, reloads>>
        /\ \A i \in DOMAIN calls : calls[i].kind # "save"
    BY DEF SavingInv, SettingsTypeOK, SendSave, StoreSide, PagesSide
  <1>2. unsent'[w] = rest /\ serviceCalls'[w] = more
    BY <1>1 DEF SavingInv, SettingsTypeOK
  <1>3. NewestIsLast(w) /\ sequence'[w] = sequence[w]
    BY <1>1 DEF SavingInv
  <1>4. toSend[Len(toSend)].turn = sequence[w]
    BY <1>1, <1>3 DEF NewestIsLast
  <1> HIDE DEF toSend, calls
  <1>5. Head(toSend) \in SaveCalls /\ Head(toSend) = toSend[1] /\ Len(toSend) \in Nat \ {0}
    BY <1>1
  <1>6. /\ more \in Seq(ServiceCalls) /\ more # <<>> /\ Len(more) = Len(calls) + 1
        /\ more[Len(more)] = Head(toSend)
        /\ \A i \in 1..Len(calls) : more[i] = calls[i]
    <2> DEFINE x == Head(toSend)
    <2>1. x \in ServiceCalls
      BY <1>5 DEF ServiceCalls
    <2> HIDE DEF x
    <2>2. \A s \in Seq(ServiceCalls) :
            /\ Append(s, x) \in Seq(ServiceCalls) /\ Append(s, x) # <<>> /\ Len(Append(s, x)) = Len(s) + 1
            /\ Append(s, x)[Len(s) + 1] = x
            /\ \A i \in 1..Len(s) : Append(s, x)[i] = s[i]
      BY <2>1
    <2>3. more = Append(calls, x)
      BY DEF x
    <2>4. calls \in Seq(ServiceCalls)
      BY <1>1
    <2> HIDE DEF more
    <2>5. /\ more \in Seq(ServiceCalls) /\ more # <<>> /\ Len(more) = Len(calls) + 1
          /\ more[Len(calls) + 1] = x
          /\ \A i \in 1..Len(calls) : more[i] = calls[i]
      BY <2>2, <2>3, <2>4, Zenon
    <2>6. more[Len(more)] = x
      BY <2>5
    <2>7. QED BY <2>5, <2>6 DEF x
  <1>7. /\ rest \in Seq(SaveCalls) /\ Len(rest) = Len(toSend) - 1
        /\ rest # <<>> => rest[Len(rest)] = toSend[Len(toSend)]
    BY <1>1, <1>5
  <1> HIDE DEF rest, more
  <1>8. ASSUME rest = <<>>, NEW i \in DOMAIN more, more[i].kind = "save"
        PROVE  more[i].turn = sequence[w]
    <2>1. Len(toSend) = 1
      BY <1>5, <1>7, <1>8
    <2>2. Head(toSend).turn = sequence[w]
      BY <1>4, <1>5, <2>1
    <2>3. i \in 1..Len(calls) \/ i = Len(more)
      BY <1>1, <1>6, <1>8
    <2>4. CASE i \in 1..Len(calls)
      BY <1>1, <1>6, <1>8, <2>4
    <2>5. QED BY <1>6, <2>2, <2>3, <2>4
  <1>9. NewestIsLast(w)'
    BY <1>2, <1>3, <1>4, <1>7, <1>8 DEF NewestIsLast
  <1>10. ShownAt(w)'
    BY <1>2, <1>6 DEF ShownAt, AllAnswered
  <1>11. SettingsTypeOK'
    BY <1>1, <1>6, <1>7 DEF SavingInv, SettingsTypeOK
  <1>12. ASSUME NEW v \in SettingsWindows, v # w
         PROVE  NewestIsLast(v)' /\ ShownAt(v)'
    BY <1>1, <1>12, OthersKeep DEF SavingInv, SettingsTypeOK
  <1>13. QED BY <1>9, <1>10, <1>11, <1>12 DEF SavingInv

\* The calls of a window that are left when the first is answered, and a call behind them.
LEMMA TailKeeps ==
    ASSUME NEW w \in SettingsWindows, NEW calls \in Seq(ServiceCalls), calls # <<>>,
           calls = serviceCalls[w], NewestIsLast(w),
           unsent'[w] = unsent[w], sequence'[w] = sequence[w],
           NEW left, serviceCalls'[w] = left,
           \/ left = Tail(calls)
           \/ left = Append(Tail(calls), [kind |-> "restore"])
    PROVE  left \in Seq(ServiceCalls) /\ NewestIsLast(w)'
  <1> DEFINE rest == Tail(calls)
  <1>1. /\ rest \in Seq(ServiceCalls) /\ Len(rest) = Len(calls) - 1
        /\ \A i \in 1..Len(rest) : rest[i] = calls[i + 1] /\ i + 1 \in DOMAIN calls
    OBVIOUS
  <1>2. [kind |-> "restore"] \in ServiceCalls
    BY DEF ServiceCalls
  <1> HIDE DEF rest
  <1>3. unsent[w] = <<>> =>
            \A i \in DOMAIN calls : calls[i].kind = "save" => calls[i].turn = sequence[w]
    BY DEF NewestIsLast
  <1>4. /\ left \in Seq(ServiceCalls)
        /\ unsent[w] = <<>> =>
             \A i \in DOMAIN left : left[i].kind = "save" => left[i].turn = sequence[w]
    <2>1. CASE left = rest
      BY <1>1, <1>3, <2>1
    <2>2. CASE left = Append(rest, [kind |-> "restore"])
      <3>1. /\ left \in Seq(ServiceCalls) /\ Len(left) = Len(rest) + 1
            /\ \A i \in 1..Len(rest) : left[i] = rest[i]
            /\ left[Len(rest) + 1].kind = "restore"
        BY <1>1, <1>2, <2>2
      <3>2. ASSUME unsent[w] = <<>>, NEW i \in DOMAIN left, left[i].kind = "save"
            PROVE  left[i].turn = sequence[w]
        <4>1. i \in 1..Len(rest)
          BY <1>1, <3>1, <3>2
        <4>2. QED BY <1>1, <1>3, <3>1, <3>2, <4>1
      <3>3. QED BY <3>1, <3>2
    <2>3. QED BY <2>1, <2>2 DEF rest
  <1>5. QED BY <1>4 DEF NewestIsLast

\* An answer: that of the newest save leaves what is shown as it is stored, or asks
\* for it; while another save is answered, the newest still waits.
LEMMA AnswerKeeps ==
    ASSUME SavingInv, NEW w \in SettingsWindows, SettingsService(w)
    PROVE  SavingInv'
  <1> DEFINE calls == serviceCalls[w]
             call == Head(calls)
             left == serviceCalls'[w]
  <1>1. /\ calls \in Seq(ServiceCalls) /\ calls # <<>> /\ NewestIsLast(w)
        /\ UNCHANGED <<unsent, sequence, slow, settingChanges, reloads>>
        /\ unsent'[w] = unsent[w] /\ sequence'[w] = sequence[w]
    BY DEF SavingInv, SettingsTypeOK, SettingsService, PagesSide
  <1>2. IF call.kind = "save" THEN SaveStored(w, call) \/ SaveFails(w, call) ELSE GetAnswered(w)
    BY DEF SettingsService
  <1>3. call \in ServiceCalls /\ 1 \in DOMAIN calls /\ call = calls[1]
    BY <1>1
  <1>4. call.kind = "save" /\ unsent[w] = <<>> => call.turn = sequence[w]
    BY <1>1, <1>3 DEF NewestIsLast
  <1>5. call.kind = "save" => call.value \in AnySettings
    BY <1>3 DEF ServiceCalls, SaveCalls
  <1> HIDE DEF call
  <1>6. /\ \/ serviceCalls' = [serviceCalls EXCEPT ![w] = Tail(calls)]
           \/ serviceCalls' = [serviceCalls EXCEPT ![w] = Append(Tail(calls), [kind |-> "restore"])]
    BY <1>2 DEF SaveStored, SaveFails, Restored, CallOver, GetAnswered
  <1>7. left = Tail(calls) \/ left = Append(Tail(calls), [kind |-> "restore"])
    BY <1>6 DEF SavingInv, SettingsTypeOK
  <1>8. left \in Seq(ServiceCalls) /\ NewestIsLast(w)'
    BY <1>1, <1>7, TailKeeps
  <1>9. stored' \in AnySettings /\ settings' \in [SettingsWindows -> AnySettings]
    BY <1>2, <1>5 DEF SaveStored, SaveFails, Restored, GetAnswered, SavingInv, SettingsTypeOK
  <1>10. ShownAt(w)'
    <2>1. CASE call.kind # "save"
      BY <1>2, <1>9, <2>1 DEF GetAnswered, ShownAt, SavingInv, SettingsTypeOK
    <2>2. CASE call.kind = "save" /\ call.turn # sequence[w]
      BY <1>1, <1>4, <2>2 DEF ShownAt, AllAnswered
    <2>3. CASE call.kind = "save" /\ call.turn = sequence[w] /\ SaveStored(w, call)
      BY <2>3 DEF SaveStored, ShownAt, SavingInv, SettingsTypeOK
    <2>4. CASE call.kind = "save" /\ call.turn = sequence[w] /\ SaveFails(w, call)
      <3>1. left = Append(Tail(calls), [kind |-> "restore"])
        BY <2>4 DEF SaveFails, Restored, SavingInv, SettingsTypeOK
      <3>2. Tail(calls) \in Seq(ServiceCalls)
        BY <1>1
      <3>3. left # <<>>
        BY <3>1, <3>2
      <3>4. QED BY <3>3 DEF ShownAt, AllAnswered
    <2>5. QED BY <1>2, <2>1, <2>2, <2>3, <2>4
  <1>11. ASSUME NEW v \in SettingsWindows, v # w
         PROVE  NewestIsLast(v)' /\ ShownAt(v)'
    <2>1. serviceCalls'[v] = serviceCalls[v]
      BY <1>6, <1>11 DEF SavingInv, SettingsTypeOK
    <2>2. settings'[v] = settings[v]
      BY <1>2, <1>11 DEF SaveStored, SaveFails, Restored, GetAnswered, SavingInv, SettingsTypeOK
    <2>3. v \in outdated' \/ (stored' = stored /\ (v \in outdated' <=> v \in outdated))
      BY <1>2, <1>11 DEF SaveStored, SaveFails, GetAnswered
    <2>4. QED BY <1>1, <2>1, <2>2, <2>3, OthersKeep
  <1>12. serviceCalls' \in [SettingsWindows -> Seq(ServiceCalls)]
    BY <1>6, <1>7, <1>8 DEF SavingInv, SettingsTypeOK
  <1>13. SettingsTypeOK'
    BY <1>1, <1>9, <1>12 DEF SavingInv, SettingsTypeOK
  <1>14. QED BY <1>8, <1>10, <1>11, <1>13 DEF SavingInv

\* A reload of a window waits for what is stored as the first load does.
LEMMA ReloadKeeps ==
    ASSUME SavingInv, NEW w \in SettingsWindows, Reload(w)
    PROVE  SavingInv'
  <1> DEFINE calls == serviceCalls[w]
             more == Append(calls, Load)
  <1>1. /\ calls \in Seq(ServiceCalls) /\ serviceCalls' = [serviceCalls EXCEPT ![w] = more]
        /\ UNCHANGED <<stored, outdated, settings, sequence, unsent, slow, settingChanges>>
        /\ reloads' \in Nat /\ NewestIsLast(w)
    BY DEF SavingInv, SettingsTypeOK, Reload, StoreSide, PagesSide
  <1>2. Load \in ServiceCalls /\ Load.kind = "load"
    BY DEF Load, ServiceCalls
  <1>3. serviceCalls'[w] = more
    BY <1>1 DEF SavingInv, SettingsTypeOK
  <1>4. unsent[w] = <<>> =>
            \A i \in DOMAIN calls : calls[i].kind = "save" => calls[i].turn = sequence[w]
    BY <1>1 DEF NewestIsLast
  <1> HIDE DEF calls
  <1>5. /\ more \in Seq(ServiceCalls) /\ more # <<>> /\ Len(more) = Len(calls) + 1
        /\ \A i \in 1..Len(calls) : more[i] = calls[i]
        /\ more[Len(calls) + 1].kind = "load"
    BY <1>1, <1>2
  <1> HIDE DEF more
  <1>6. ASSUME unsent[w] = <<>>, NEW i \in DOMAIN more, more[i].kind = "save"
        PROVE  more[i].turn = sequence[w]
    <2>1. i \in 1..Len(calls)
      BY <1>1, <1>5, <1>6
    <2>2. QED BY <1>1, <1>4, <1>5, <1>6, <2>1
  <1>7. NewestIsLast(w)' /\ ShownAt(w)'
    BY <1>1, <1>3, <1>5, <1>6 DEF NewestIsLast, ShownAt, AllAnswered
  <1>8. ASSUME NEW v \in SettingsWindows, v # w
        PROVE  NewestIsLast(v)' /\ ShownAt(v)'
    BY <1>1, <1>8, OthersKeep DEF SavingInv, SettingsTypeOK
  <1>9. SettingsTypeOK'
    BY <1>1, <1>5 DEF SavingInv, SettingsTypeOK
  <1>10. QED BY <1>7, <1>8, <1>9 DEF SavingInv

\* A change of the pages or the keys that saves settings at once.
LEMMA UserKeeps ==
    ASSUME SavingInv, NEW w \in SettingsWindows, NEW next \in AnySettings, UserSets(w, next)
    PROVE  SavingInv'
  <1>1. /\ Save(w, next) /\ UNCHANGED <<StoreSide, serviceCalls, slow, reloads>>
        /\ settingChanges' \in Nat
    BY DEF UserSets, SavingInv, SettingsTypeOK, StoreSide
  <1>2. QED BY <1>1, SaveWaits DEF SavingInv, SettingsTypeOK

\* The end of a slow change: the settings of its render, changed, are saved.
LEMMA SlowKeeps ==
    ASSUME SavingInv, PictureReady \/ PasswordSet \/ PasswordCleared
    PROVE  SavingInv'
  <1>1. /\ slow \in SlowChanges /\ PagesWindow \in SettingsWindows
        /\ settingChanges \in Nat /\ reloads \in Nat /\ SettingsTypeOK
    BY SettingsSavingAssumption DEF SavingInv, SettingsTypeOK
  <1>2. CASE PictureReady
    <2>1. slow["picture"] \in AnySettings
      BY <1>1, <1>2 DEF PictureReady, SlowChanges
    <2>2. [slow["picture"] EXCEPT !.picture = settingChanges] \in AnySettings
      BY <1>1, <2>1 DEF AnySettings
    <2>3. slow' \in SlowChanges
      BY <1>1, <1>2 DEF PictureReady, SlowChanges
    <2>4. QED BY <1>1, <1>2, <2>2, <2>3, SaveWaits DEF PictureReady
  <1>3. CASE PasswordSet
    <2>1. slow["password"] \in AnySettings
      BY <1>1, <1>3 DEF PasswordSet, SlowChanges
    <2>2. slow' \in SlowChanges
      BY <1>1, <1>3 DEF PasswordSet, SlowChanges
    <2>3. SetProxy(slow["password"], TRUE, slow["password"].user) \in AnySettings
      BY <2>1 DEF SetProxy, AnySettings
    <2>4. CASE slow["password"].auth
      BY <1>3, <2>2, <2>4 DEF PasswordSet, SavingInv, SettingsTypeOK, NewestIsLast,
                              ShownAt, AllAnswered, StoreSide
    <2>5. CASE ~slow["password"].auth
      BY <1>1, <1>3, <2>2, <2>3, <2>5, SaveWaits DEF PasswordSet
    <2>6. QED BY <2>4, <2>5
  <1>4. CASE PasswordCleared
    <2>1. slow["clear"] \in AnySettings
      BY <1>1, <1>4 DEF PasswordCleared, SlowChanges
    <2>2. slow' \in SlowChanges
      BY <1>1, <1>4 DEF PasswordCleared, SlowChanges
    <2>3. SetProxy(slow["clear"], slow["clear"].user # NoUser, slow["clear"].user) \in AnySettings
      BY <2>1 DEF SetProxy, AnySettings
    <2>4. QED BY <1>1, <1>4, <2>2, <2>3, SaveWaits DEF PasswordCleared
  <1>5. QED BY <1>2, <1>3, <1>4

\* Every step of the settings keeps the invariant.
LEMMA SettingsStep == SavingInv /\ [SettingsNext]_settingsVars => SavingInv'
  <1> SUFFICES ASSUME SavingInv, [SettingsNext]_settingsVars PROVE SavingInv'
    OBVIOUS
  <1>1. /\ \A w \in SettingsWindows : settings[w] \in AnySettings
        /\ ValidSizes \subseteq Sizes /\ PagesWindow \in SettingsWindows
        /\ PagesShow \in AnySettings
    BY SettingsSavingAssumption DEF SavingInv, SettingsTypeOK, PagesShow
  <1>2. ASSUME NEW w \in SettingsWindows, SendSave(w) \/ SettingsService(w) \/ Reload(w)
        PROVE  SavingInv'
    BY <1>2, SendKeeps, AnswerKeeps, ReloadKeeps
  <1>3. ASSUME NEW w \in SettingsWindows, StepSize(w)
        PROVE  SavingInv'
    <2>1. PICK size \in Sizes : UserSets(w, [settings[w] EXCEPT !.size = size])
      BY <1>1, <1>3 DEF StepSize
    <2>2. [settings[w] EXCEPT !.size = size] \in AnySettings
      BY <1>1 DEF AnySettings
    <2>3. QED BY <2>1, <2>2, UserKeeps
  <1>4. CASE TypeSize
    <2>1. PICK size \in Sizes : UserSets(PagesWindow, [PagesShow EXCEPT !.size = size])
      BY <1>4 DEF TypeSize
    <2>2. [PagesShow EXCEPT !.size = size] \in AnySettings
      BY <1>1 DEF AnySettings
    <2>3. QED BY <1>1, <2>1, <2>2, UserKeeps
  <1>5. CASE SelectMode
    <2>1. PICK on \in BOOLEAN :
              UserSets(PagesWindow, [PagesShow EXCEPT !.proxy = on, !.auth = on /\ PagesShow.auth])
      BY <1>5 DEF SelectMode
    <2>2. [PagesShow EXCEPT !.proxy = on, !.auth = on /\ PagesShow.auth] \in AnySettings
      BY <1>1 DEF AnySettings
    <2>3. QED BY <1>1, <2>1, <2>2, UserKeeps
  <1>6. CASE CommitUsername
    <2>1. PICK user \in Users :
              UserSets(PagesWindow, SetProxy(PagesShow, user # NoUser \/ passwordSaved, user))
      BY <1>6 DEF CommitUsername
    <2>2. SetProxy(PagesShow, user # NoUser \/ passwordSaved, user) \in AnySettings
      BY <1>1 DEF SetProxy, AnySettings
    <2>3. QED BY <1>1, <2>1, <2>2, UserKeeps
  <1>7. CASE PictureReady \/ PasswordSet \/ PasswordCleared
    BY <1>7, SlowKeeps
  <1>8. CASE \E c \in DOMAIN slow : BeginSlow(c) \/ SlowFails(c)
    <2>1. PICK c \in DOMAIN slow : BeginSlow(c) \/ SlowFails(c)
      BY <1>8
    <2>2. /\ UNCHANGED <<stored, outdated, settings, sequence, unsent, serviceCalls, reloads>>
          /\ settingChanges' \in Nat
      BY <2>1 DEF BeginSlow, SlowFails, SavingInv, SettingsTypeOK, StoreSide, WindowSide
    <2>3. slow' \in SlowChanges
      BY <1>1, <2>1 DEF BeginSlow, SlowFails, SavingInv, SettingsTypeOK, SlowChanges
    <2>4. QED BY <2>2, <2>3
             DEF SavingInv, SettingsTypeOK, NewestIsLast, ShownAt, AllAnswered
  <1>9. CASE UNCHANGED settingsVars
    BY <1>9 DEF settingsVars, SavingInv, SettingsTypeOK, NewestIsLast, ShownAt, AllAnswered
  <1>10. QED BY <1>2, <1>3, <1>4, <1>5, <1>6, <1>7, <1>8, <1>9 DEF SettingsNext

\* For any number of windows: when every call of a window is answered, it shows what is
\* stored, although saves are refused, loads come between them and slow changes save an old
\* render, unless another window has stored something since its last answer
\* (usePortivaWorkspace.saveSettings, App.updateApplicationFontSize).
THEOREM ShownIsStored == SettingsSpec => []ShownAsStored
  <1>1. SettingsInit => SavingInv
    <2> SUFFICES ASSUME SettingsInit PROVE SavingInv
      OBVIOUS
    <2>1. SettingsTypeOK
      BY FirstSettings
    <2>2. ASSUME NEW w \in SettingsWindows
          PROVE  serviceCalls[w] = <<Load>> /\ unsent[w] = <<>> /\ Load.kind = "load"
      BY DEF SettingsInit, Load
    <2>3. ASSUME NEW w \in SettingsWindows
          PROVE  NewestIsLast(w) /\ ShownAt(w)
      BY <2>2 DEF NewestIsLast, ShownAt, AllAnswered
    <2>4. QED BY <2>1, <2>3 DEF SavingInv
  <1>2. SavingInv /\ [SettingsNext]_settingsVars => SavingInv'
    BY SettingsStep
  <1>3. SavingInv => ShownAsStored
    BY DEF SavingInv, ShownAt, ShownAsStored
  <1>4. QED BY <1>1, <1>2, <1>3, PTL DEF SettingsSpec
-----------------------------------------------------------------------------
(* The update of the app (AppUpdate).                                      *)

News == [kind : {"started", "progress", "finished"}, attempt : Nat, length : Nat]
DownloadRecords == [at : {"none", "asked", "loads"}, attempt : Nat, parts : Nat]

\* The events m to n of a sequence are all of parts that came.
AllParts(events, m, n) == \A i \in m..n : events[i].kind = "progress"

UpdateTypeOK ==
    /\ news \in Seq(News) /\ download \in DownloadRecords /\ downloaded \in Nat
    /\ download.parts <= UpdateSize

\* No run of parts is longer than an update; the run at the head goes on counting
\* from what is shown.
RunsAreShort ==
    /\ \A m, n \in DOMAIN news : m <= n /\ AllParts(news, m, n) => n + 1 - m <= UpdateSize
    /\ \A n \in 0..Len(news) : AllParts(news, 1, n) => downloaded + n <= UpdateSize

\* The run at the end is of the attempt that loads, and has at most its parts.
LastRunIsOfAttempt ==
    download.at = "loads" =>
        /\ \A m \in DOMAIN news : AllParts(news, m, Len(news)) => Len(news) + 1 - m <= download.parts
        /\ AllParts(news, 1, Len(news)) => downloaded + Len(news) <= download.parts
        /\ news # <<>> => news[Len(news)].kind # "finished"

\* After the end of one download comes the start of the next.
EndThenStart ==
    \A i \in 1..(Len(news) - 1) : news[i].kind = "finished" => news[i + 1].kind = "started"

UpdateInv == UpdateTypeOK /\ RunsAreShort /\ LastRunIsOfAttempt /\ EndThenStart

\* At the start no attempt is under way.
LEMMA UpdateStarts == UpdateInit => UpdateInv
  <1> SUFFICES ASSUME UpdateInit PROVE UpdateInv
    OBVIOUS
  <1>1. /\ news = <<>> /\ downloaded = 0 /\ download = [at |-> "none", attempt |-> 0, parts |-> 0]
        /\ UpdateSize \in Nat
    BY AppUpdateAssumption DEF UpdateInit, NoDownload
  <1>2. UpdateTypeOK
    BY <1>1 DEF UpdateTypeOK, DownloadRecords
  <1>3. RunsAreShort /\ LastRunIsOfAttempt /\ EndThenStart
    BY <1>1 DEF RunsAreShort, LastRunIsOfAttempt, EndThenStart, AllParts
  <1>4. QED BY <1>2, <1>3 DEF UpdateInv

-----------------------------------------------------------------------------
\* An event is added at the end: a part when the attempt has one more, a start, or
\* the end of a download that loads no longer.
LEMMA TellKeeps ==
    ASSUME UpdateInv, NEW e \in News, news' = Append(news, e), downloaded' = downloaded,
           download' \in DownloadRecords, download'.parts <= UpdateSize,
           \/ /\ e.kind = "progress" /\ download.at = "loads" /\ download'.at = "loads"
              /\ download'.parts = download.parts + 1
           \/ e.kind = "started"
           \/ e.kind = "finished" /\ download'.at # "loads",
           news # <<>> /\ news[Len(news)].kind = "finished" => e.kind = "started"
    PROVE  UpdateInv'
  <1> DEFINE k == Len(news)
  <1>1. /\ news \in Seq(News) /\ download \in DownloadRecords /\ downloaded \in Nat /\ k \in Nat
        /\ download.parts \in Nat /\ download'.parts \in Nat /\ UpdateSize \in Nat
    BY AppUpdateAssumption DEF UpdateInv, UpdateTypeOK, DownloadRecords
  <1>2. /\ news' \in Seq(News) /\ Len(news') = k + 1 /\ news'[k + 1] = e
        /\ \A i \in 1..k : news'[i] = news[i]
    BY <1>1
  <1> HIDE DEF k
  <1>3. \A m, n \in 1..k : AllParts(news', m, n) => AllParts(news, m, n)
    BY <1>1, <1>2 DEF AllParts
  <1>4. ASSUME NEW m \in 1..(k + 1), AllParts(news', m, k + 1)
        PROVE  e.kind = "progress" /\ (m \in 1..k => AllParts(news, m, k))
    BY <1>1, <1>2, <1>4 DEF AllParts
  <1>5. ASSUME NEW m \in 1..(k + 1), AllParts(news', m, k + 1)
        PROVE  /\ k + 2 - m <= download'.parts /\ download'.at = "loads"
    <2>1. e.kind = "progress"
      BY <1>4, <1>5
    <2>2. /\ download.at = "loads" /\ download'.at = "loads"
          /\ download'.parts = download.parts + 1
      BY <2>1
    <2>3. CASE m = k + 1
      BY <1>1, <2>2, <2>3
    <2>4. CASE m \in 1..k
      <3>1. k + 1 - m <= download.parts
        BY <1>1, <1>4, <1>5, <2>2, <2>4 DEF UpdateInv, LastRunIsOfAttempt, k
      <3>2. QED BY <1>1, <2>2, <2>4, <3>1
    <2>5. QED BY <1>1, <2>3, <2>4
  <1>6. ASSUME AllParts(news', 1, k + 1)
        PROVE  downloaded + k + 1 <= download'.parts
    <2>1. e.kind = "progress" /\ (k # 0 => AllParts(news, 1, k))
      BY <1>1, <1>4, <1>6
    <2>2. /\ download.at = "loads" /\ download'.parts = download.parts + 1
      BY <2>1
    <2>3. AllParts(news, 1, k)
      BY <1>1, <2>1 DEF AllParts
    <2>4. downloaded + k <= download.parts
      BY <2>2, <2>3 DEF UpdateInv, LastRunIsOfAttempt, k
    <2>5. QED BY <1>1, <2>2, <2>4
  <1>7. UpdateTypeOK'
    BY <1>1, <1>2 DEF UpdateTypeOK
  <1>8. RunsAreShort'
    <2>1. ASSUME NEW m \in 1..(k + 1), NEW n \in 1..(k + 1), m <= n, AllParts(news', m, n)
          PROVE  n + 1 - m <= UpdateSize
      <3>1. CASE n = k + 1
        BY <1>1, <1>5, <2>1, <3>1
      <3>2. CASE n # k + 1
        <4>1. m \in 1..k /\ n \in 1..k
          BY <1>1, <2>1, <3>2
        <4>2. QED BY <1>1, <1>3, <2>1, <4>1 DEF UpdateInv, RunsAreShort, k
      <3>3. QED BY <3>1, <3>2
    <2>2. ASSUME NEW n \in 0..(k + 1), AllParts(news', 1, n)
          PROVE  downloaded + n <= UpdateSize
      <3>1. CASE n = k + 1
        BY <1>1, <1>6, <2>2, <3>1
      <3>2. CASE n # k + 1
        <4>1. n \in 0..k
          BY <1>1, <3>2
        <4>2. AllParts(news, 1, n)
          BY <1>1, <1>2, <2>2, <4>1 DEF AllParts
        <4>3. QED BY <4>1, <4>2 DEF UpdateInv, RunsAreShort, k
      <3>3. QED BY <3>1, <3>2
    <2>3. QED BY <1>2, <2>1, <2>2 DEF RunsAreShort
  <1>9. LastRunIsOfAttempt'
    <2> SUFFICES ASSUME download'.at = "loads" PROVE LastRunIsOfAttempt'
      BY DEF LastRunIsOfAttempt
    <2>1. e.kind # "finished"
      OBVIOUS
    <2>2. \A m \in DOMAIN news' : AllParts(news', m, k + 1) => k + 2 - m <= download'.parts
      BY <1>2, <1>5
    <2>3. QED BY <1>1, <1>2, <1>6, <2>1, <2>2 DEF LastRunIsOfAttempt
  <1>10. EndThenStart'
    <2>1. ASSUME NEW i \in 1..k, news'[i].kind = "finished"
          PROVE  news'[i + 1].kind = "started"
      <3>1. CASE i = k
        BY <1>1, <1>2, <2>1, <3>1 DEF k
      <3>2. CASE i # k
        <4>1. i \in 1..(k - 1) /\ i + 1 \in 1..k
          BY <1>1, <3>2
        <4>2. QED BY <1>2, <2>1, <4>1 DEF UpdateInv, EndThenStart, k
      <3>3. QED BY <3>1, <3>2
    <2>2. QED BY <1>1, <1>2, <2>1 DEF EndThenStart
  <1>11. QED BY <1>7, <1>8, <1>9, <1>10 DEF UpdateInv

\* The first event is heard: a start counts from zero, a part goes on counting.
LEMMA NewsKeeps == UpdateInv /\ NewsComes => UpdateInv'
  <1> SUFFICES ASSUME UpdateInv, NewsComes PROVE UpdateInv'
    OBVIOUS
  <1> DEFINE k == Len(news)
  <1>1. /\ news \in Seq(News) /\ news # <<>> /\ news' = Tail(news) /\ download' = download
        /\ download \in DownloadRecords /\ downloaded \in Nat /\ UpdateSize \in Nat
        /\ download.parts \in Nat /\ download.parts <= UpdateSize
    BY AppUpdateAssumption DEF NewsComes, UpdateInv, UpdateTypeOK, DownloadRecords
  <1>2. /\ k \in Nat \ {0} /\ news' \in Seq(News) /\ Len(news') = k - 1
        /\ \A i \in 1..(k - 1) : news'[i] = news[i + 1]
        /\ Head(news) = news[1]
    BY <1>1
  <1>3. \/ news[1].kind = "started" /\ downloaded' = 0
        \/ news[1].kind = "progress" /\ downloaded' = downloaded + 1
        \/ news[1].kind = "finished" /\ downloaded' = downloaded
    BY <1>1, <1>2 DEF NewsComes, CountFromZero
  <1> HIDE DEF k
  <1>4. \A m \in 1..k, n \in 0..(k - 1) : AllParts(news', m, n) => AllParts(news, m + 1, n + 1)
    <2> SUFFICES ASSUME NEW m \in 1..k, NEW n \in 0..(k - 1), AllParts(news', m, n),
                        NEW i \in (m + 1)..(n + 1)
                 PROVE  news[i].kind = "progress"
      BY DEF AllParts
    <2>1. i - 1 \in m..n /\ i - 1 \in 1..(k - 1) /\ i = (i - 1) + 1
      BY <1>2
    <2>2. news'[i - 1].kind = "progress"
      BY <2>1 DEF AllParts
    <2>3. QED BY <1>2, <2>1, <2>2
  <1>5. RunsAreShort /\ LastRunIsOfAttempt /\ EndThenStart
    BY DEF UpdateInv
  <1>5a. \A m, n \in 1..k : m <= n /\ AllParts(news, m, n) => n + 1 - m <= UpdateSize
    <2> SUFFICES ASSUME NEW m \in 1..k, NEW n \in 1..k, m <= n, AllParts(news, m, n)
                 PROVE  n + 1 - m <= UpdateSize
      OBVIOUS
    <2>1. m \in DOMAIN news /\ n \in DOMAIN news
      BY <1>1 DEF k
    <2>2. QED BY <1>5, <2>1 DEF RunsAreShort
  <1>6. UpdateTypeOK'
    BY <1>1, <1>2, <1>3 DEF UpdateTypeOK
  \* The run that is now at the head, up to n.
  <1>7. ASSUME NEW n \in 0..(k - 1), AllParts(news', 1, n)
        PROVE  /\ downloaded' + n <= UpdateSize
               /\ n = k - 1 /\ download.at = "loads" => downloaded' + n <= download.parts
    <2>1. AllParts(news, 2, n + 1)
      BY <1>2, <1>4, <1>7
    <2>2. CASE news[1].kind = "started"
      <3>1. downloaded' = 0
        BY <1>3, <2>2
      <3>2. CASE n = 0
        BY <1>1, <3>1, <3>2
      <3>3. CASE n # 0
        <4>1. 2 \in 1..k /\ n + 1 \in 1..k /\ 2 <= n + 1
          BY <1>2, <3>3
        <4>2. (n + 1) + 1 - 2 <= UpdateSize
          BY <1>5a, <2>1, <4>1
        <4>3. n = k - 1 /\ download.at = "loads" => k + 1 - 2 <= download.parts
          BY <1>1, <1>2, <1>5, <2>1, <4>1 DEF LastRunIsOfAttempt, k
        <4>4. QED BY <1>1, <1>2, <3>1, <4>2, <4>3
      <3>4. QED BY <3>2, <3>3
    <2>3. CASE news[1].kind = "progress"
      <3>1. AllParts(news, 1, n + 1)
        BY <2>1, <2>3 DEF AllParts
      <3>2. downloaded + (n + 1) <= UpdateSize
        BY <1>2, <1>5, <3>1 DEF RunsAreShort, k
      <3>3. n = k - 1 /\ download.at = "loads" => downloaded + k <= download.parts
        BY <1>2, <1>5, <3>1 DEF LastRunIsOfAttempt, k
      <3>4. downloaded' = downloaded + 1
        BY <1>3, <2>3
      <3>5. QED BY <1>1, <1>2, <3>2, <3>3, <3>4
    <2>4. CASE news[1].kind = "finished"
      <3>1. downloaded' = downloaded
        BY <1>3, <2>4
      <3>2. n = 0
        <4>1. SUFFICES ASSUME n # 0 PROVE FALSE
          OBVIOUS
        <4>2. news[2].kind = "progress" /\ 1 \in 1..(k - 1)
          BY <1>2, <2>1, <4>1 DEF AllParts
        <4>3. news[1 + 1].kind = "started"
          BY <1>5, <2>4, <4>2 DEF EndThenStart, k
        <4>4. QED BY <4>2, <4>3
      <3>3. downloaded + 0 <= UpdateSize
        BY <1>2, <1>5 DEF RunsAreShort, AllParts, k
      <3>4. n = k - 1 => download.at # "loads"
        BY <1>1, <1>2, <1>5, <2>4, <3>2 DEF LastRunIsOfAttempt, k
      <3>5. QED BY <1>1, <3>1, <3>2, <3>3, <3>4
    <2>5. QED BY <1>3, <2>2, <2>3, <2>4
  <1>8. RunsAreShort'
    <2>1. ASSUME NEW m \in 1..(k - 1), NEW n \in 1..(k - 1), m <= n, AllParts(news', m, n)
          PROVE  n + 1 - m <= UpdateSize
      <3>1. AllParts(news, m + 1, n + 1) /\ m + 1 \in 1..k /\ n + 1 \in 1..k
        BY <1>2, <1>4, <2>1
      <3>2. (n + 1) + 1 - (m + 1) <= UpdateSize
        BY <1>2, <1>5a, <2>1, <3>1
      <3>3. QED BY <1>1, <3>2
    <2>2. QED BY <1>2, <1>7, <2>1 DEF RunsAreShort
  <1>9. LastRunIsOfAttempt'
    <2> SUFFICES ASSUME download.at = "loads" PROVE LastRunIsOfAttempt'
      BY <1>1 DEF LastRunIsOfAttempt
    <2>1. ASSUME NEW m \in 1..(k - 1), AllParts(news', m, k - 1)
          PROVE  (k - 1) + 1 - m <= download.parts
      <3>1. AllParts(news, m + 1, k) /\ m + 1 \in 1..k
        BY <1>2, <1>4, <2>1
      <3>2. k + 1 - (m + 1) <= download.parts
        BY <1>1, <1>5, <3>1 DEF LastRunIsOfAttempt, k
      <3>3. QED BY <1>1, <1>2, <3>2
    <2>2. news' # <<>> => news'[k - 1].kind # "finished"
      <3>1. news' # <<>> => k - 1 \in 1..(k - 1)
        BY <1>2
      <3>2. QED BY <1>1, <1>2, <1>5, <3>1 DEF LastRunIsOfAttempt, k
    <2>3. AllParts(news', 1, k - 1) => downloaded' + (k - 1) <= download.parts
      BY <1>2, <1>7
    <2>4. QED BY <1>1, <1>2, <2>1, <2>2, <2>3 DEF LastRunIsOfAttempt
  <1>10. EndThenStart'
    <2>1. ASSUME NEW i \in 1..((k - 1) - 1), news'[i].kind = "finished"
          PROVE  news'[i + 1].kind = "started"
      <3>1. i + 1 \in 1..(k - 1) /\ i \in 1..(k - 1)
        BY <1>2
      <3>2. QED BY <1>2, <1>5, <2>1, <3>1 DEF EndThenStart, k
    <2>2. QED BY <1>2, <2>1 DEF EndThenStart
  <1>11. QED BY <1>6, <1>8, <1>9, <1>10 DEF UpdateInv

\* A smaller count leaves as much room for what is still to come.
LEMMA NoLargerSum ==
    ASSUME NEW a \in Nat, NEW b \in Nat, NEW n \in Nat, NEW c \in Nat, a <= b, b + n <= c
    PROVE  a + n <= c
  OBVIOUS

\* Nothing is said, what is shown stays or begins anew, and no download begins to load.
LEMMA QuietKeeps ==
    ASSUME UpdateInv, downloaded' \in {0, downloaded}, news' \in {<<>>, news},
           news' = <<>> => downloaded' = 0 \/ news' = news,
           download' = download \/ (download' \in DownloadRecords /\ download'.at # "loads"
                                    /\ download'.parts <= UpdateSize)
    PROVE  UpdateInv'
  <1>1. UpdateSize \in Nat
    BY AppUpdateAssumption
  <1>2. /\ news \in Seq(News) /\ download \in DownloadRecords /\ downloaded \in Nat
        /\ Len(news) \in Nat /\ UpdateSize \in Nat /\ downloaded' \in Nat
        /\ downloaded' <= downloaded /\ download.parts \in Nat
    BY AppUpdateAssumption DEF UpdateInv, UpdateTypeOK, DownloadRecords
  <1>3. CASE news' = news
    <2>1. UpdateTypeOK' /\ EndThenStart'
      BY <1>2, <1>3 DEF UpdateInv, UpdateTypeOK, EndThenStart
    <2>2. \A m, n \in Nat : AllParts(news', m, n) <=> AllParts(news, m, n)
      BY <1>3 DEF AllParts
    <2>3. RunsAreShort'
      <3>1. \A n \in 0..Len(news) : AllParts(news, 1, n) => downloaded' + n <= UpdateSize
        <4> SUFFICES ASSUME NEW n \in 0..Len(news), AllParts(news, 1, n)
                     PROVE  downloaded' + n <= UpdateSize
          OBVIOUS
        <4>1. downloaded + n <= UpdateSize
          BY DEF UpdateInv, RunsAreShort
        <4>2. n \in Nat /\ downloaded \in Nat /\ downloaded' \in Nat /\ downloaded' <= downloaded
          BY <1>2
        <4>3. QED BY <1>1, <4>1, <4>2, NoLargerSum
      <3>2. QED BY <1>2, <1>3, <2>2, <3>1 DEF UpdateInv, RunsAreShort
    <2>4. LastRunIsOfAttempt'
      <3> SUFFICES ASSUME download'.at = "loads" PROVE LastRunIsOfAttempt'
        BY DEF LastRunIsOfAttempt
      <3>1. download' = download
        OBVIOUS
      <3>2. AllParts(news, 1, Len(news)) => downloaded' + Len(news) <= download.parts
        BY <1>2, <3>1 DEF UpdateInv, LastRunIsOfAttempt
      <3>3. QED BY <1>2, <1>3, <2>2, <3>1, <3>2 DEF UpdateInv, LastRunIsOfAttempt
    <2>5. QED BY <2>1, <2>3, <2>4 DEF UpdateInv
  <1>4. CASE news' = <<>> /\ news' # news
    <2>1. downloaded' = 0 /\ UpdateTypeOK'
      BY <1>2, <1>4 DEF UpdateInv, UpdateTypeOK
    <2>2. RunsAreShort' /\ LastRunIsOfAttempt' /\ EndThenStart'
      BY <1>2, <1>4, <2>1 DEF RunsAreShort, LastRunIsOfAttempt, EndThenStart
    <2>3. QED BY <2>1, <2>2 DEF UpdateInv
  <1>5. QED BY <1>3, <1>4

-----------------------------------------------------------------------------
\* The steps of the download.
LEMMA ServiceKeeps == UpdateInv /\ UpdateService => UpdateInv'
  <1> SUFFICES ASSUME UpdateInv, UpdateService PROVE UpdateInv'
    OBVIOUS
  <1>1. /\ download \in DownloadRecords /\ download.attempt \in Nat /\ download.parts \in Nat
        /\ UpdateSize \in Nat /\ download.parts <= UpdateSize /\ downloaded' = downloaded
        /\ NoDownload \in DownloadRecords /\ NoDownload.at = "none" /\ NoDownload.parts = 0
    BY AppUpdateAssumption
       DEF UpdateInv, UpdateTypeOK, DownloadRecords, NoDownload, UpdateService, BeginDownload,
           DownloadPart, DownloadFails, Install, shownVars
  <1>2. download.at = "loads" /\ news # <<>> => news[Len(news)].kind # "finished"
    BY DEF UpdateInv, LastRunIsOfAttempt
  <1>3. ASSUME download' = NoDownload, news' = news PROVE UpdateInv'
    BY <1>1, <1>3, QuietKeeps
  <1>4. CASE BeginDownload
    <2>1. CASE waiting
      <3> DEFINE e == [kind |-> "started", attempt |-> 1, length |-> 0]
      <3>1. /\ news' = Append(news, e) /\ download' = [download EXCEPT !.at = "loads"]
        BY <1>4, <2>1 DEF BeginDownload, TellNews
      <3>2. e \in News /\ e.kind = "started"
        BY DEF News
      <3>3. download' \in DownloadRecords /\ download'.parts = download.parts
        BY <1>1, <3>1 DEF DownloadRecords
      <3> HIDE DEF e
      <3>4. QED BY <1>1, <3>1, <3>2, <3>3, TellKeeps
    <2>2. CASE ~waiting
      BY <1>3, <1>4, <2>2 DEF BeginDownload, DownloadEnds
    <2>3. QED BY <2>1, <2>2
  <1>5. CASE DownloadPart
    <2>1. PICK length \in {0, UpdateSize} : TellNews("progress", download.attempt, length)
      BY <1>5 DEF DownloadPart
    <2> DEFINE e == [kind |-> "progress", attempt |-> download.attempt, length |-> length]
    <2>2. /\ news' = Append(news, e) /\ download.at = "loads" /\ download.parts < UpdateSize
          /\ download' = [download EXCEPT !.parts = @ + 1]
      BY <1>5, <2>1 DEF DownloadPart, TellNews
    <2>3. e \in News /\ e.kind = "progress"
      BY <1>1 DEF News
    <2>4. /\ download' \in DownloadRecords /\ download'.parts = download.parts + 1
          /\ download'.at = "loads" /\ download'.parts <= UpdateSize
      BY <1>1, <2>2 DEF DownloadRecords
    <2> HIDE DEF e
    <2>5. QED BY <1>1, <1>2, <2>2, <2>3, <2>4, TellKeeps
  <1>6. CASE DownloadFails
    <2>1. CASE news' = news
      BY <1>3, <1>6, <2>1 DEF DownloadFails, DownloadEnds, TellNews, UpdateInv, UpdateTypeOK
    <2>2. CASE news' # news
      <3> DEFINE e == [kind |-> "started", attempt |-> download.attempt + 1, length |-> 0]
      <3>1. /\ news' = Append(news, e)
            /\ download' = [download EXCEPT !.attempt = @ + 1, !.parts = 0]
        BY <1>6, <2>2 DEF DownloadFails, TellNews
      <3>2. e \in News /\ e.kind = "started"
        BY <1>1 DEF News
      <3>3. download' \in DownloadRecords /\ download'.parts = 0
        <4>1. download' = [at |-> download.at, attempt |-> download.attempt + 1, parts |-> 0]
          BY <1>1, <3>1 DEF DownloadRecords
        <4>2. download.at \in {"none", "asked", "loads"} /\ download.attempt + 1 \in Nat
          BY <1>1 DEF DownloadRecords
        <4>3. QED BY <4>1, <4>2 DEF DownloadRecords
      <3> HIDE DEF e
      <3>4. QED BY <1>1, <3>1, <3>2, <3>3, TellKeeps
    <2>3. QED BY <2>1, <2>2
  <1>7. CASE Install
    <2> DEFINE e == [kind |-> "finished", attempt |-> download.attempt, length |-> UpdateSize]
    <2>1. news' = Append(news, e) /\ download' = NoDownload /\ download.at = "loads"
      BY <1>7 DEF Install, TellNews, DownloadEnds
    <2>2. e \in News /\ e.kind = "finished"
      BY <1>1 DEF News
    <2> HIDE DEF e
    <2>3. QED BY <1>1, <1>2, <2>1, <2>2, TellKeeps
  <1>8. QED BY <1>4, <1>5, <1>6, <1>7 DEF UpdateService

\* The steps of the page other than the listener.
LEMMA PageKeeps ==
    ASSUME UpdateInv, CheckForUpdates \/ InstallAvailableUpdate \/ UpdateAnswers
    PROVE  UpdateInv'
  <1>1. UpdateSize \in Nat /\ downloaded \in Nat
    BY AppUpdateAssumption DEF UpdateInv, UpdateTypeOK
  <1>2. CASE CheckForUpdates \/ Checked
    BY <1>2, QuietKeeps DEF CheckForUpdates, Checked
  <1>3. CASE InstallAvailableUpdate
    <2>1. download' = [at |-> "asked", attempt |-> 1, parts |-> 0]
      BY <1>3 DEF InstallAvailableUpdate
    <2>2. download' \in DownloadRecords /\ download'.at # "loads" /\ download'.parts <= UpdateSize
      BY <1>1, <2>1 DEF DownloadRecords
    <2>3. QED BY <1>3, <2>2, QuietKeeps DEF InstallAvailableUpdate
  <1>4. CASE UpdateAnswered
    <2>1. NoDownload \in DownloadRecords /\ NoDownload.at # "loads" /\ NoDownload.parts <= UpdateSize
      BY <1>1 DEF NoDownload, DownloadRecords
    <2>2. QED BY <1>4, <2>1, QuietKeeps DEF UpdateAnswered
  <1>5. QED BY <1>2, <1>3, <1>4 DEF UpdateAnswers

\* What is shown never counts more parts than the update has, although the events of
\* an earlier attempt or an earlier click are still on their way (useAppUpdate,
\* updater.rs).
THEOREM ProgressIsOfOneAttempt == UpdateSpec => []CountsOneAttempt
  <1>1. UpdateInit => UpdateInv
    BY UpdateStarts
  <1>2. UpdateInv /\ [UpdateNext]_updateVars => UpdateInv'
    <2> SUFFICES ASSUME UpdateInv, [UpdateNext]_updateVars PROVE UpdateInv'
      OBVIOUS
    <2>1. CASE UNCHANGED updateVars
      BY <2>1, QuietKeeps DEF updateVars, shownVars
    <2>2. QED BY <2>1, NewsKeeps, ServiceKeeps, PageKeeps DEF UpdateNext
  <1>3. UpdateInv => CountsOneAttempt
    <2> SUFFICES ASSUME UpdateInv PROVE CountsOneAttempt
      OBVIOUS
    <2>1. 0 \in 0..Len(news) /\ AllParts(news, 1, 0) /\ downloaded \in Nat
      BY DEF UpdateInv, UpdateTypeOK, AllParts
    <2>2. downloaded + 0 <= UpdateSize
      BY <2>1 DEF UpdateInv, RunsAreShort
    <2>3. QED BY <2>1, <2>2 DEF CountsOneAttempt
  <1>4. QED BY <1>1, <1>2, <1>3, PTL DEF UpdateSpec

-----------------------------------------------------------------------------
(* The remote listing of a window (SftpBrowse).                            *)

FileServers == Servers \cup {Nobody}
FileViews == [server : FileServers, kind : {"terminal", "files"}]
Renders == [tab : FileViews, session : FileServers, path : Paths, bound : FileServers]
FileKinds == {"none", "refresh", "visible", "open-tab", "mkdir", "rename", "remove", "upload"}
FileSteps == {"idle", "open-list", "open-act", "list", "act", "reconnect"}
FileHandlers ==
    [kind : FileKinds, step : FileSteps, here : Renders, target : Paths, on : FileServers]

BrowseTypes ==
    /\ fileTabs \subseteq Servers /\ bound \in [Servers -> FileServers]
    /\ shownTab \in FileViews /\ session \in FileServers /\ remotePath \in Paths
    /\ fileCalls \in [Slots -> FileHandlers]

\* A handler for an SFTP tab, or that opens one, is for a server.
HasServer(c) ==
    c.here.tab.kind = "files" \/ c.kind = "open-tab" \/ c.step = "reconnect"
      => c.here.tab.server \in Servers

\* What a handler kept of its SFTP tab, and what it asks, is of its own server.
OfOwnServer(c) == {c.here.bound, c.on} \subseteq {Nobody, c.here.tab.server}

BrowseInv ==
    /\ BrowseTypes
    /\ shownTab.kind = "files" => shownTab.server \in Servers
    /\ \A s \in Servers : bound[s] \in {Nobody, s}
    /\ \A i \in Slots : HasServer(fileCalls[i]) /\ OfOwnServer(fileCalls[i])

\* A handler that waits anew takes the session of its own tab.
LEMMA SessionIsOwn ==
    ASSUME NEW c \in FileHandlers, HasServer(c), OfOwnServer(c), NEW next \in {"list", "act"},
           c.step # "reconnect"
    PROVE  /\ WithSession(c, next) \in FileHandlers
           /\ HasServer(WithSession(c, next)) /\ OfOwnServer(WithSession(c, next))
<1>1. Ensured(c.here) \in {Nobody, c.here.tab.server}
  BY DEF Ensured, OfOwnServer
<1>2. Ensured(c.here) \in FileServers
  BY <1>1 DEF FileHandlers, Renders, FileViews, FileServers
<1>3. PICK st \in FileSteps \ {"reconnect"}, o \in {Nobody, c.here.tab.server} :
        o \in FileServers /\ WithSession(c, next) = [c EXCEPT !.step = st, !.on = o]
  BY <1>1, <1>2 DEF WithSession, FileSteps, FileServers
<1>4. QED
  BY <1>3 DEF FileHandlers, HasServer, OfOwnServer

\* What the render shows now is of the tab that is shown.
LEMMA HereIsOwn ==
    ASSUME BrowseInv
    PROVE  /\ Here \in Renders /\ Here.tab = shownTab
           /\ Here.bound \in {Nobody, shownTab.server}
  BY DEF Here, BrowseInv, BrowseTypes, Renders, FileViews, FileServers

\* A click adds a handler of the tab that is shown.
LEMMA BeginKeeps ==
    ASSUME BrowseInv, NEW i \in Slots, NEW target \in Paths,
           NEW kind \in {"refresh", "visible", "mkdir", "rename", "remove", "upload"},
           BeginCall(i, kind, target), Unopened, UNCHANGED <<shownTab, remotePath>>
    PROVE  BrowseInv'
<1> DEFINE c == [kind |-> kind, step |-> "idle", here |-> Here, target |-> target, on |-> Nobody]
<1> DEFINE d == WithSession(c, FirstStep(kind))
<1>1. c \in FileHandlers /\ HasServer(c) /\ OfOwnServer(c) /\ c.step # "reconnect"
  BY HereIsOwn DEF FileHandlers, FileKinds, FileSteps, FileServers, HasServer, OfOwnServer,
     BrowseInv
<1>2. FirstStep(kind) \in {"list", "act"}
  BY DEF FirstStep
<1>3. d \in FileHandlers /\ HasServer(d) /\ OfOwnServer(d)
  BY <1>1, <1>2, SessionIsOwn
<1>4. fileCalls' = [fileCalls EXCEPT ![i] = d] /\ session' \in FileServers
  BY HereIsOwn DEF BeginCall, SessionAfter, BrowseInv, BrowseTypes, Renders
<1>5. QED
  BY <1>3, <1>4 DEF BrowseInv, BrowseTypes, Unopened

\* A step that changes one handler, and of the rest at most what is shown.
LEMMA OneHandlerKeeps ==
    ASSUME BrowseInv, NEW i \in Slots, NEW d \in FileHandlers, HasServer(d), OfOwnServer(d),
           fileCalls' = [fileCalls EXCEPT ![i] = d],
           session' \in FileServers, remotePath' \in Paths, fileTabs' \subseteq Servers,
           bound' = bound \/ (\E s \in Servers : bound' \in {[bound EXCEPT ![s] = s],
                                                              [bound EXCEPT ![s] = Nobody]}),
           shownTab' \in FileViews, shownTab'.kind = "files" => shownTab'.server \in Servers
    PROVE  BrowseInv'
<1>1. bound' \in [Servers -> FileServers] /\ \A s \in Servers : bound'[s] \in {Nobody, s}
  BY DEF BrowseInv, BrowseTypes, FileServers
<1>2. QED
  BY <1>1 DEF BrowseInv, BrowseTypes

\* A handler that is not there.
LEMMA NoCallIsSound ==
    NoCall \in FileHandlers /\ HasServer(NoCall) /\ OfOwnServer(NoCall)
  BY RemoteRootIsAPath DEF NoCall, TerminalTab, FileHandlers, FileKinds, FileSteps, FileServers,
     Renders, FileViews, HasServer, OfOwnServer

\* A window begins with no SFTP tab and no handler.
LEMMA BrowseStarts ==
    ASSUME BrowseInit
    PROVE  BrowseInv
  BY NoCallIsSound, RemoteRootIsAPath DEF BrowseInit, BrowseInv, BrowseTypes, FileViews, FileServers

\* The clicks that ask something of the directory that is shown.
LEMMA ClicksKeep ==
    ASSUME BrowseInv, NEW i \in Slots,
           RefreshListing(i) \/ CreateDirectory(i) \/ Rename(i) \/ ConfirmDelete(i)
             \/ Upload(i) \/ UploadEnds(i)
    PROVE  BrowseInv'
<1>1. PICK kind \in {"refresh", "visible", "mkdir", "rename", "remove", "upload"}, p \in Paths :
        BeginCall(i, kind, p)
  BY DEF BrowseInv, BrowseTypes, RefreshListing, CreateDirectory, Rename, ConfirmDelete, Upload,
     UploadEnds
<1>2. Unopened /\ UNCHANGED <<shownTab, remotePath>>
  BY DEF RefreshListing, CreateDirectory, Rename, ConfirmDelete, Upload, UploadEnds, ListSame
<1>3. QED
  BY <1>1, <1>2, BeginKeeps

\* The clicks that show or open a tab.
LEMMA TabClicksKeep ==
    ASSUME BrowseInv, NEW i \in Slots, SwitchTab(i) \/ ShowFileTab(i) \/ OpenFileTab(i)
    PROVE  BrowseInv'
<1>1. CASE SwitchTab(i)
  <2>1. PICK t \in {TerminalTab(s) : s \in Servers} \cup {FilesTab(s) : s \in fileTabs} :
          /\ shownTab' = t
          /\ session' \in FileServers /\ remotePath' \in Paths
          /\ fileCalls' \in {fileCalls, [fileCalls EXCEPT ![i] =
               [kind |-> "refresh", step |-> "open-list", target |-> RootPath, on |-> Nobody,
                here |-> [tab |-> t, session |-> Nobody, path |-> RootPath, bound |-> Nobody]]]}
    <3>1. PICK t \in {TerminalTab(s) : s \in Servers} \cup {FilesTab(s) : s \in fileTabs} :
            /\ shownTab' = t
            /\ IF t.kind = "files" /\ bound[t.server] # Nobody
               THEN session' = bound[t.server] /\ UNCHANGED <<remotePath, listing>>
               ELSE ClearView
            /\ IF t.kind = "terminal"
               THEN fileCalls' = [fileCalls EXCEPT ![i] =
                   [kind |-> "refresh", step |-> "open-list", target |-> RootPath, on |-> Nobody,
                    here |-> [tab |-> t, session |-> Nobody, path |-> RootPath, bound |-> Nobody]]]
               ELSE UNCHANGED fileCalls
      BY <1>1 DEF SwitchTab
    <3>2. t.kind = "files" => t.server \in Servers
      BY DEF BrowseInv, BrowseTypes, TerminalTab, FilesTab
    <3>3. QED
      BY <3>1, <3>2, RemoteRootIsAPath DEF ClearView, BrowseInv, BrowseTypes, FileServers
  <2>2. t \in FileViews /\ t.server \in Servers
    BY DEF BrowseInv, BrowseTypes, TerminalTab, FilesTab, FileViews, FileServers
  <2> DEFINE d == [kind |-> "refresh", step |-> "open-list", target |-> RootPath, on |-> Nobody,
                   here |-> [tab |-> t, session |-> Nobody, path |-> RootPath, bound |-> Nobody]]
  <2>3. d \in FileHandlers /\ HasServer(d) /\ OfOwnServer(d)
    BY <2>2, RemoteRootIsAPath DEF FileHandlers, FileKinds, FileSteps, FileServers, Renders,
       HasServer, OfOwnServer
  <2>4. Unopened
    BY <1>1 DEF SwitchTab
  <2>5. QED
    BY <2>1, <2>2, <2>3, <2>4 DEF BrowseInv, BrowseTypes, Unopened
<1>2. CASE ShowFileTab(i)
  <2> DEFINE s == shownTab.server
  <2> DEFINE t == FilesTab(s)
  <2> DEFINE path == IF shownTab = t THEN remotePath ELSE RootPath
  <2> DEFINE d == [kind |-> "open-tab", step |-> "list", target |-> path, on |-> bound[s],
                   here |-> [tab |-> t, session |-> bound[s], path |-> path, bound |-> bound[s]]]
  <2>1. /\ fileCalls' = [fileCalls EXCEPT ![i] = d] /\ shownTab' = t /\ session' = bound[s]
        /\ remotePath' = path /\ s \in fileTabs /\ Unopened
    BY <1>2 DEF ShowFileTab
  <2>2. /\ s \in Servers /\ t \in FileViews /\ path \in Paths /\ bound[s] \in FileServers
        /\ bound[s] \in {Nobody, s}
    BY <2>1, RemoteRootIsAPath DEF BrowseInv, BrowseTypes, FilesTab, FileViews, FileServers
  <2>3. d \in FileHandlers /\ HasServer(d) /\ OfOwnServer(d)
    BY <2>2 DEF FileHandlers, FileKinds, FileSteps, Renders, HasServer, OfOwnServer, FilesTab
  <2>4. QED
    BY <2>1, <2>2, <2>3, OneHandlerKeeps DEF Unopened, FilesTab, BrowseInv, BrowseTypes
<1>3. CASE OpenFileTab(i)
  <2> DEFINE d == [kind |-> "open-tab", step |-> "open-list", target |-> RootPath,
                   on |-> Nobody, here |-> Here]
  <2>1. d \in FileHandlers /\ HasServer(d) /\ OfOwnServer(d)
    BY <1>3, HereIsOwn, RemoteRootIsAPath DEF OpenFileTab, FileHandlers, FileKinds, FileSteps,
       FileServers, HasServer, OfOwnServer
  <2>2. fileCalls' = [fileCalls EXCEPT ![i] = d] /\ Unopened
        /\ UNCHANGED <<remotePath, shownTab, session>>
    BY <1>3 DEF OpenFileTab, ListSame
  <2>3. QED
    BY <2>1, <2>2, OneHandlerKeeps DEF Unopened, BrowseInv, BrowseTypes
<1>4. QED
  BY <1>1, <1>2, <1>3

\* The answers of the backend, of whichever tab is shown when they come.
LEMMA AnswersKeep ==
    ASSUME BrowseInv, NEW i \in Slots,
           SessionOpens(i) \/ WorkDone(i) \/ Listed(i) \/ CallRefused(i)
             \/ ConnectionLost(i) \/ Reconnected(i) \/ ReconnectFails(i)
    PROVE  BrowseInv'
<1> DEFINE c == fileCalls[i]
<1> DEFINE s == c.here.tab.server
<1>1. /\ c \in FileHandlers /\ HasServer(c) /\ OfOwnServer(c) /\ c.here.tab \in FileViews
      /\ s \in FileServers /\ c.target \in Paths
  BY DEF BrowseInv, BrowseTypes, FileHandlers, Renders, FileViews
<1>2. CASE SessionOpens(i)
  <2> DEFINE d == [c EXCEPT !.step = StepOpened(c), !.on = s]
  <2>1. d \in FileHandlers /\ HasServer(d) /\ OfOwnServer(d)
    BY <1>1 DEF StepOpened, FileHandlers, FileSteps, HasServer, OfOwnServer
  <2>2. fileCalls' = [fileCalls EXCEPT ![i] = d] /\ session' = s
    BY <1>2 DEF SessionOpens, CallGoesOn
  <2>3. CASE c.kind = "open-tab"
    <3>1. /\ fileTabs' = fileTabs \cup {s} /\ bound' = [bound EXCEPT ![s] = s]
          /\ shownTab' = FilesTab(s) /\ remotePath' = RootPath /\ s \in Servers
      BY <1>1, <1>2, <2>3 DEF SessionOpens, HasServer
    <3>2. QED
      BY <1>1, <2>1, <2>2, <3>1, OneHandlerKeeps, RemoteRootIsAPath
         DEF FilesTab, FileViews, BrowseInv, BrowseTypes
  <2>4. CASE c.kind # "open-tab"
    <3>1. bound' = (IF c.here.tab.kind = "files" THEN [bound EXCEPT ![s] = s] ELSE bound)
          /\ UNCHANGED <<fileTabs, shownTab, remotePath>>
      BY <1>2, <2>4 DEF SessionOpens, ListSame
    <3>2. bound' = bound \/ \E q \in Servers : bound' = [bound EXCEPT ![q] = q]
      BY <1>1, <3>1 DEF HasServer
    <3>3. QED
      BY <1>1, <2>1, <2>2, <3>1, <3>2, OneHandlerKeeps DEF BrowseInv, BrowseTypes
  <2>5. QED
    BY <2>3, <2>4
<1>3. CASE WorkDone(i)
  <2> DEFINE d == IF c.kind = "upload" THEN NoCall ELSE WithSession(c, "list")
  <2>1. c.step # "reconnect" /\ fileCalls' = [fileCalls EXCEPT ![i] = d] /\ Unopened
        /\ UNCHANGED <<shownTab, remotePath>>
    BY <1>3 DEF WorkDone, CallGoesOn
  <2>2. d \in FileHandlers /\ HasServer(d) /\ OfOwnServer(d)
    BY <1>1, <2>1, SessionIsOwn, NoCallIsSound
  <2>3. session' \in FileServers
    BY <1>1, <1>3 DEF WorkDone, SessionAfter, BrowseInv, BrowseTypes, FileHandlers, Renders
  <2>4. QED
    BY <2>1, <2>2, <2>3, OneHandlerKeeps DEF Unopened, BrowseInv, BrowseTypes
<1>4. CASE Listed(i) \/ CallRefused(i) \/ ReconnectFails(i)
  <2>1. fileCalls' = [fileCalls EXCEPT ![i] = NoCall] /\ Unopened /\ UNCHANGED <<shownTab, session>>
    BY <1>4 DEF Listed, CallRefused, ReconnectFails, CallGoesOn
  <2>2. remotePath' \in Paths
    BY <1>1, <1>4 DEF Listed, CallRefused, ReconnectFails, ListSame, BrowseInv, BrowseTypes
  <2>3. QED
    BY <2>1, <2>2, NoCallIsSound, OneHandlerKeeps DEF Unopened, BrowseInv, BrowseTypes
<1>5. CASE ConnectionLost(i)
  <2>1. CASE c.here.tab.kind = "terminal"
    <3>1. /\ fileCalls' = [fileCalls EXCEPT ![i] = NoCall] /\ session' = Nobody
          /\ UNCHANGED <<bound, fileTabs, shownTab, remotePath>>
      BY <1>5, <2>1 DEF ConnectionLost, CallGoesOn, ListSame
    <3>2. QED
      BY <3>1, NoCallIsSound, OneHandlerKeeps DEF BrowseInv, BrowseTypes, FileServers
  <2>2. CASE c.here.tab.kind = "files"
    <3> DEFINE d == [c EXCEPT !.step = "reconnect", !.on = Nobody]
    <3>1. /\ fileCalls' = [fileCalls EXCEPT ![i] = d] /\ bound' = [bound EXCEPT ![s] = Nobody]
          /\ session' \in {session, Nobody}
          /\ UNCHANGED <<fileTabs, shownTab, remotePath>>
      BY <1>5, <2>2 DEF ConnectionLost, CallGoesOn
    <3>2. s \in Servers
      BY <1>1, <2>2 DEF HasServer
    <3>3. d \in FileHandlers /\ HasServer(d) /\ OfOwnServer(d)
      BY <1>1, <3>2 DEF FileHandlers, FileSteps, FileServers, HasServer, OfOwnServer
    <3>4. QED
      BY <3>1, <3>2, <3>3, OneHandlerKeeps DEF BrowseInv, BrowseTypes, FileServers
  <2>3. QED
    BY <1>1, <2>1, <2>2 DEF FileViews
<1>6. CASE Reconnected(i)
  <2>1. /\ fileCalls' = [fileCalls EXCEPT ![i] = NoCall] /\ bound' = [bound EXCEPT ![s] = s]
        /\ session' = s /\ shownTab' = FilesTab(s) /\ remotePath' = c.target
        /\ UNCHANGED fileTabs /\ s \in Servers
    BY <1>1, <1>6 DEF Reconnected, CallGoesOn, HasServer
  <2>2. QED
    BY <1>1, <2>1, NoCallIsSound, OneHandlerKeeps
       DEF FilesTab, FileViews, BrowseInv, BrowseTypes
<1>7. QED
  BY <1>2, <1>3, <1>4, <1>5, <1>6

\* No click and no answer mixes servers.
LEMMA BrowseStep ==
    ASSUME BrowseInv, [BrowseNext]_browseVars
    PROVE  BrowseInv'
<1>1. CASE Select \/ StartRename \/ AskDelete \/ CancelDelete \/ UNCHANGED browseVars
  BY <1>1 DEF Select, StartRename, AskDelete, CancelDelete, browseVars, Unopened, ListSame,
     BrowseInv, BrowseTypes
<1>2. QED
  BY <1>1, ClicksKeep, TabClicksKeep, AnswersKeep DEF BrowseNext

\* Only an answer changes what is listed, and it comes with its path.
LEMMA ListedAsShown ==
    ASSUME BrowseInv, [BrowseNext]_browseVars, listing' # listing, listing' # NoListing,
           \A i \in Slots : fileCalls[i].kind = "open-tab" => fileCalls'[i] = fileCalls[i]
    PROVE  listing'.path = remotePath'
<1>1. ASSUME NEW i \in Slots, Listed(i)
      PROVE  listing'.path = remotePath'
  <2> DEFINE c == fileCalls[i]
  <2>1. fileCalls'[i] = NoCall
    BY <1>1 DEF Listed, CallGoesOn, BrowseInv, BrowseTypes
  <2>2. c.kind # "open-tab"
    BY <2>1 DEF NoCall
  <2>3. StillThere(c)
    BY <1>1 DEF Listed, ListSame
  <2>4. listing'.path = c.target
        /\ remotePath' = IF c.kind \in {"visible", "open-tab"} THEN remotePath ELSE c.target
    BY <1>1, <2>3 DEF Listed
  <2>5. QED
    BY <2>2, <2>3, <2>4 DEF StillThere
<1>2. ASSUME NEW i \in Slots, Reconnected(i)
      PROVE  listing'.path = remotePath'
  BY <1>2 DEF Reconnected
<1>3. UNCHANGED browseVars \/ (Select \/ StartRename \/ AskDelete \/ CancelDelete)
        => UNCHANGED listing
  BY DEF browseVars, Select, StartRename, AskDelete, CancelDelete, ListSame
<1>4. ASSUME NEW i \in Slots,
             RefreshListing(i) \/ CreateDirectory(i) \/ Rename(i) \/ ConfirmDelete(i)
               \/ Upload(i) \/ UploadEnds(i) \/ OpenFileTab(i) \/ WorkDone(i)
               \/ CallRefused(i) \/ ReconnectFails(i)
      PROVE  UNCHANGED listing
  BY <1>4 DEF RefreshListing, CreateDirectory, Rename, ConfirmDelete, Upload, UploadEnds,
     OpenFileTab, WorkDone, CallRefused, ReconnectFails, ListSame
<1>5. ASSUME NEW i \in Slots,
             SwitchTab(i) \/ ShowFileTab(i) \/ SessionOpens(i) \/ ConnectionLost(i)
      PROVE  listing' \in {listing, NoListing}
  BY <1>5 DEF SwitchTab, ShowFileTab, SessionOpens, ConnectionLost, ListSame, ClearView
<1>6. QED
  BY <1>1, <1>2, <1>3, <1>4, <1>5 DEF BrowseNext

\* However many handlers of however many tabs overlap: what one asks goes to the server of the
\* tab it was clicked in, and a listing that is shown is of the path that is shown.
THEOREM FilesAreSound == BrowseSpec => FilesSound
<1>1. BrowseInit => BrowseInv
  BY BrowseStarts
<1>2. BrowseInv /\ [BrowseNext]_browseVars => BrowseInv'
  BY BrowseStep
<1>3. BrowseInv => SentToOwnServer
  BY DEF BrowseInv, OfOwnServer, SentToOwnServer
<1> DEFINE Shown == (/\ listing' # listing /\ listing' # NoListing
                     /\ \A i \in Slots : fileCalls[i].kind = "open-tab"
                                           => fileCalls'[i] = fileCalls[i])
                    => listing'.path = remotePath'
<1>4. BrowseInv /\ [BrowseNext]_browseVars => [Shown]_browseVars
  BY ListedAsShown
<1>5. BrowseSpec => []SentToOwnServer
  BY <1>1, <1>2, <1>3, PTL DEF BrowseSpec
<1>6. BrowseSpec => [][Shown]_browseVars
  BY <1>1, <1>2, <1>4, PTL DEF BrowseSpec
<1>7. QED
  BY <1>5, <1>6 DEF FilesSound, RefreshShowsItsPath

-----------------------------------------------------------------------------
(* The commands the user keeps (SavedCommands).                            *)

\* A window that does not show what is stored has still to write or to read, or its
\* last write was refused.
AgreeInv ==
    /\ saved = [w \in AppWindows |-> saved[w]] /\ notices \in [AppWindows -> Nat]
    /\ running \subseteq AppWindows
    /\ \A w \in running \ refused : saved[w] = storage \/ w \in unsaved \/ notices[w] # 0

\* What changes a window makes it write, and what it writes is told to those that differ.
LEMMA AgreeStep ==
    ASSUME AgreeInv, [SavedNext]_savedVars
    PROVE  AgreeInv'
<1>1. ASSUME NEW w \in AppWindows, NEW list, Change(w, list), UNCHANGED <<storage, refused>>,
             running' \subseteq running \cup {w},
             notices' \in {notices, [notices EXCEPT ![w] = @ - 1]}, notices' # notices => notices[w] # 0
      PROVE  AgreeInv'
  BY <1>1 DEF AgreeInv, Change
<1>2. ASSUME NEW w \in AppWindows, WindowOpens(w) \/ Sync(w)
      PROVE  AgreeInv'
  BY <1>1, <1>2 DEF WindowOpens, Sync
<1>3. ASSUME NEW w \in AppWindows, UserSaves(w)
      PROVE  AgreeInv'
  <2>1. \E list : Change(w, list)
    BY <1>3 DEF UserSaves, UserAdds, UserEdits, UserRemoves
  <2>2. QED
    BY <1>1, <1>3, <2>1 DEF UserSaves
<1>4. ASSUME NEW w \in AppWindows, WindowCloses(w)
      PROVE  AgreeInv'
  BY <1>4 DEF WindowCloses, AgreeInv
<1>5. ASSUME NEW w \in AppWindows, WriteSaved(w), Stores(w)
      PROVE  AgreeInv'
  <2>1. /\ notices' = [v \in AppWindows |->
               IF v \in running \ {w} /\ saved[w] # storage THEN notices[v] + 1 ELSE notices[v]]
        /\ unsaved' = unsaved \ {w} /\ storage' = saved[w] /\ refused' = refused \ {w}
        /\ UNCHANGED <<saved, running>>
    BY <1>5 DEF WriteSaved, Stores
  <2>2. ASSUME NEW v \in running \ refused'
        PROVE  saved[v] = storage' \/ v \in unsaved' \/ notices'[v] # 0
    BY <2>1, <2>2 DEF AgreeInv
  <2>3. QED
    BY <2>1, <2>2 DEF AgreeInv
<1>6. ASSUME NEW w \in AppWindows, WriteSaved(w), StorageRefuses(w)
      PROVE  AgreeInv'
  BY <1>6 DEF WriteSaved, StorageRefuses, AgreeInv
<1>7. ASSUME NEW w \in AppWindows, WriteSaved(w)
      PROVE  AgreeInv'
  BY <1>5, <1>6, <1>7 DEF WriteSaved
<1>8. QED
  BY <1>2, <1>3, <1>4, <1>7 DEF SavedNext, savedVars, AgreeInv

\* For any number of windows, changes and storage events: when no effect and no event is on
\* its way, every window whose last write was taken shows what is stored, whichever wrote last.
THEOREM WindowsComeToAgree == SavedSpec => []WindowsAgree
<1>1. SavedInit => AgreeInv
  BY DEF SavedInit, AgreeInv
<1>2. AgreeInv /\ [SavedNext]_savedVars => AgreeInv'
  BY AgreeStep
<1>3. AgreeInv => WindowsAgree
  BY DEF AgreeInv, WindowsAgree
<1>4. QED
  BY <1>1, <1>2, <1>3, PTL DEF SavedSpec

Entries == [id : FirstIds \cup (1 .. MaxSaves),
            command : {e.command : e \in FirstEntries} \cup Commands, ok : BOOLEAN]

\* The entries of a list have ids of their own, all given by the n-th change.
Apart(list, n) ==
    /\ list \in Seq(Entries)
    /\ \A i \in 1 .. Len(list) : list[i].id \in FirstIds \cup (1 .. n)
    /\ \A i, j \in 1 .. Len(list) : list[i].id = list[j].id => i = j

\* Of what is stored, that is so of what is not damaged.
StoredApart(list, n) ==
    /\ list \in Seq(Entries)
    /\ \A i \in 1 .. Len(list) : list[i].id \in FirstIds \cup (1 .. n)
    /\ \A i, j \in 1 .. Len(list) : list[i].ok /\ list[j].ok /\ list[i].id = list[j].id => i = j

ApartInv ==
    /\ saved = [w \in AppWindows |-> saved[w]]
    /\ saves \in 0 .. MaxSaves
    /\ StoredApart(storage, saves)
    /\ \A w \in AppWindows : Apart(saved[w], saves) /\ Len(saved[w]) <= MaxSaved

\* The first commands of a list.
LEMMA FirstOfApart ==
    ASSUME NEW n, NEW list, Apart(list, n)
    PROVE  Apart(FirstOf(list), n) /\ Len(FirstOf(list)) <= MaxSaved
<1> DEFINE k == IF Len(list) < MaxSaved THEN Len(list) ELSE MaxSaved
<1>1. k \in Nat /\ k <= Len(list) /\ k <= MaxSaved /\ Len(list) \in Nat /\ list \in Seq(Entries)
  BY SavedCommandsAssumption DEF Apart
<1> HIDE DEF k
<1>2. /\ SubSeq(list, 1, k) \in Seq(Entries) /\ Len(SubSeq(list, 1, k)) = k
      /\ \A i \in 1 .. k : SubSeq(list, 1, k)[i] = list[i] /\ i \in 1 .. Len(list)
  BY <1>1
<1>3. FirstOf(list) = SubSeq(list, 1, k)
  BY DEF FirstOf, k
<1>4. QED
  BY <1>1, <1>2, <1>3 DEF Apart

\* What is kept of a list is as far apart as the list.
LEMMA KeptApart ==
    ASSUME NEW n, NEW list, Apart(list, n), NEW P
    PROVE  /\ Apart(Kept(list, P), n)
           /\ \A i \in 1 .. Len(Kept(list, P)) : \E j \in P \cap (1 .. Len(list)) : Kept(list, P)[i] = list[j]
<1> DEFINE q == Kept(list, P)
<1>1. list \in Seq(Entries)
  BY DEF Apart
<1>2. q \in Seq(Entries) /\ \E at : Enumerates(at, q, list, P, Len(list))
  BY <1>1, KeptIsPart
<1> HIDE DEF q
<1>3. PICK at : Enumerates(at, q, list, P, Len(list))
  BY <1>2
<1>4. ASSUME NEW i \in 1 .. Len(q)
      PROVE  at[i] \in P \cap (1 .. Len(list)) /\ q[i] = list[at[i]]
  BY <1>3 DEF Enumerates
<1>5. ASSUME NEW i \in 1 .. Len(q), NEW j \in 1 .. Len(q), q[i].id = q[j].id
      PROVE  i = j
  <2>1. at[i] = at[j]
    BY <1>4, <1>5, SMTT(30) DEF Apart
  <2>2. ~(i < j) /\ ~(j < i)
    BY <1>1, <1>3, <1>4, <2>1 DEF Enumerates
  <2>3. QED
    BY <2>2
<1>6. \A i \in 1 .. Len(q) : q[i].id \in FirstIds \cup (1 .. n)
  BY <1>4 DEF Apart
<1>7. QED
  BY <1>2, <1>4, <1>5, <1>6 DEF Apart, q

\* What is read of the storage.
LEMMA ReadableApart ==
    ASSUME NEW n, StoredApart(storage, n)
    PROVE  Apart(Readable, n) /\ Len(Readable) <= MaxSaved
<1> DEFINE P == {i \in DOMAIN storage : storage[i].ok}
           q == Kept(storage, P)
<1>1. storage \in Seq(Entries)
  BY DEF StoredApart
<1>2. q \in Seq(Entries) /\ \E at : Enumerates(at, q, storage, P, Len(storage))
  BY <1>1, KeptIsPart
<1> HIDE DEF q
<1>3. PICK at : Enumerates(at, q, storage, P, Len(storage))
  BY <1>2
<1>4. ASSUME NEW i \in 1 .. Len(q)
      PROVE  at[i] \in 1 .. Len(storage) /\ q[i] = storage[at[i]] /\ storage[at[i]].ok
  BY <1>3 DEF Enumerates
<1>5. ASSUME NEW i \in 1 .. Len(q), NEW j \in 1 .. Len(q), q[i].id = q[j].id
      PROVE  i = j
  <2>1. at[i] = at[j]
    <3>1. storage[at[i]].id = storage[at[j]].id
      BY <1>4, <1>5
    <3>2. QED
      BY <1>4, <3>1, Zenon DEF StoredApart
  <2>2. ~(i < j) /\ ~(j < i)
    BY <1>1, <1>3, <1>4, <2>1 DEF Enumerates
  <2>3. QED
    BY <2>2
<1>6. \A i \in 1 .. Len(q) : q[i].id \in FirstIds \cup (1 .. n)
  BY <1>4 DEF StoredApart
<1>7. Apart(q, n)
  BY <1>2, <1>5, <1>6 DEF Apart
<1>8. QED
  BY <1>7, FirstOfApart DEF Readable, q

\* A command in front of those with other ids.
LEMMA FrontApart ==
    ASSUME NEW n, NEW list, Apart(list, n), NEW e \in Entries, e.id \in FirstIds \cup (1 .. n),
           \A i \in 1 .. Len(list) : list[i].id # e.id
    PROVE  Apart(<<e>> \o list, n)
<1> DEFINE q == <<e>> \o list
<1>1. list \in Seq(Entries) /\ Len(list) \in Nat
  BY DEF Apart
<1>2. /\ q \in Seq(Entries) /\ Len(q) = Len(list) + 1 /\ q[1] = e
      /\ \A i \in 1 .. Len(q) : i # 1 => q[i] = list[i - 1] /\ i - 1 \in 1 .. Len(list)
  BY <1>1
<1> HIDE DEF q
<1>3. \A i \in 1 .. Len(q) : q[i].id \in FirstIds \cup (1 .. n)
  BY <1>2 DEF Apart
<1>4. ASSUME NEW i \in 1 .. Len(q), NEW j \in 1 .. Len(q), q[i].id = q[j].id
      PROVE  i = j
  <2>1. CASE i = 1 \/ j = 1
    BY <1>2, <1>4, <2>1
  <2>2. CASE i # 1 /\ j # 1
    <3>1. i - 1 = j - 1
      BY <1>2, <1>4, <2>2 DEF Apart
    <3>2. QED
      BY <3>1
  <2>3. QED
    BY <2>1, <2>2
<1>5. QED
  BY <1>2, <1>3, <1>4 DEF Apart, q

\* addCommand keeps the ids apart, whether the command is new or moves to the front.
LEMMA AddedApart ==
    ASSUME NEW list, NEW n \in Nat, n < MaxSaves, Apart(list, n), NEW c \in Commands
    PROVE  Apart(Added(list, c, n + 1), n + 1) /\ Len(Added(list, c, n + 1)) <= MaxSaved
<1> DEFINE there == {i \in DOMAIN list : list[i].command = c}
           old   == list[Min(there)]
           new   == [id |-> n + 1, command |-> c, ok |-> TRUE]
           rest  == Kept(list, {i \in DOMAIN list : list[i].id # old.id})
<1>1. /\ list \in Seq(Entries) /\ Len(list) \in Nat /\ MaxSaves \in Nat /\ DOMAIN list = 1 .. Len(list)
      /\ 1 .. n \subseteq 1 .. (n + 1) /\ n + 1 \in 1 .. MaxSaves
  BY SavedCommandsAssumption DEF Apart
<1>2. Apart(list, n + 1)
  BY <1>1 DEF Apart
<1>3. CASE there = {}
  <2>1. new \in Entries /\ new.id = n + 1
    BY <1>1 DEF Entries
  <2>2. \A i \in 1 .. Len(list) : list[i].id # n + 1
    BY <1>1, SavedCommandsAssumption DEF Apart
  <2> HIDE DEF new
  <2>3. Apart(<<new>> \o list, n + 1)
    BY <1>1, <1>2, <2>1, <2>2, FrontApart
  <2>4. Added(list, c, n + 1) = FirstOf(<<new>> \o list)
    BY <1>3 DEF Added, new
  <2>5. QED
    BY <2>3, <2>4, FirstOfApart
<1>4. CASE there # {}
  <2>1. there \subseteq Nat
    BY <1>1
  <2>2. Min(there) \in there
    BY <1>4, <2>1, LeastNumber DEF Min
  <2>3. old \in Entries /\ old.id \in FirstIds \cup (1 .. (n + 1))
    BY <1>1, <1>2, <2>2 DEF Apart
  <2> HIDE DEF old
  <2>4. Apart(rest, n + 1) /\ \A i \in 1 .. Len(rest) : rest[i].id # old.id
    BY <1>2, KeptApart
  <2>5. Added(list, c, n + 1) = FirstOf(<<old>> \o rest)
    BY <1>4 DEF Added, old
  <2>6. QED
    BY <2>3, <2>4, <2>5, FrontApart, FirstOfApart
<1>5. QED
  BY <1>3, <1>4

\* updateCommand and removeCommand.
LEMMA EditedApart ==
    ASSUME NEW list, NEW n, Apart(list, n), NEW c \in Commands, NEW id
    PROVE  Apart(Edited(list, id, c), n) /\ Len(Edited(list, id, c)) = Len(list)
<1> DEFINE q == Edited(list, id, c)
<1>1. list \in Seq(Entries) /\ Len(list) \in Nat /\ DOMAIN list = 1 .. Len(list)
  BY DEF Apart
<1>2. ASSUME NEW i \in 1 .. Len(list)
      PROVE  q[i] \in Entries /\ q[i].id = list[i].id
  <2>1. list[i] \in Entries
    BY <1>1
  <2>2. [list[i] EXCEPT !.command = c] \in Entries /\ [list[i] EXCEPT !.command = c].id = list[i].id
    BY <2>1 DEF Entries
  <2>3. q[i] = IF list[i].id = id THEN [list[i] EXCEPT !.command = c] ELSE list[i]
    BY <1>1 DEF Edited
  <2>4. QED
    BY <2>1, <2>2, <2>3
<1>3. q = [i \in 1 .. Len(list) |-> q[i]]
  BY <1>1 DEF Edited
<1> HIDE DEF q
<1>4. q \in Seq(Entries) /\ Len(q) = Len(list)
  BY <1>1, <1>2, <1>3
<1>5. QED
  BY <1>2, <1>4 DEF Apart, q

\* A list whose ids are apart counts them all.
LEMMA ApartCounts ==
    ASSUME NEW n, NEW list, Apart(list, n)
    PROVE  Cardinality({e.id : e \in Range(list)}) = Len(list)
<1> DEFINE ids == {list[i].id : i \in 1 .. Len(list)}
           f == [i \in 1 .. Len(list) |-> list[i].id]
<1>1. list \in Seq(Entries) /\ Len(list) \in Nat /\ DOMAIN list = 1 .. Len(list)
  BY DEF Apart
<1>2. {e.id : e \in Range(list)} = ids
  BY <1>1 DEF Range
<1>3. f \in Bijection(1 .. Len(list), ids)
  <2>1. f \in [1 .. Len(list) -> ids] /\ \A t \in ids : \E i \in 1 .. Len(list) : f[i] = t
    OBVIOUS
  <2>2. \A i, j \in 1 .. Len(list) : f[i] = f[j] => i = j
    BY DEF Apart
  <2> HIDE DEF f, ids
  <2>3. f \in Injection(1 .. Len(list), ids)
    BY <2>1, <2>2 DEF Injection, IsInjective
  <2>4. f \in Surjection(1 .. Len(list), ids)
    BY <2>1 DEF Surjection
  <2>5. QED
    BY <2>3, <2>4 DEF Bijection
<1> HIDE DEF ids, f
<1>4. Cardinality(ids) = Len(list)
  BY <1>1, <1>3, FS_CountingElements DEF ExistsBijection
<1>5. QED
  BY <1>2, <1>4

\* More changes make no difference to what was apart.
LEMMA StaysApart ==
    ASSUME NEW n \in Nat
    PROVE  /\ \A list : Apart(list, n) => Apart(list, n + 1)
           /\ \A list : StoredApart(list, n) => StoredApart(list, n + 1)
           /\ \A list : Apart(list, n) => StoredApart(list, n)
<1>1. 1 .. n \subseteq 1 .. (n + 1)
  OBVIOUS
<1>2. QED
  BY <1>1 DEF Apart, StoredApart

\* What a window sets its list to.
LEMMA ChangeApart ==
    ASSUME ApartInv, NEW w \in AppWindows, NEW list, saves' \in 0 .. MaxSaves,
           StoredApart(storage', saves'), \A v \in AppWindows : Apart(saved[v], saves'),
           saved' = [saved EXCEPT ![w] = list], Apart(list, saves'), Len(list) <= MaxSaved
    PROVE  ApartInv'
<1>1. saved' = [v \in AppWindows |-> IF v = w THEN list ELSE saved[v]]
  BY DEF ApartInv
<1>2. saved' = [v \in AppWindows |-> saved'[v]]
  BY <1>1
<1>3. \A v \in AppWindows : Apart(saved'[v], saves') /\ Len(saved'[v]) <= MaxSaved
  BY <1>1 DEF ApartInv
<1>4. QED
  BY <1>2, <1>3 DEF ApartInv

\* No change, reload or write gives two entries of a list the same id.
LEMMA ApartStep ==
    ASSUME ApartInv, [SavedNext]_savedVars
    PROVE  ApartInv'
<1>1. saves \in Nat /\ MaxSaves \in Nat
  BY SavedCommandsAssumption DEF ApartInv
<1>2. CASE UNCHANGED savedVars
  BY <1>2 DEF savedVars, ApartInv
<1>3. ASSUME NEW w \in AppWindows, WindowOpens(w) \/ Sync(w)
      PROVE  ApartInv'
  <2>1. saved' = [saved EXCEPT ![w] = Readable] /\ UNCHANGED <<storage, saves>>
    BY <1>3 DEF WindowOpens, Sync, Change
  <2>2. Apart(Readable, saves) /\ Len(Readable) <= MaxSaved
    BY ReadableApart DEF ApartInv
  <2>3. QED
    BY <2>1, <2>2, ChangeApart DEF ApartInv
<1>4. ASSUME NEW w \in AppWindows, WindowCloses(w)
      PROVE  ApartInv'
  <2>1. saved' = [saved EXCEPT ![w] = <<>>] /\ saves' = saves + 1 /\ saves < MaxSaves
        /\ UNCHANGED storage
    BY <1>4 DEF WindowCloses
  <2>2. saves' \in 0 .. MaxSaves
    BY <1>1, <2>1
  <2>3. Apart(<<>>, saves') /\ Len(<<>>) <= MaxSaved
    BY SavedCommandsAssumption DEF Apart
  <2>4. StoredApart(storage', saves') /\ \A v \in AppWindows : Apart(saved[v], saves')
    BY <1>1, <2>1, StaysApart DEF ApartInv
  <2>5. QED
    BY <2>1, <2>2, <2>3, <2>4, ChangeApart
<1>5. ASSUME NEW w \in AppWindows, WriteSaved(w)
      PROVE  ApartInv'
  BY <1>1, <1>5, StaysApart DEF WriteSaved, Stores, StorageRefuses, ApartInv
<1>6. ASSUME NEW w \in AppWindows, UserSaves(w)
      PROVE  ApartInv'
  <2>1. saves < MaxSaves /\ saves' = saves + 1 /\ UNCHANGED storage
    BY <1>6 DEF UserSaves
  <2>2. saves' \in 0 .. MaxSaves
    BY <1>1, <2>1
  <2>3. StoredApart(storage', saves') /\ \A v \in AppWindows : Apart(saved[v], saves')
    BY <1>1, <2>1, StaysApart DEF ApartInv
  <2>4. Len(saved[w]) <= MaxSaved /\ Apart(saved[w], saves) /\ Apart(saved[w], saves')
    BY <2>3 DEF ApartInv
  <2>5. CASE UserAdds(w)
    <3>1. PICK c \in Commands : saved' = [saved EXCEPT ![w] = Added(saved[w], c, saves + 1)]
      BY <2>5 DEF UserAdds, Change
    <3>2. Apart(Added(saved[w], c, saves + 1), saves') /\ Len(Added(saved[w], c, saves + 1)) <= MaxSaved
      BY <1>1, <2>1, <2>4, AddedApart
    <3>3. QED
      BY <2>2, <2>3, <3>1, <3>2, ChangeApart
  <2>6. CASE UserEdits(w)
    <3>1. PICK i \in DOMAIN saved[w], c \in Commands :
            saved' = [saved EXCEPT ![w] = Edited(saved[w], saved[w][i].id, c)]
      BY <2>6 DEF UserEdits, Change
    <3>2. /\ Apart(Edited(saved[w], saved[w][i].id, c), saves')
          /\ Len(Edited(saved[w], saved[w][i].id, c)) <= MaxSaved
      BY <2>4, EditedApart
    <3>3. QED
      BY <2>2, <2>3, <3>1, <3>2, ChangeApart
  <2>7. CASE UserRemoves(w)
    <3>1. PICK i \in DOMAIN saved[w] : saved' = [saved EXCEPT ![w] = Removed(saved[w], saved[w][i].id)]
      BY <2>7 DEF UserRemoves, Change
    <3> DEFINE rest == Removed(saved[w], saved[w][i].id)
    <3>2. Apart(rest, saves')
      BY <2>4, KeptApart DEF Removed
    <3>3. Len(rest) <= Len(saved[w]) /\ Len(rest) \in Nat /\ Len(saved[w]) \in Nat
      BY <2>4, KeptIsPart DEF Removed, Apart
    <3>4. Len(rest) <= MaxSaved
      BY <2>4, <3>3, SavedCommandsAssumption
    <3>5. QED
      BY <2>2, <2>3, <3>1, <3>2, <3>4, ChangeApart
  <2>8. QED
    BY <1>6, <2>5, <2>6, <2>7 DEF UserSaves
<1>7. QED
  BY <1>2, <1>3, <1>4, <1>5, <1>6 DEF SavedNext

\* What is stored at first has ids of its own.
LEMMA ApartAtFirst ==
    ASSUME SavedInit
    PROVE  ApartInv
<1>1. saves = 0 /\ saves \in 0 .. MaxSaves /\ MaxSaved \in Nat
  BY SavedCommandsAssumption DEF SavedInit
<1>2. storage \in FirstSaved /\ storage \in Seq(FirstEntries)
  BY SavedCommandsAssumption DEF SavedInit
<1>3. FirstEntries \subseteq Entries
  BY SavedCommandsAssumption DEF Entries
<1>4. storage \in Seq(Entries)
  BY <1>2, <1>3
<1>5. \A i \in 1 .. Len(storage) : storage[i] \in FirstEntries
  BY <1>2
<1>6. \A i \in 1 .. Len(storage) : storage[i].id \in FirstIds
  BY <1>5 DEF FirstIds
<1>7. \A i, j \in 1 .. Len(storage) :
        storage[i].ok /\ storage[j].ok /\ storage[i].id = storage[j].id => i = j
  <2>1. DOMAIN storage = 1 .. Len(storage)
    BY <1>2
  <2>2. QED
    BY <1>2, <2>1, SavedCommandsAssumption, Zenon
<1>8. StoredApart(storage, saves)
  BY <1>4, <1>6, <1>7 DEF StoredApart
<1>9. Apart(<<>>, saves) /\ Len(<<>>) <= MaxSaved
  BY <1>1 DEF Apart
<1>10. QED
  BY <1>1, <1>8, <1>9 DEF ApartInv, SavedInit

\* For any number of windows, commands and storage events, also when what is stored is
\* damaged: windows that have come to rest show what is stored, and no list of commands has
\* two entries of one id or more than MaxSaved (useSavedSshCommands.ts).
THEOREM SavedIsSound == SavedSpec => []SavedSound
<1>1. SavedInit => AgreeInv /\ ApartInv
  BY ApartAtFirst DEF SavedInit, AgreeInv
<1>2. AgreeInv /\ ApartInv /\ [SavedNext]_savedVars => AgreeInv' /\ ApartInv'
  BY AgreeStep, ApartStep
<1>3. AgreeInv /\ ApartInv => SavedSound
  <2>1. AgreeInv => WindowsAgree
    BY DEF AgreeInv, WindowsAgree
  <2>2. ApartInv => EntriesAreApart
    BY ApartCounts DEF ApartInv, EntriesAreApart
  <2>3. QED
    BY <2>1, <2>2 DEF SavedSound
<1>4. QED
  BY <1>1, <1>2, <1>3, PTL DEF SavedSpec

-----------------------------------------------------------------------------
(* The exchange log of a serial panel (SerialLog).                         *)

LogEntries == [time : Nat, sent : BOOLEAN]

LogTypeOK ==
    /\ clock \in Nat /\ rx \in Seq(Nat) /\ lastTime \in Nat
    /\ log \in Seq(LogEntries) /\ Len(log) <= MaxLog
    /\ heights \in [1 .. MaxLog -> Nat] /\ scrollTop \in Nat

LogInv ==
    /\ LogTypeOK
    /\ \A n \in DOMAIN log : log[n].time <= lastTime
    /\ LogInOrder

\* A row of the log has the height that was measured, or the one assumed.
LEMMA RowsHaveHeights ==
    ASSUME LogTypeOK, NEW n \in 1 .. MaxLog
    PROVE  HeightOf(n) \in Nat
BY LogAssumption DEF LogTypeOK, HeightOf

\* The heights of the rows above add up.
LEMMA HeightsAddUp ==
    ASSUME LogTypeOK
    PROVE  /\ TotalHeight \in [0 .. MaxLog -> Nat] /\ TotalHeight[0] = 0
           /\ \A n \in 1 .. MaxLog : TotalHeight[n] = TotalHeight[n - 1] + HeightOf(n)
<1> DEFINE Solves(g) == g = [n \in 0 .. MaxLog |-> IF n = 0 THEN 0 ELSE g[n - 1] + HeightOf(n)]
           step == [n \in 1 .. MaxLog |-> [x \in Nat |-> x + HeightOf(n)]]
<1>1. MaxLog \in Nat /\ step \in [1 .. MaxLog -> [Nat -> Nat]]
  BY LogAssumption, RowsHaveHeights
<1> HIDE DEF step
<1>2. PICK g \in [0 .. MaxLog -> Nat] : Recursion(g, MaxLog, 0, step)
  BY <1>1, RecursionInto
<1>3. \A n \in 1 .. MaxLog : n - 1 \in 0 .. MaxLog /\ n \in 0 .. MaxLog /\ n # 0
  BY <1>1
<1>4. \A n \in 1 .. MaxLog : g[n] = g[n - 1] + HeightOf(n)
  <2>1. \A n \in 1 .. MaxLog : g[n - 1] \in Nat /\ g[n] = step[n][g[n - 1]]
    BY <1>1, <1>2, <1>3 DEF Recursion
  <2>2. \A n \in 1 .. MaxLog, x \in Nat : step[n][x] = x + HeightOf(n)
    BY DEF step
  <2>3. QED
    BY <2>1, <2>2
<1>5. Solves(g)
  <2>1. g[0] = 0 /\ \A n \in 0 .. MaxLog : n = 0 \/ n \in 1 .. MaxLog
    BY <1>1, <1>2 DEF Recursion
  <2>2. QED
    BY <1>2, <1>4, <2>1
<1>6. TotalHeight = CHOOSE h : Solves(h)
  BY DEF TotalHeight
<1>7. Solves(TotalHeight)
  <2> HIDE DEF Solves
  <2>1. QED
    BY <1>5, <1>6
<1>8. TotalHeight[0] = 0 /\ \A n \in 1 .. MaxLog : TotalHeight[n] = TotalHeight[n - 1] + HeightOf(n)
  <2>1. 0 \in 0 .. MaxLog
    BY <1>1
  <2>2. \A n \in 0 .. MaxLog :
          TotalHeight[n] = IF n = 0 THEN 0 ELSE TotalHeight[n - 1] + HeightOf(n)
    BY <1>7
  <2>3. QED
    BY <1>3, <2>1, <2>2
<1> DEFINE T == {n \in 0 .. MaxLog : TotalHeight[n] \in Nat}
<1>9. 0 .. MaxLog \subseteq T
  <2>1. 0 \in T
    BY <1>1, <1>8
  <2>2. ASSUME NEW n \in 0 .. MaxLog, n \in T, n < MaxLog
        PROVE  n + 1 \in T
    <3>1. n + 1 \in 1 .. MaxLog /\ (n + 1) - 1 = n
      BY <1>1, <2>2
    <3>2. TotalHeight[n + 1] = TotalHeight[n] + HeightOf(n + 1) /\ HeightOf(n + 1) \in Nat
      BY <1>8, <3>1, RowsHaveHeights
    <3>3. QED
      BY <2>2, <3>1, <3>2
  <2> HIDE DEF T
  <2>3. QED
    BY <1>1, <2>1, <2>2, UpToNumber
<1>10. QED
  BY <1>7, <1>8, <1>9

\* A row begins no higher than those above it.
LEMMA RowsFollow ==
    ASSUME LogTypeOK, NEW i \in 0 .. MaxLog, NEW j \in 0 .. MaxLog, i <= j
    PROVE  TotalHeight[i] <= TotalHeight[j]
<1> DEFINE T == {n \in 0 .. MaxLog : i <= n => TotalHeight[i] <= TotalHeight[n]}
<1>1. MaxLog \in Nat /\ \A n \in 0 .. MaxLog : TotalHeight[n] \in Nat
  BY LogAssumption, HeightsAddUp
<1>2. 0 \in T
  BY <1>1
<1>3. ASSUME NEW n \in 0 .. MaxLog, n \in T, n < MaxLog
      PROVE  n + 1 \in T
  <2>1. n + 1 \in 1 .. MaxLog /\ (n + 1) - 1 = n /\ n + 1 \in 0 .. MaxLog
    BY <1>1, <1>3
  <2>2. TotalHeight[n + 1] = TotalHeight[n] + HeightOf(n + 1) /\ HeightOf(n + 1) \in Nat
    BY <2>1, RowsHaveHeights, HeightsAddUp
  <2>3. TotalHeight[n + 1] >= TotalHeight[n]
    BY <1>1, <2>2
  <2>4. CASE i <= n
    <3>1. TotalHeight[i] <= TotalHeight[n]
      BY <1>3, <2>4
    <3>2. QED
      BY <1>1, <2>1, <2>3, <3>1
  <2>5. CASE i = n + 1
    BY <1>1, <2>1, <2>5
  <2>6. QED
    BY <2>1, <2>4, <2>5
<1> HIDE DEF T
<1>4. 0 .. MaxLog \subseteq T
  BY <1>1, <1>2, <1>3, UpToNumber
<1>5. QED
  BY <1>4 DEF T

\* The search finds a row at or above the target, and none further down.
LEMMA SearchFinds ==
    ASSUME LogTypeOK, log # <<>>, NEW target \in Nat, target > 0
    PROVE  /\ RowAt(Offsets, target) \in Nat
           /\ RowAt(Offsets, target) = 0 \/ Top(RowAt(Offsets, target) + 1) <= target
           /\ RowAt(Offsets, target) + 1 \in DOMAIN log
           /\ \A n \in DOMAIN log : Top(n) <= target => n <= RowAt(Offsets, target) + 1
<1> DEFINE S == {1} \cup {n \in DOMAIN Offsets : Offsets[n] <= target}
<1>1. DOMAIN log = 1 .. Len(log) /\ Len(log) \in Nat \ {0}
  BY DEF LogTypeOK
<1>2. /\ DOMAIN Offsets = 1 .. Len(log) /\ Offsets # <<>>
      /\ \A n \in 1 .. Len(log) : Offsets[n] = Top(n)
  BY <1>1 DEF Offsets
<1>3. S \subseteq 1 .. Len(log)
  BY <1>1, <1>2
<1>4. RowAt(Offsets, target) = Max(S) - 1
  BY <1>2 DEF RowAt
<1> HIDE DEF S
<1>5. \E x \in S : \A y \in S : x >= y
  <2>1. 1 \in S /\ S \subseteq Nat /\ \A n \in S : n <= Len(log)
    BY <1>1, <1>3 DEF S
  <2>2. QED
    BY <1>1, <2>1, GreatestNumber
<1>6. Max(S) \in S /\ \A n \in S : n <= Max(S)
  BY <1>3, <1>5 DEF Max
<1>7. Max(S) \in 1 .. Len(log)
  BY <1>3, <1>6
<1>8. Max(S) = 1 \/ Top(Max(S)) <= target
  BY <1>2, <1>6 DEF S
<1>9. \A n \in 1 .. Len(log) : Top(n) <= target => n <= Max(S)
  BY <1>2, <1>6 DEF S
<1>10. (Max(S) - 1) + 1 = Max(S) /\ Max(S) - 1 \in Nat
  BY <1>1, <1>7
<1>11. QED
  BY <1>1, <1>4, <1>7, <1>8, <1>9, <1>10

\* What is in sight is rendered, whatever the rows measure and wherever the list is scrolled to.
LEMMA InSightIsRendered ==
    ASSUME LogTypeOK
    PROVE  SightIsRendered
<1>1. SUFFICES ASSUME NEW n \in DOMAIN log,
                      Top(n) < scrollTop + Viewport, Top(n + 1) > scrollTop
               PROVE  VisibleStart < n /\ n <= VisibleEnd
  BY DEF SightIsRendered, Rendered
<1> DEFINE top == Max({0, scrollTop - Overscan})
           bottom == scrollTop + Viewport + Overscan
<1>2. /\ Len(log) \in Nat \ {0} /\ n \in 1 .. Len(log) /\ log # <<>> /\ DOMAIN log = 1 .. Len(log)
      /\ Len(log) <= MaxLog /\ MaxLog \in Nat /\ n \in Nat
      /\ scrollTop \in Nat /\ Overscan \in Nat /\ Viewport \in Nat /\ bottom \in Nat
  BY LogAssumption DEF LogTypeOK
<1>3. \A i \in 0 .. MaxLog : TotalHeight[i] \in Nat
  BY HeightsAddUp
<1>4. n - 1 \in 0 .. MaxLog /\ n \in 0 .. MaxLog /\ Top(n) \in Nat /\ Top(n) = TotalHeight[n - 1]
      /\ Top(n + 1) = TotalHeight[n] /\ TotalHeight[n] \in Nat
  <2>1. n - 1 \in 0 .. MaxLog /\ n \in 0 .. MaxLog /\ (n + 1) - 1 = n
    BY <1>2
  <2>2. QED
    BY <1>3, <2>1 DEF Top
<1>5. top \in Nat /\ top <= scrollTop
  <2>1. \E x \in {0, scrollTop - Overscan} : \A y \in {0, scrollTop - Overscan} : x >= y
    BY <1>2
  <2>2. top \in {0, scrollTop - Overscan} /\ top >= 0
    BY <2>1 DEF Max
  <2>3. QED
    BY <1>2, <2>2
<1> HIDE DEF top
<1>6. VisibleStart < n
  <2>1. VisibleStart = RowAt(Offsets, top)
    BY DEF VisibleStart, top
  <2>2. CASE top = 0
    BY <1>2, <2>1, <2>2 DEF RowAt
  <2>3. CASE top > 0
    <3> DEFINE row == RowAt(Offsets, top)
    <3>1. row \in Nat /\ (row = 0 \/ Top(row + 1) <= top) /\ row + 1 \in DOMAIN log
      BY <1>2, <1>5, <2>3, SearchFinds
    <3>2. Top(row + 1) = TotalHeight[row] /\ row \in 0 .. MaxLog
      <4>1. (row + 1) - 1 = row /\ row \in 0 .. MaxLog
        BY <1>2, <3>1
      <4>2. QED
        BY <4>1 DEF Top
    <3> HIDE DEF row
    <3>3. CASE row >= n /\ row # 0
      <4>1. TotalHeight[n] <= TotalHeight[row]
        BY <1>4, <3>2, <3>3, RowsFollow
      <4>2. TotalHeight[row] <= top
        BY <3>1, <3>2, <3>3
      <4>3. QED
        BY <1>1, <1>2, <1>3, <1>4, <1>5, <3>2, <4>1, <4>2
    <3>4. QED
      BY <1>2, <2>1, <3>1, <3>3 DEF row
  <2>4. QED
    BY <1>5, <2>2, <2>3
<1>7. n <= VisibleEnd
  <2> DEFINE row == RowAt(Offsets, bottom)
  <2>1. bottom > 0 /\ Top(n) <= bottom
    BY <1>1, <1>2, <1>4
  <2>2. row \in Nat /\ n <= row + 1
    BY <1>2, <2>1, SearchFinds
  <2>3. VisibleEnd = Min({Len(log), row + 2})
    BY DEF VisibleEnd
  <2> HIDE DEF row
  <2>4. \E x \in {Len(log), row + 2} : \A y \in {Len(log), row + 2} : x <= y
    BY <1>2, <2>2
  <2>5. VisibleEnd \in {Len(log), row + 2}
    BY <2>3, <2>4 DEF Min
  <2>6. QED
    BY <1>2, <2>2, <2>5
<1>8. QED
  BY <1>6, <1>7

\* A new entry comes after all others.
LEMMA AppendInOrder ==
    ASSUME LogInv, NEW time \in Nat, NEW sent \in BOOLEAN, AppendEntry(time, sent)
    PROVE  /\ lastTime' \in Nat /\ log' \in Seq(LogEntries) /\ Len(log') <= MaxLog
           /\ \A n \in DOMAIN log' : log'[n].time <= lastTime'
           /\ LogInOrder'
<1> DEFINE e == [time |-> Stamp(time), sent |-> sent]
<1>1. Stamp(time) \in Nat /\ Stamp(time) > lastTime
  <2>1. \E x \in {time, lastTime + 1} : \A y \in {time, lastTime + 1} : x >= y
    BY DEF LogInv, LogTypeOK
  <2>2. Stamp(time) \in {time, lastTime + 1} /\ Stamp(time) >= lastTime + 1
    BY <2>1 DEF Stamp, Max
  <2>3. QED
    BY <2>2 DEF LogInv, LogTypeOK
<1>2. log' = Append(log, e) /\ lastTime' = Stamp(time) /\ e \in LogEntries
  BY <1>1 DEF AppendEntry, LogEntries
<1>3. /\ Len(log') = Len(log) + 1 /\ log'[Len(log) + 1] = e
      /\ \A n \in DOMAIN log : log'[n] = log[n]
      /\ DOMAIN log = 1..Len(log) /\ DOMAIN log' = 1..(Len(log) + 1) /\ Len(log) \in Nat
      /\ log' \in Seq(LogEntries)
  BY <1>2 DEF LogInv, LogTypeOK
<1>4. /\ lastTime \in Nat /\ log'[Len(log) + 1].time = lastTime'
      /\ \A n \in DOMAIN log : log'[n].time \in Nat /\ log'[n].time <= lastTime
  <2>1. log \in Seq(LogEntries)
    BY DEF LogInv, LogTypeOK
  <2>2. \A n \in 1..Len(log) : log[n] \in LogEntries
    BY <2>1
  <2>3. \A n \in DOMAIN log : log[n].time \in Nat /\ log[n].time <= lastTime
    BY <1>3, <2>2 DEF LogInv, LogTypeOK, LogEntries
  <2>4. QED
    BY <1>2, <1>3, <2>3 DEF LogInv, LogTypeOK
<1> HIDE DEF e
<1>5. ASSUME NEW n \in DOMAIN log'
      PROVE  log'[n].time <= lastTime'
  BY <1>1, <1>2, <1>3, <1>4
<1>6. ASSUME NEW m \in DOMAIN log', NEW n \in DOMAIN log', m < n
      PROVE  log'[m].time < log'[n].time
  <2>1. m \in DOMAIN log
    BY <1>3, <1>6
  <2>2. CASE n \in DOMAIN log
    BY <1>3, <1>6, <2>1, <2>2 DEF LogInv, LogTypeOK, LogInOrder
  <2>3. CASE n = Len(log) + 1
    BY <1>1, <1>2, <1>4, <2>1, <2>3
  <2>4. QED
    BY <1>3, <2>2, <2>3
<1>7. Len(log') <= MaxLog
  BY <1>3, LogAssumption DEF AppendEntry
<1>8. QED
  BY <1>1, <1>2, <1>3, <1>5, <1>6, <1>7 DEF LogInOrder

\* The times stay in order, also over a log that was cleared.
LEMMA LogStep ==
    ASSUME LogInv, [LogNext]_logVars
    PROVE  LogInv'
<1>1. CASE RxArrives
  <2>1. Head(rx) \in Nat /\ Tail(rx) \in Seq(Nat)
    BY <1>1 DEF RxArrives, LogInv, LogTypeOK
  <2>2. QED
    BY <1>1, <2>1, AppendInOrder DEF RxArrives, LogInv, LogTypeOK, LogInOrder
<1>2. CASE TxLogged
  BY <1>2, AppendInOrder DEF TxLogged, LogInv, LogTypeOK
<1>3. CASE ClearLog
  BY <1>3, LogAssumption DEF ClearLog, LogInv, LogTypeOK, LogInOrder
<1>4. CASE Scroll
  <2>1. Top(Len(log) + 1) \in Nat
    <3>1. (Len(log) + 1) - 1 \in 0 .. MaxLog
      BY LogAssumption DEF LogInv, LogTypeOK
    <3>2. QED
      BY <3>1, HeightsAddUp DEF Top, LogInv
  <2>2. scrollTop' \in Nat
    BY <1>4, <2>1 DEF Scroll
  <2>3. QED
    BY <1>4, <2>2 DEF Scroll, LogInv, LogTypeOK, LogInOrder
<1>5. CASE Measure
  <2>1. heights' \in [1 .. MaxLog -> Nat]
    BY <1>5, LogAssumption DEF Measure, LogInv, LogTypeOK
  <2>2. QED
    BY <1>5, <2>1 DEF Measure, LogInv, LogTypeOK, LogInOrder
<1>6. CASE Tick \/ Receive \/ Pause \/ UNCHANGED logVars
  BY <1>6 DEF Tick, Receive, Pause, logVars, LogInv, LogTypeOK, LogInOrder
<1>7. QED
  BY <1>1, <1>2, <1>3, <1>4, <1>5, <1>6 DEF LogNext

\* However late the events of the backend come, and whether the log is cleared or paused in
\* between: the log reads in the order of its times, and no two of them are equal.
THEOREM LogIsInOrder == LogSpec => []LogInOrder
<1>1. LogInit => LogInv
  BY LogAssumption DEF LogInit, LogInv, LogTypeOK, LogInOrder
<1>2. LogInv /\ [LogNext]_logVars => LogInv'
  BY LogStep
<1>3. LogInv => LogInOrder
  BY DEF LogInv, LogTypeOK
<1>4. QED
  BY <1>1, <1>2, <1>3, PTL DEF LogSpec

\* Besides, no row in sight of the list is left out of what is rendered, whatever the rows
\* turn out to measure and wherever the list is scrolled to.
THEOREM LogIsSound == LogSpec => []LogSound
<1>1. LogInit => LogInv
  BY LogAssumption DEF LogInit, LogInv, LogTypeOK, LogInOrder
<1>2. LogInv /\ [LogNext]_logVars => LogInv'
  BY LogStep
<1>3. LogInv => LogSound
  BY InSightIsRendered DEF LogInv, LogSound
<1>4. QED
  BY <1>1, <1>2, <1>3, PTL DEF LogSpec

(* The transfer panel of a window (TransferView).                          *)

Statuses == Moving \cup {Absent, "completed", "failed", "cancelled", "lost", "deleted"}
Queues == [TransferIds -> Statuses]
Purposes == {"show", "list", "add", "queue-more", "update", "remove", "reconnected", "requeue"}
ViewReplies == [for : Purposes, queue : Queues, task : Nat]

ViewTypeOK ==
    /\ queue \in Queues /\ shownQueue \in Queues /\ seen = shownQueue
    /\ replies \in Seq(ViewReplies) /\ refreshes \in [TransferIds -> Nat]

\* A task that is complete or deleted stays so.
Ended(s) == s \in {"completed", "deleted"}

\* What the answers on their way say of a task is never younger than what is true, the
\* later ones say no less than the earlier ones, and what one of them adds or changes goes on.
RepliesInOrder ==
    \A t \in TransferIds, k \in 1 .. Len(replies) :
        /\ Ended(replies[k].queue[t]) =>
             /\ Ended(queue[t])
             /\ \A m \in k .. Len(replies) : Ended(replies[m].queue[t])
        /\ replies[k].for \in {"add", "update"} /\ replies[k].task = t => ~Ended(replies[k].queue[t])

\* Once the end of a task was seen, it is shown as complete or not at all, and all answers say so.
EndIsSeen ==
    \A t \in TransferIds :
        refreshes[t] # 0 =>
            /\ refreshes[t] = 1 /\ shownQueue[t] \in {"completed", Absent} /\ Ended(queue[t])
            /\ \A k \in 1 .. Len(replies) : Ended(replies[k].queue[t])

ViewInv == ViewTypeOK /\ RepliesInOrder /\ EndIsSeen

\* An answer about the queue as it is now goes behind the others.
LEMMA ReplySent ==
    ASSUME ViewInv, NEW rest, NEW r \in ViewReplies,
           rest = replies \/ (replies # <<>> /\ rest = Tail(replies)),
           replies' = Append(rest, r), r.queue = queue', queue' \in Queues,
           \A t \in TransferIds : Ended(queue[t]) => Ended(queue'[t]),
           r.for \in {"add", "update"} => \A t \in TransferIds : r.task = t => ~Ended(queue'[t]),
           UNCHANGED <<shownQueue, seen, refreshes>>
    PROVE  ViewInv'
<1> DEFINE n == Len(rest)
           d == IF rest = replies THEN 0 ELSE 1
<1>1. /\ rest \in Seq(ViewReplies) /\ n \in Nat /\ d \in {0, 1} /\ Len(replies) = n + d
      /\ \A k \in 1 .. n : rest[k] = replies[k + d]
  <2>1. replies \in Seq(ViewReplies)
    BY DEF ViewInv, ViewTypeOK
  <2>2. CASE rest = replies
    BY <2>1, <2>2
  <2>3. CASE rest # replies
    <3>1. rest = Tail(replies) /\ replies # <<>> /\ d = 1
      BY <2>3
    <3>2. QED
      BY <2>1, <3>1
  <2>4. QED
    BY <2>2, <2>3
<1>2. /\ replies' \in Seq(ViewReplies) /\ Len(replies') = n + 1 /\ replies'[n + 1] = r
      /\ \A k \in 1 .. n : replies'[k] = replies[k + d]
  BY <1>1
<1> HIDE DEF n, d
<1>3. /\ \A k \in 1 .. n + 1 : k = n + 1 \/ k \in 1 .. n
      /\ \A k \in 1 .. n : k + d \in 1 .. Len(replies)
  BY <1>1
<1>4. ViewTypeOK'
  BY <1>2 DEF ViewInv, ViewTypeOK
<1>5. RepliesInOrder'
  <2>1. ASSUME NEW t \in TransferIds, NEW k \in 1 .. n, Ended(replies'[k].queue[t])
        PROVE  Ended(queue'[t]) /\ \A m \in k .. n + 1 : Ended(replies'[m].queue[t])
    <3>1. k + d \in 1 .. Len(replies) /\ Ended(replies[k + d].queue[t])
      BY <1>2, <1>3, <2>1
    <3>2. Ended(queue[t]) /\ \A m \in (k + d) .. Len(replies) : Ended(replies[m].queue[t])
      BY <3>1 DEF ViewInv, RepliesInOrder
    <3>3. \A m \in k .. n + 1 : m = n + 1 \/ (m \in 1 .. n /\ m + d \in (k + d) .. Len(replies))
      BY <1>1
    <3>4. QED
      BY <1>2, <3>2, <3>3
  <2>2. ASSUME NEW t \in TransferIds, NEW k \in 1 .. n,
               replies'[k].for \in {"add", "update"}, replies'[k].task = t
        PROVE  ~Ended(replies'[k].queue[t])
    BY <1>2, <1>3, <2>2 DEF ViewInv, RepliesInOrder
  <2>3. \A m \in n + 1 .. n + 1 : m = n + 1
    BY <1>1
  <2>4. QED
    BY <1>2, <1>3, <2>1, <2>2, <2>3 DEF RepliesInOrder
<1>6. ASSUME NEW t \in TransferIds, refreshes'[t] # 0
      PROVE  /\ refreshes'[t] = 1 /\ shownQueue'[t] \in {"completed", Absent} /\ Ended(queue'[t])
             /\ \A k \in 1 .. Len(replies') : Ended(replies'[k].queue[t])
  <2>1. /\ refreshes[t] = 1 /\ shownQueue[t] \in {"completed", Absent} /\ Ended(queue[t])
        /\ \A k \in 1 .. Len(replies) : Ended(replies[k].queue[t])
    BY <1>6 DEF ViewInv, EndIsSeen
  <2>2. QED
    BY <1>2, <1>3, <2>1
<1>7. QED
  BY <1>4, <1>5, <1>6 DEF ViewInv, EndIsSeen

\* The queue goes on and nothing is told.
LEMMA QueueGoesOn ==
    ASSUME ViewInv, queue' \in Queues,
           \A t \in TransferIds : Ended(queue[t]) => Ended(queue'[t]),
           UNCHANGED <<shownQueue, seen, refreshes>>,
           UNCHANGED replies \/ (replies # <<>> /\ replies' = Tail(replies))
    PROVE  ViewInv'
<1> DEFINE d == IF replies' = replies THEN 0 ELSE 1
           n == Len(replies')
<1>1. /\ replies' \in Seq(ViewReplies) /\ n \in Nat /\ d \in {0, 1} /\ Len(replies) = n + d
      /\ \A k \in 1 .. n : replies'[k] = replies[k + d]
  BY DEF ViewInv, ViewTypeOK
<1> HIDE DEF n, d
<1>2. \A k \in 1 .. n : k + d \in 1 .. Len(replies)
  BY <1>1
<1>3. ViewTypeOK'
  BY <1>1 DEF ViewInv, ViewTypeOK
<1>4. RepliesInOrder'
  <2>1. ASSUME NEW t \in TransferIds, NEW k \in 1 .. n, Ended(replies'[k].queue[t])
        PROVE  Ended(queue'[t]) /\ \A m \in k .. n : Ended(replies'[m].queue[t])
    <3>1. k + d \in 1 .. Len(replies) /\ Ended(replies[k + d].queue[t])
      BY <1>1, <1>2, <2>1
    <3>2. Ended(queue[t]) /\ \A m \in (k + d) .. Len(replies) : Ended(replies[m].queue[t])
      BY <3>1 DEF ViewInv, RepliesInOrder
    <3>3. \A m \in k .. n : m \in 1 .. n /\ m + d \in (k + d) .. Len(replies)
      BY <1>1
    <3>4. QED
      BY <1>1, <3>2, <3>3
  <2>2. QED
    BY <1>1, <1>2, <2>1 DEF ViewInv, RepliesInOrder, n
<1>5. EndIsSeen'
  BY <1>1, <1>2 DEF ViewInv, EndIsSeen, n
<1>6. QED
  BY <1>3, <1>4, <1>5 DEF ViewInv

\* What the oldest answer makes the window show of a task is complete only when it was
\* so there before or the answer says so.
LEMMA ShownFrom ==
    ASSUME ViewInv, ShowReply
    PROVE  /\ replies # <<>> /\ shownQueue' \in Queues
           /\ \A t \in TransferIds :
                /\ Ended(Oldest.queue[t]) /\ shownQueue[t] \in {"completed", Absent}
                     => shownQueue'[t] \in {"completed", Absent}
                /\ shownQueue'[t] = "completed" /\ shownQueue[t] # "completed" => Ended(Oldest.queue[t])
<1>1. /\ replies # <<>> /\ Oldest \in ViewReplies /\ Oldest = replies[1] /\ 1 \in 1 .. Len(replies)
      /\ shownQueue \in Queues
  BY DEF ViewInv, ViewTypeOK, ShowReply, Oldest
<1>2. Oldest.for \in {"show", "update", "remove", "add"} /\ Oldest.queue \in Queues
  BY <1>1 DEF ShowReply, ViewReplies
<1>3. \A t \in TransferIds : Oldest.for \in {"add", "update"} /\ Oldest.task = t => ~Ended(Oldest.queue[t])
  BY <1>1 DEF ViewInv, RepliesInOrder
<1>4. CASE Oldest.for = "show"
  <2>1. shownQueue' = [t \in TransferIds |->
                          IF Oldest.queue[t] = "deleted" THEN Absent ELSE Oldest.queue[t]]
    BY <1>4 DEF ShowReply, ShowQueue
  <2>2. shownQueue' \in Queues
    BY <1>1, <1>2, <2>1 DEF Queues, Statuses, Absent, Moving
  <2>3. QED
    BY <1>1, <1>2, <2>1, <2>2 DEF Queues, Absent, Ended
<1>5. CASE Oldest.for = "update"
  <2>1. shownQueue' = IF shownQueue[Oldest.task] = Absent THEN shownQueue
                      ELSE [shownQueue EXCEPT ![Oldest.task] = Oldest.queue[Oldest.task]]
    BY <1>5 DEF ShowReply, ShowQueue
  <2>2. shownQueue' \in Queues
    BY <1>1, <1>2, <1>3, <1>5, <2>1 DEF Queues, Statuses, Absent, Moving
  <2>3. QED
    BY <1>1, <1>2, <1>3, <1>5, <2>1, <2>2 DEF Queues, Absent, Ended
<1>6. CASE Oldest.for = "remove"
  <2>1. shownQueue' = [shownQueue EXCEPT ![Oldest.task] = Absent]
    BY <1>6 DEF ShowReply, ShowQueue
  <2>2. shownQueue' \in Queues
    BY <1>1, <1>2, <2>1 DEF Queues, Statuses, Absent, Moving
  <2>3. QED
    BY <1>1, <1>2, <2>1, <2>2 DEF Queues, Absent, Ended
<1>7. CASE Oldest.for = "add"
  <2>1. shownQueue' = [shownQueue EXCEPT ![Oldest.task] = "pending"]
    BY <1>7 DEF ShowReply, ShowQueue
  <2>2. shownQueue' \in Queues
    BY <1>1, <1>2, <1>3, <1>7, <2>1 DEF Queues, Statuses, Absent, Moving
  <2>3. QED
    BY <1>1, <1>2, <1>3, <1>7, <2>1, <2>2 DEF Queues, Absent, Ended
<1>8. QED
  BY <1>2, <1>4, <1>5, <1>6, <1>7

\* The window shows an answer: a task whose end it shows for the first time is counted.
LEMMA ReplyShown ==
    ASSUME ViewInv, ShowReply
    PROVE  ViewInv'
<1> DEFINE n == Len(replies')
<1>1. /\ replies # <<>> /\ replies' = Tail(replies) /\ UNCHANGED queue /\ replies \in Seq(ViewReplies)
      /\ seen' = shownQueue'
      /\ refreshes' = [t \in TransferIds |->
            refreshes[t] + IF t \in JustCompleted(shownQueue') THEN 1 ELSE 0]
  BY DEF ShowReply, ShowQueue, Remembered, ViewInv, ViewTypeOK
<1>2. /\ replies' \in Seq(ViewReplies) /\ n \in Nat /\ Len(replies) = n + 1 /\ Oldest = replies[1]
      /\ \A k \in 1 .. n : replies'[k] = replies[k + 1]
  BY <1>1 DEF Oldest
<1> HIDE DEF n
<1>3. (\A k \in 1 .. n : k + 1 \in 1 .. Len(replies)) /\ 1 \in 1 .. Len(replies)
  BY <1>2
<1>4. ViewTypeOK'
  <2>1. refreshes' \in [TransferIds -> Nat]
    BY <1>1 DEF ViewInv, ViewTypeOK
  <2>2. QED
    BY <1>1, <1>2, <2>1, ShownFrom DEF ViewInv, ViewTypeOK
<1>5. RepliesInOrder'
  <2>1. ASSUME NEW t \in TransferIds, NEW k \in 1 .. n, Ended(replies'[k].queue[t])
        PROVE  Ended(queue'[t]) /\ \A m \in k .. n : Ended(replies'[m].queue[t])
    <3>1. k + 1 \in 1 .. Len(replies) /\ Ended(replies[k + 1].queue[t])
      BY <1>2, <1>3, <2>1
    <3>2. Ended(queue[t]) /\ \A m \in (k + 1) .. Len(replies) : Ended(replies[m].queue[t])
      BY <3>1 DEF ViewInv, RepliesInOrder
    <3>3. \A m \in k .. n : m \in 1 .. n /\ m + 1 \in (k + 1) .. Len(replies)
      BY <1>2
    <3>4. QED
      BY <1>1, <1>2, <3>2, <3>3
  <2>2. QED
    BY <1>2, <1>3, <2>1 DEF ViewInv, RepliesInOrder, n
<1>6. ASSUME NEW t \in TransferIds, refreshes'[t] # 0
      PROVE  /\ refreshes'[t] = 1 /\ shownQueue'[t] \in {"completed", Absent} /\ Ended(queue'[t])
             /\ \A k \in 1 .. n : Ended(replies'[k].queue[t])
  <2>1. refreshes[t] \in Nat /\ shownQueue = seen
    BY DEF ViewInv, ViewTypeOK
  <2>2. CASE refreshes[t] # 0
    <3>1. /\ refreshes[t] = 1 /\ shownQueue[t] \in {"completed", Absent} /\ Ended(queue[t])
          /\ \A k \in 1 .. Len(replies) : Ended(replies[k].queue[t])
      BY <2>2 DEF ViewInv, EndIsSeen
    <3>2. t \notin JustCompleted(shownQueue')
      BY <2>1, <3>1 DEF JustCompleted
    <3>3. shownQueue'[t] \in {"completed", Absent}
      BY <1>2, <1>3, <3>1, ShownFrom
    <3>4. QED
      BY <1>1, <1>2, <1>3, <2>1, <3>1, <3>2, <3>3
  <2>3. CASE refreshes[t] = 0
    <3>1. t \in JustCompleted(shownQueue') /\ refreshes'[t] = 1
      BY <1>1, <1>6, <2>1, <2>3
    <3>2. shownQueue'[t] = "completed" /\ shownQueue[t] # "completed"
      BY <2>1, <3>1 DEF JustCompleted
    <3>3. Ended(replies[1].queue[t])
      BY <1>2, <3>2, ShownFrom
    <3>4. Ended(queue[t]) /\ \A m \in 1 .. Len(replies) : Ended(replies[m].queue[t])
      BY <1>3, <3>3 DEF ViewInv, RepliesInOrder
    <3>5. QED
      BY <1>1, <1>2, <1>3, <3>1, <3>2, <3>4
  <2>4. QED
    BY <2>2, <2>3
<1>7. QED
  BY <1>4, <1>5, <1>6 DEF ViewInv, EndIsSeen, n

\* The next task to be queued is the first that was not.
LEMMA NextIsAbsent ==
    ASSUME \E t \in TransferIds : queue[t] = Absent
    PROVE  NextId \in TransferIds /\ queue[NextId] = Absent
<1> DEFINE T == {t \in TransferIds : queue[t] = Absent}
<1>1. T \subseteq Nat /\ T # {} /\ TransferIds \subseteq Nat
  BY ViewAssumption DEF TransferIds
<1>2. PICK n \in T : \A m \in T : n <= m
  BY <1>1, LeastNumber
<1>3. \A u \in TransferIds : u < n => queue[u] # Absent
  <2>1. ASSUME NEW u \in TransferIds, u < n, queue[u] = Absent PROVE FALSE
    BY <1>1, <1>2, <2>1
  <2>2. QED
    BY <2>1
<1>4. \E t \in TransferIds : queue[t] = Absent /\ \A u \in TransferIds : u < t => queue[u] # Absent
  BY <1>2, <1>3
<1>5. QED
  BY <1>4 DEF NextId

\* A task that is queued was not there, so that no end is taken back.
LEMMA QueuedAnew ==
    ASSUME ViewInv, \E t \in TransferIds : queue[t] = Absent,
           queue' = [queue EXCEPT ![NextId] = "pending"]
    PROVE  /\ queue' \in Queues /\ NextId \in Nat /\ ~Ended(queue'[NextId])
           /\ \A t \in TransferIds : Ended(queue[t]) => Ended(queue'[t])
<1>1. NextId \in TransferIds /\ queue[NextId] = Absent /\ NextId \in Nat
  BY NextIsAbsent, ViewAssumption DEF TransferIds
<1>2. queue \in Queues
  BY DEF ViewInv, ViewTypeOK
<1>3. queue' \in Queues
  BY <1>1, <1>2 DEF Queues, Statuses, Moving
<1>4. QED
  BY <1>1, <1>2, <1>3 DEF Queues, Ended, Absent

\* A task that has not ended is changed, or one is deleted.
LEMMA OneTaskChanges ==
    ASSUME ViewInv, NEW t \in TransferIds, NEW s \in Statuses, ~Ended(queue[t]) \/ Ended(s),
           queue' = [queue EXCEPT ![t] = s]
    PROVE  /\ queue' \in Queues /\ t \in Nat /\ queue'[t] = s
           /\ \A u \in TransferIds : Ended(queue[u]) => Ended(queue'[u])
<1>1. queue \in Queues /\ t \in Nat
  BY ViewAssumption DEF ViewInv, ViewTypeOK, TransferIds
<1>2. QED
  BY <1>1 DEF Queues

\* The commands of the user, the timer and the worker of the backend.
LEMMA CommandsKeep ==
    ASSUME ViewInv,
           Poll \/ Enqueue \/ DownloadDirectory \/ UpdateTask \/ DeleteTask \/ ResolveConflict \/ RetryLost \/ Work
    PROVE  ViewInv'
<1>1. /\ queue \in Queues /\ TransferIds \subseteq Nat
      /\ \A s \in Queues, t \in TransferIds : s[t] \in Statuses
  BY ViewAssumption DEF ViewInv, ViewTypeOK, TransferIds, Queues
<1>2. CASE Poll
  <2>1. ListReply \in ViewReplies /\ ListReply.queue = queue' /\ ListReply.for = "show"
    BY <1>1, <1>2 DEF Poll, ListReply, ViewReplies, Purposes
  <2>2. QED
    BY <1>1, <1>2, <2>1, ReplySent DEF Poll, Reply
<1>3. ASSUME NEW for \in {"list", "add", "queue-more"}, Queued(for), UNCHANGED <<shownQueue, seen, refreshes>>
      PROVE  ViewInv'
  <2> DEFINE r == [for |-> for, queue |-> queue', task |-> NextId]
  <2>1. /\ queue' \in Queues /\ NextId \in Nat /\ ~Ended(queue'[NextId])
        /\ \A t \in TransferIds : Ended(queue[t]) => Ended(queue'[t])
    BY <1>3, QueuedAnew DEF Queued
  <2>2. r \in ViewReplies /\ r.queue = queue' /\ r.task = NextId
    BY <2>1 DEF ViewReplies, Purposes
  <2>3. replies' = Append(replies, r)
    BY <1>3 DEF Queued, Reply
  <2> HIDE DEF r
  <2>4. QED
    BY <1>3, <2>1, <2>2, <2>3, ReplySent
<1>4. CASE Enqueue \/ DownloadDirectory
  BY <1>3, <1>4 DEF Enqueue, DownloadDirectory
<1>5. ASSUME NEW t \in TransferIds, NEW s \in Statuses, ~Ended(queue[t]) \/ Ended(s),
             queue' = [queue EXCEPT ![t] = s],
             NEW for \in {"update", "remove"}, for = "update" => ~Ended(s),
             Reply([for |-> for, queue |-> queue', task |-> t]), UNCHANGED <<shownQueue, seen, refreshes>>
      PROVE  ViewInv'
  <2> DEFINE r == [for |-> for, queue |-> queue', task |-> t]
  <2>1. /\ queue' \in Queues /\ t \in Nat /\ queue'[t] = s
        /\ \A u \in TransferIds : Ended(queue[u]) => Ended(queue'[u])
    BY <1>5, OneTaskChanges
  <2>2. r \in ViewReplies /\ r.queue = queue' /\ r.task = t /\ r.for = for
    BY <2>1 DEF ViewReplies, Purposes
  <2>3. replies' = Append(replies, r)
    BY <1>5 DEF Reply
  <2>4. r.for \in {"add", "update"} => \A u \in TransferIds : r.task = u => ~Ended(queue'[u])
    BY <1>5, <2>1, <2>2
  <2> HIDE DEF r
  <2>5. QED
    BY <1>5, <2>1, <2>2, <2>3, <2>4, ReplySent
<1>6. CASE UpdateTask
  <2>1. PICK t \in TransferIds : \E s \in Acted(queue[t]) :
          /\ queue' = [queue EXCEPT ![t] = s]
          /\ Reply([for |-> "update", queue |-> queue', task |-> t])
    BY <1>6 DEF UpdateTask
  <2>2. PICK s \in Acted(queue[t]) :
          /\ queue' = [queue EXCEPT ![t] = s]
          /\ Reply([for |-> "update", queue |-> queue', task |-> t])
    BY <2>1
  <2>3. s \in Statuses /\ ~Ended(s) /\ ~Ended(queue[t])
    BY <1>1, <2>2 DEF Acted, Statuses, Moving, Absent, Ended
  <2>4. QED
    BY <1>5, <1>6, <2>2, <2>3 DEF UpdateTask
<1>7. CASE DeleteTask
  <2>1. PICK t \in TransferIds :
          /\ queue' = [queue EXCEPT ![t] = "deleted"]
          /\ Reply([for |-> "remove", queue |-> queue', task |-> t])
    BY <1>7 DEF DeleteTask
  <2>2. "deleted" \in Statuses /\ Ended("deleted")
    BY DEF Statuses, Ended
  <2>3. QED
    BY <1>5, <1>7, <2>1, <2>2 DEF DeleteTask
<1>8. CASE ResolveConflict
  <2>1. PICK t \in TransferIds :
          /\ queue[t] = "waiting-conflict" /\ queue' = [queue EXCEPT ![t] = "running"]
          /\ Reply([for |-> "update", queue |-> queue', task |-> t])
    BY <1>8 DEF ResolveConflict
  <2>2. "running" \in Statuses /\ ~Ended("running") /\ ~Ended(queue[t])
    BY <2>1 DEF Statuses, Moving, Ended
  <2>3. QED
    BY <1>5, <1>8, <2>1, <2>2 DEF ResolveConflict
<1>9. CASE RetryLost
  <2>1. PICK t \in TransferIds : Reply([for |-> "reconnected", queue |-> queue', task |-> t])
    BY <1>9 DEF RetryLost
  <2> DEFINE r == [for |-> "reconnected", queue |-> queue', task |-> t]
  <2>2. queue' = queue /\ UNCHANGED <<shownQueue, seen, refreshes>> /\ replies' = Append(replies, r)
    BY <1>9, <2>1 DEF RetryLost, Reply
  <2>3. r \in ViewReplies /\ r.queue = queue' /\ r.for = "reconnected"
    BY <1>1, <2>2 DEF ViewReplies, Purposes
  <2> HIDE DEF r
  <2>4. QED
    BY <1>1, <2>2, <2>3, ReplySent
<1>10. CASE Work
  <2>1. PICK t \in TransferIds, s \in {"running", "completed", "failed", "lost", "waiting-conflict"} :
          queue[t] \in {"pending", "running"} /\ queue' = [queue EXCEPT ![t] = s]
    BY <1>10 DEF Work
  <2>2. s \in Statuses /\ ~Ended(queue[t])
    BY <2>1 DEF Statuses, Moving, Ended
  <2>3. queue' \in Queues /\ \A u \in TransferIds : Ended(queue[u]) => Ended(queue'[u])
    BY <2>1, <2>2, OneTaskChanges
  <2>4. QED
    BY <1>10, <2>3, QueueGoesOn DEF Work
<1>11. QED
  BY <1>2, <1>4, <1>6, <1>7, <1>8, <1>9, <1>10

\* A handler whose call was answered makes the next one, or ends.
LEMMA HandlersKeep ==
    ASSUME ViewInv, ReadAfter \/ QueueMore \/ ForgetLost \/ RequeueLost
    PROVE  ViewInv'
<1>1. /\ queue \in Queues /\ TransferIds \subseteq Nat /\ replies # <<>> /\ Oldest.task \in Nat
      /\ UNCHANGED <<shownQueue, seen, refreshes>>
  <2>1. replies # <<>> /\ UNCHANGED <<shownQueue, seen, refreshes>>
    BY DEF ReadAfter, QueueMore, ForgetLost, RequeueLost
  <2>2. replies \in Seq(ViewReplies) /\ queue \in Queues
    BY DEF ViewInv, ViewTypeOK
  <2>3. Oldest \in ViewReplies
    BY <2>1, <2>2 DEF Oldest
  <2>4. QED
    BY <2>1, <2>2, <2>3, ViewAssumption DEF ViewReplies, TransferIds
<1>2. ASSUME queue' = queue \/ queue' \in Queues,
             \A t \in TransferIds : Ended(queue[t]) => Ended(queue'[t]),
             NEW for \in {"show", "list", "requeue"}, NEW task \in Nat,
             Answer([for |-> for, queue |-> queue', task |-> task])
      PROVE  ViewInv'
  <2> DEFINE r == [for |-> for, queue |-> queue', task |-> task]
  <2>1. queue' \in Queues /\ r \in ViewReplies /\ r.queue = queue' /\ r.for = for
    BY <1>1, <1>2 DEF ViewReplies, Purposes
  <2>2. replies' = Append(Tail(replies), r)
    BY <1>2 DEF Answer
  <2> HIDE DEF r
  <2>3. QED
    BY <1>1, <1>2, <2>1, <2>2, ReplySent
<1>3. CASE UNCHANGED queue /\ replies' = Tail(replies)
  BY <1>1, <1>3, QueueGoesOn
<1>4. CASE ReadAfter
  BY <1>1, <1>2, <1>4 DEF ReadAfter, ListReply
<1>5. CASE /\ \E t \in TransferIds : queue[t] = Absent
           /\ queue' = [queue EXCEPT ![NextId] = "pending"]
           /\ Answer([for |-> "list", queue |-> queue', task |-> NextId])
  <2>1. /\ queue' \in Queues /\ NextId \in Nat
        /\ \A t \in TransferIds : Ended(queue[t]) => Ended(queue'[t])
    BY <1>5, QueuedAnew
  <2>2. QED
    BY <1>2, <1>5, <2>1
<1>6. CASE QueueMore \/ RequeueLost
  BY <1>3, <1>5, <1>6 DEF QueueMore, RequeueLost
<1>7. CASE ForgetLost
  <2>1. CASE UNCHANGED queue /\ replies' = Tail(replies)
    BY <1>3, <2>1
  <2>2. CASE /\ queue' = IF queue[Oldest.task] = "lost" THEN [queue EXCEPT ![Oldest.task] = "deleted"] ELSE queue
             /\ Answer([for |-> "requeue", queue |-> queue', task |-> Oldest.task])
    <3>1. queue' \in Queues /\ \A t \in TransferIds : Ended(queue[t]) => Ended(queue'[t])
      BY <1>1, <2>2 DEF Queues, Statuses, Ended
    <3>2. QED
      BY <1>1, <1>2, <2>2, <3>1
  <2>3. QED
    BY <1>7, <2>1, <2>2 DEF ForgetLost
<1>8. QED
  BY <1>4, <1>6, <1>7

\* The end of a transfer makes the listing be read again at most once, however many answers
\* are on their way and whatever the user does with the task.
THEOREM EndsAreSeenOnce == ViewSpec => []RefreshedOnce
<1>1. ViewInit => ViewInv
  <2> SUFFICES ASSUME ViewInit PROVE ViewInv
    OBVIOUS
  <2>1. queue \in Queues /\ shownQueue = queue /\ seen = queue /\ replies = <<>>
    BY DEF ViewInit, Queues, Statuses
  <2>2. refreshes \in [TransferIds -> Nat] /\ \A t \in TransferIds : refreshes[t] = 0
    BY DEF ViewInit
  <2>3. ViewTypeOK /\ RepliesInOrder /\ EndIsSeen
    BY <2>1, <2>2 DEF ViewTypeOK, RepliesInOrder, EndIsSeen
  <2>4. QED
    BY <2>3 DEF ViewInv
<1>2. ViewInv /\ [ViewNext]_viewVars => ViewInv'
  <2>1. ASSUME ViewInv, UNCHANGED viewVars PROVE ViewInv'
    BY <2>1 DEF viewVars, ViewInv, ViewTypeOK, RepliesInOrder, EndIsSeen
  <2>2. QED
    BY <2>1, CommandsKeep, HandlersKeep, ReplyShown DEF ViewNext, Arrives
<1>3. ViewInv => RefreshedOnce
  BY DEF ViewInv, ViewTypeOK, EndIsSeen, RefreshedOnce
<1>4. QED
  BY <1>1, <1>2, <1>3, PTL DEF ViewSpec

(* The network scan (NetworkScan).                                         *)

ScanEvents == [scan : 1 .. MaxScans, kind : {"progress", "completed", "cancelled"}, host : Nat, scanned : Nat]
ScanStates == {"unused", "asked", "refused", "runs", "completed", "cancelled", "told"}
ScanRecords == [at : ScanStates, hosts : Nat, done : Nat, cancelled : BOOLEAN, usable : BOOLEAN]

ScanTypeOK ==
    /\ network \in Networks \cup {NoNetwork} /\ scans \in [1 .. MaxScans -> ScanRecords]
    /\ wire \in Seq(ScanEvents) /\ kept \in Seq(ScanEvents)
    /\ active \in 0 .. MaxScans /\ starting \in 0 .. MaxScans /\ scanSession \in 0 .. MaxScans
    /\ awaited \subseteq 1 .. MaxScans /\ overtaken \in BOOLEAN /\ scanned \in Nat

\* A scan that is unused or asked for has not begun, and one that may be used has hosts.
ScansOK ==
    \A n \in 1 .. MaxScans :
        /\ scans[n].at \in {"unused", "asked", "refused"} => scans[n].done = 0
        /\ scans[n].usable => scans[n].hosts # 0 /\ scans[n].at # "refused"

\* What an event says is true: a host was reached, or the scan was at its end.
SaysTrue(e) ==
    /\ e.kind = "progress" => e.host = e.scanned /\ e.host \in 1 .. scans[e.scan].done
    /\ e.kind # "progress" => e.scanned = scans[e.scan].done /\ scans[e.scan].at = "told"

\* Of two events of a scan the first is no end, and its host comes first.
Follows(e, f) ==
    e.scan = f.scan => e.kind = "progress" /\ (f.kind = "progress" => e.host < f.host)

InTurn(q) ==
    /\ \A k \in 1 .. Len(q) : SaysTrue(q[k])
    /\ \A j, k \in 1 .. Len(q) : j < k => Follows(q[j], q[k])

Finds(e, n, h) == e.scan = n /\ e.kind = "progress" /\ e.host = h

\* Unless starts overtook each other, the start that is awaited is the one the hook knows of, ...
AwaitedInv == ~overtaken => awaited \subseteq {starting}

\* ... and while it is, all its events were kept or are on their way.
StartInv ==
    starting # 0 /\ ~overtaken =>
        /\ active = 0 /\ scanSession = 0 /\ InTurn(kept)
        /\ \A j \in 1 .. Len(kept), k \in 1 .. Len(wire) : Follows(kept[j], wire[k])
        /\ \A h \in 1 .. scans[starting].done :
              \/ \E k \in 1 .. Len(kept) : Finds(kept[k], starting, h)
              \/ \E k \in 1 .. Len(wire) : Finds(wire[k], starting, h)

\* The hosts of the scan that are not shown yet are on their way.
ActiveInv ==
    active # 0 /\ ~overtaken =>
        /\ active = scanSession /\ starting = 0 /\ status \in Busy
        /\ \A k \in 1 .. Len(wire) :
              wire[k].scan = active /\ wire[k].kind = "progress" => wire[k].host > scanned
        /\ \A h \in scanned + 1 .. scans[active].done :
              \E k \in 1 .. Len(wire) : Finds(wire[k], active, h)
        /\ scanned <= scans[active].done

ScanInv ==
    /\ ScanTypeOK /\ ScansOK /\ InTurn(wire)
    /\ AwaitedInv /\ StartInv /\ ActiveInv /\ ResultsOfThisScan

\* A rising list of all numbers up to m is the list of these numbers.
LEMMA RisingOnto ==
    ASSUME NEW m \in Nat, NEW q \in Seq(Nat),
           \A i \in 1 .. Len(q) : q[i] \in 1 .. m,
           \A h \in 1 .. m : \E i \in 1 .. Len(q) : q[i] = h,
           \A i, j \in 1 .. Len(q) : i < j => q[i] < q[j]
    PROVE  Len(q) = m /\ \A i \in 1 .. m : q[i] = i
<1> DEFINE L == Len(q)
           T == {n \in 0 .. L : \A i \in 1 .. n : q[i] = i}
<1>1. L \in Nat /\ 0 \in T
  OBVIOUS
<1>2. ASSUME NEW n \in 0 .. L, n \in T, n < L PROVE n + 1 \in T
  <2>1. n + 1 \in 1 .. L /\ \A i \in 1 .. n : q[i] = i
    BY <1>1, <1>2
  <2>2. q[n + 1] > n
    <3>1. CASE n = 0
      BY <2>1, <3>1
    <3>2. CASE n # 0
      <4>1. n \in 1 .. n /\ n \in 1 .. L /\ n < n + 1
        BY <1>1, <3>2
      <4>2. QED
        BY <2>1, <4>1
    <3>3. QED
      BY <3>1, <3>2
  <2>3. n + 1 \in 1 .. m
    BY <2>1, <2>2
  <2>4. PICK j \in 1 .. L : q[j] = n + 1
    BY <2>3
  <2>5. j = n + 1
    <3>1. CASE j <= n
      BY <1>1, <2>1, <2>4, <3>1
    <3>2. CASE j > n + 1
      BY <2>1, <2>2, <2>3, <2>4, <3>2
    <3>3. QED
      BY <1>1, <3>1, <3>2
  <2>6. \A i \in 1 .. n + 1 : q[i] = i
    BY <2>1, <2>4, <2>5
  <2>7. QED
    BY <1>1, <2>1, <2>6
<1> HIDE DEF T, L
<1>3. L \in T
  <2>1. 0 .. L \subseteq T
    BY <1>1, <1>2, UpToNumber
  <2>2. QED
    BY <1>1, <2>1
<1>4. \A i \in 1 .. L : q[i] = i
  BY <1>3 DEF T
<1>5. L = m
  <2>1. CASE L > m
    <3>1. L \in 1 .. L /\ q[L] \in 1 .. m
      BY <1>1, <2>1 DEF L
    <3>2. QED
      BY <1>1, <1>4, <2>1, <3>1
  <2>2. CASE L < m
    <3>1. L + 1 \in 1 .. m
      BY <1>1, <2>2
    <3>2. PICK i \in 1 .. L : q[i] = L + 1
      BY <3>1 DEF L
    <3>3. QED
      BY <1>1, <1>4, <3>2
  <2>3. QED
    BY <1>1, <2>1, <2>2
<1>6. QED
  BY <1>4, <1>5 DEF L

\* Of a list of one element that one is kept or none.
LEMMA OneKept ==
    ASSUME NEW S, NEW e \in S, NEW P
    PROVE  /\ 1 \in P => Kept(<<e>>, P) = <<e>>
           /\ 1 \notin P => Kept(<<e>>, P) = <<>>
<1> DEFINE s == <<e>>
           q == Kept(s, P)
<1>1. s \in Seq(S) /\ Len(s) = 1 /\ s[1] = e /\ 1 .. Len(s) = {1}
  OBVIOUS
<1> HIDE DEF s
<1>2. q \in Seq(S) /\ IsPartOf(q, s, P)
  BY <1>1, KeptElements
<1> HIDE DEF q
<1>3. CASE 1 \in P
  <2>1. PICK i \in 1 .. Len(q) : q[i] = e
    BY <1>1, <1>2, <1>3 DEF IsPartOf
  <2>2. \A a, b \in 1 .. Len(q) : ~(a < b)
    BY <1>1, <1>2 DEF IsPartOf
  <2>3. Len(q) = 1 /\ q[1] = e
    <3>1. Len(q) \in Nat /\ ~(1 \in 1 .. Len(q) /\ Len(q) \in 1 .. Len(q) /\ 1 < Len(q))
      BY <1>2, <2>2
    <3>2. QED
      BY <2>1, <3>1
  <2>4. QED
    BY <1>2, <1>3, <2>3 DEF q, s
<1>4. CASE 1 \notin P
  <2>1. \A i \in 1 .. Len(q) : FALSE
    BY <1>1, <1>2, <1>4 DEF IsPartOf
  <2>2. q = <<>>
    BY <1>2, <2>1
  <2>3. QED
    BY <1>4, <2>2 DEF q, s
<1>5. QED
  BY <1>3, <1>4

\* The hosts of a scan, as the page lists them.
LEMMA HostsAreAList ==
    ASSUME NEW n \in Nat, NEW a \in 0 .. MaxScans
    PROVE  /\ [i \in 1 .. n |-> <<a, i>>] \in Seq((0 .. MaxScans) \X Nat)
           /\ Len([i \in 1 .. n |-> <<a, i>>]) = n
  OBVIOUS

\* One more host makes the list of one host more.
LEMMA OneMoreHost ==
    ASSUME NEW n \in Nat, NEW a \in 0 .. MaxScans
    PROVE  [i \in 1 .. n |-> <<a, i>>] \o <<<<a, n + 1>>>> = [i \in 1 .. n + 1 |-> <<a, i>>]
<1> DEFINE S == (0 .. MaxScans) \X Nat
           f == [i \in 1 .. n |-> <<a, i>>]
           g == [i \in 1 .. n + 1 |-> <<a, i>>]
           h == <<<<a, n + 1>>>>
<1>1. f \in Seq(S) /\ Len(f) = n /\ g \in Seq(S) /\ Len(g) = n + 1
  BY HostsAreAList
<1>2. \A i \in 1 .. n : f[i] = g[i]
  OBVIOUS
<1>3. h \in Seq(S) /\ Len(h) = 1 /\ h[1] = g[n + 1]
  OBVIOUS
<1> HIDE DEF S, f, g, h
<1>4. f \o h \in Seq(S) /\ Len(f \o h) = n + 1
  <2>1. f \in Seq(S) /\ h \in Seq(S)
    BY <1>1, <1>3
  <2>2. f \o h \in Seq(S) /\ Len(f \o h) = Len(f) + Len(h)
    BY <2>1, ConcatProperties, Zenon
  <2>3. QED
    BY <1>1, <1>3, <2>2
<1>5. ASSUME NEW i \in 1 .. n + 1 PROVE (f \o h)[i] = g[i]
  <2>0. i \in 1 .. Len(f) + Len(h)
        /\ (f \o h)[i] = IF i <= Len(f) THEN f[i] ELSE h[i - Len(f)]
    BY <1>1, <1>3, ConcatProperties
  <2>1. CASE i \in 1 .. n
    BY <1>1, <1>2, <1>3, <2>0, <2>1
  <2>2. CASE i = n + 1
    BY <1>1, <1>3, <2>0, <2>2
  <2>3. i \in 1 .. n \/ i = n + 1
    OBVIOUS
  <2>4. QED
    BY <2>1, <2>2, <2>3
<1>6. f \o h = g
  BY <1>1, <1>4, <1>5, SeqEqual
<1>7. QED
  BY <1>6 DEF f, g, h


\* The hook rests while a scan is registered, forgotten or cancelled, or nothing of it changes.
LEMMA HookRests ==
    ASSUME ScanInv, scans' \in [1 .. MaxScans -> ScanRecords], ScansOK',
           network' \in Networks \cup {NoNetwork},
           \A n \in 1 .. MaxScans :
              /\ scans'[n].done = scans[n].done
              /\ scans[n].at = "told" => scans'[n].at = "told",
           starting' \in {starting, 0}, active' \in {active, 0},
           active' # 0 /\ ~overtaken => status' \in Busy,
           awaited' \subseteq awaited, ~overtaken => awaited' \subseteq {starting'},
           UNCHANGED <<wire, overtaken, kept, scanSession, results, scanned>>
    PROVE  ScanInv'
<1>1. /\ ScanTypeOK /\ InTurn(wire) /\ StartInv /\ ActiveInv /\ ResultsOfThisScan
      /\ active \in 0 .. MaxScans /\ starting \in 0 .. MaxScans /\ MaxScans \in Nat
  BY NetworkScanAssumption DEF ScanInv, ScanTypeOK
<1>2. ScanTypeOK'
  BY <1>1 DEF ScanTypeOK
<1>3. \A n \in 1 .. MaxScans : scans'[n].done \in Nat /\ scans[n].done <= scans'[n].done
  BY <1>1 DEF ScanTypeOK, ScanRecords
<1>4. InTurn(wire)'
  <2>1. \A k \in 1 .. Len(wire) : wire[k] \in ScanEvents /\ SaysTrue(wire[k])
    BY <1>1 DEF ScanTypeOK, InTurn
  <2>2. ASSUME NEW k \in 1 .. Len(wire) PROVE SaysTrue(wire[k])'
    BY <1>3, <2>1 DEF SaysTrue, ScanEvents
  <2>3. QED
    BY <1>1, <2>2 DEF InTurn, Follows
<1>5. StartInv'
  <2>1. CASE starting' = 0 \/ overtaken
    BY <2>1 DEF StartInv
  <2>2. CASE starting' # 0 /\ ~overtaken
    <3>1. /\ starting' = starting /\ active = 0 /\ scanSession = 0 /\ InTurn(kept)
          /\ \A j \in 1 .. Len(kept), k \in 1 .. Len(wire) : Follows(kept[j], wire[k])
          /\ \A h \in 1 .. scans[starting].done :
                \/ \E k \in 1 .. Len(kept) : Finds(kept[k], starting, h)
                \/ \E k \in 1 .. Len(wire) : Finds(wire[k], starting, h)
      BY <1>1, <2>2 DEF StartInv
    <3>2. \A k \in 1 .. Len(kept) : kept[k] \in ScanEvents /\ SaysTrue(kept[k])
      BY <1>1, <3>1 DEF ScanTypeOK, InTurn
    <3>3. ASSUME NEW k \in 1 .. Len(kept) PROVE SaysTrue(kept[k])'
      BY <1>3, <3>2 DEF SaysTrue, ScanEvents
    <3>4. InTurn(kept)'
      BY <3>1, <3>3 DEF InTurn, Follows
    <3>5. starting \in 1 .. MaxScans /\ scans'[starting].done = scans[starting].done
      BY <1>1, <2>2, <3>1
    <3>6. QED
      BY <3>1, <3>4, <3>5 DEF StartInv, Follows, Finds
  <2>3. QED
    BY <2>1, <2>2
<1>6. ActiveInv'
  <2>1. CASE active' = 0 \/ overtaken
    BY <2>1 DEF ActiveInv
  <2>2. CASE active' # 0 /\ ~overtaken
    <3>1. active' = active /\ active \in 1 .. MaxScans /\ starting' = 0
      BY <1>1, <2>2 DEF ActiveInv
    <3>2. QED
      BY <1>1, <2>2, <3>1 DEF ActiveInv, Finds
  <2>3. QED
    BY <2>1, <2>2
<1>7. QED
  BY <1>1, <1>2, <1>4, <1>5, <1>6 DEF ScanInv, AwaitedInv, ResultsOfThisScan

\* An event of a scan goes behind the others.
LEMMA EventTold ==
    ASSUME ScanInv, NEW n \in 1 .. MaxScans, NEW e \in ScanEvents, e.scan = n,
           wire' = Append(wire, e), scans[n].at # "told",
           scans' \in [1 .. MaxScans -> ScanRecords], ScansOK',
           \A m \in (1 .. MaxScans) \ {n} : scans'[m] = scans[m],
           \/ e.kind # "progress" /\ scans'[n].at = "told" /\ scans'[n].done = scans[n].done
                /\ e.scanned = scans[n].done
           \/ e.kind = "progress" /\ scans'[n].done = scans[n].done + 1
                /\ e.host = scans'[n].done /\ e.scanned = scans'[n].done,
           UNCHANGED <<pageVars, hookVars, stops>>
    PROVE  ScanInv'
<1>1. /\ ScanTypeOK /\ InTurn(wire) /\ AwaitedInv /\ StartInv /\ ActiveInv /\ ResultsOfThisScan
      /\ UNCHANGED <<network, kept, status, active, starting, awaited, overtaken>>
      /\ UNCHANGED <<scanSession, results, scanned>>
      /\ MaxScans \in Nat /\ wire \in Seq(ScanEvents) /\ Len(wire) \in Nat
  BY NetworkScanAssumption DEF ScanInv, ScanTypeOK, pageVars, hookVars
<1> DEFINE L == Len(wire)
<1>2. /\ wire' \in Seq(ScanEvents) /\ Len(wire') = L + 1 /\ wire'[L + 1] = e
      /\ \A k \in 1 .. L : wire'[k] = wire[k] /\ wire[k] \in ScanEvents
      /\ \A k \in 1 .. L + 1 : k = L + 1 \/ k \in 1 .. L
      /\ L + 1 \in 1 .. L + 1 /\ 1 .. L \subseteq 1 .. L + 1
  BY <1>1
<1>3. \A m \in 1 .. MaxScans : scans[m].done \in Nat /\ scans'[m].done \in Nat
  BY <1>1 DEF ScanTypeOK, ScanRecords
<1>4. ASSUME NEW f \in ScanEvents, SaysTrue(f) PROVE SaysTrue(f)' /\ Follows(f, e)
  <2>1. f.scan \in 1 .. MaxScans /\ f.kind \in {"progress", "completed", "cancelled"}
    BY DEF ScanEvents
  <2>2. CASE f.scan # n
    BY <1>4, <2>1, <2>2 DEF SaysTrue, Follows
  <2>3. CASE f.scan = n
    <3>1. f.kind = "progress" /\ f.host = f.scanned /\ f.host \in 1 .. scans[n].done
      BY <1>4, <2>3 DEF SaysTrue
    <3>2. f.host \in 1 .. scans'[n].done /\ (e.kind = "progress" => f.host < e.host)
      BY <1>3, <3>1
    <3>3. QED
      BY <2>3, <3>1, <3>2 DEF SaysTrue, Follows
  <2>4. QED
    BY <2>2, <2>3
<1>5. SaysTrue(e)'
  BY <1>3 DEF SaysTrue
<1> HIDE DEF L
<1>6. InTurn(wire)'
  <2>1. \A k \in 1 .. L : SaysTrue(wire[k])
    BY <1>1 DEF InTurn, L
  <2>2. ASSUME NEW k \in 1 .. L + 1 PROVE SaysTrue(wire[k])'
    BY <1>2, <1>4, <1>5, <2>1, SMTT(30) DEF SaysTrue
  <2>3. ASSUME NEW j \in 1 .. L + 1, NEW k \in 1 .. L + 1, j < k PROVE Follows(wire'[j], wire'[k])
    <3>1. CASE k \in 1 .. L
      BY <1>1, <1>2, <2>3, <3>1 DEF InTurn, L
    <3>2. CASE k = L + 1
      <4>1. j \in 1 .. L
        BY <1>1, <2>3, <3>2 DEF L
      <4>2. QED
        BY <1>2, <1>4, <2>1, <3>2, <4>1
    <3>3. QED
      BY <1>2, <3>1, <3>2
  <2>4. QED
    BY <1>2, <2>2, <2>3 DEF InTurn, Follows
<1>7. StartInv'
  <2>1. CASE starting = 0 \/ overtaken
    BY <1>1, <2>1 DEF StartInv
  <2>2. CASE starting # 0 /\ ~overtaken
    <3>1. /\ active = 0 /\ scanSession = 0 /\ InTurn(kept)
          /\ \A j \in 1 .. Len(kept), k \in 1 .. Len(wire) : Follows(kept[j], wire[k])
          /\ \A h \in 1 .. scans[starting].done :
                \/ \E k \in 1 .. Len(kept) : Finds(kept[k], starting, h)
                \/ \E k \in 1 .. Len(wire) : Finds(wire[k], starting, h)
          /\ starting \in 1 .. MaxScans
      BY <1>1, <2>2 DEF StartInv, ScanTypeOK
    <3>2. \A k \in 1 .. Len(kept) : kept[k] \in ScanEvents /\ SaysTrue(kept[k])
      BY <1>1, <3>1 DEF ScanTypeOK, InTurn
    <3>3. ASSUME NEW k \in 1 .. Len(kept) PROVE SaysTrue(kept[k])' /\ Follows(kept[k], e)
      BY <1>1, <1>4, <3>2 DEF SaysTrue
    <3>4. InTurn(kept)'
      BY <1>1, <3>1, <3>3 DEF InTurn, Follows
    <3>5. \A j \in 1 .. Len(kept), k \in 1 .. L + 1 : Follows(kept[j], wire'[k])
      BY <1>2, <3>1, <3>3 DEF L
    <3>6. ASSUME NEW h \in 1 .. scans'[starting].done
          PROVE  \/ \E k \in 1 .. Len(kept) : Finds(kept[k], starting, h)
                 \/ \E k \in 1 .. L + 1 : Finds(wire'[k], starting, h)
      <4>1. CASE h \in 1 .. scans[starting].done
        BY <1>2, <3>1, <4>1 DEF L
      <4>2. CASE h \notin 1 .. scans[starting].done
        <5>1. starting = n /\ e.kind = "progress" /\ e.host = h
          BY <1>3, <3>1, <4>2
        <5>2. QED
          BY <1>2, <5>1 DEF Finds
      <4>3. QED
        BY <4>1, <4>2
    <3>7. QED
      BY <1>1, <1>2, <3>1, <3>4, <3>5, <3>6 DEF StartInv, Follows, Finds
  <2>3. QED
    BY <2>1, <2>2
<1>8. ActiveInv'
  <2>1. CASE active = 0 \/ overtaken
    BY <1>1, <2>1 DEF ActiveInv
  <2>2. CASE active # 0 /\ ~overtaken
    <3>1. /\ active = scanSession /\ starting = 0 /\ status \in Busy
          /\ \A k \in 1 .. L :
                wire[k].scan = active /\ wire[k].kind = "progress" => wire[k].host > scanned
          /\ \A h \in scanned + 1 .. scans[active].done : \E k \in 1 .. L : Finds(wire[k], active, h)
          /\ active \in 1 .. MaxScans /\ scanned \in Nat /\ scanned <= scans[active].done
      BY <1>1, <2>2 DEF ActiveInv, ScanTypeOK, L
    <3>2. e.scan = active /\ e.kind = "progress" => e.host > scanned
      BY <1>3, <3>1
    <3>3. ASSUME NEW h \in scanned + 1 .. scans'[active].done
          PROVE  \E k \in 1 .. L + 1 : Finds(wire'[k], active, h)
      <4>1. CASE h \in scanned + 1 .. scans[active].done
        BY <1>2, <3>1, <4>1
      <4>2. CASE h \notin scanned + 1 .. scans[active].done
        <5>1. active = n /\ e.kind = "progress" /\ e.host = h
          BY <1>3, <3>1, <4>2
        <5>2. QED
          BY <1>2, <5>1 DEF Finds
      <4>3. QED
        BY <4>1, <4>2
    <3>4. \A k \in 1 .. L + 1 :
             wire'[k].scan = active /\ wire'[k].kind = "progress" => wire'[k].host > scanned
      BY <1>2, <3>1, <3>2
    <3>5. scanned <= scans'[active].done
      BY <1>3, <3>1
    <3>6. QED
      BY <1>1, <1>2, <3>1, <3>3, <3>4, <3>5 DEF ActiveInv, Finds
  <2>3. QED
    BY <2>1, <2>2
<1>9. ScanTypeOK'
  BY <1>1, <1>2 DEF ScanTypeOK
<1>10. QED
  BY <1>1, <1>6, <1>7, <1>8, <1>9 DEF ScanInv, AwaitedInv, ResultsOfThisScan

\* The service registers, goes on with, forgets or ends a scan.
LEMMA ServiceStep ==
    ASSUME ScanInv, NEW n \in 1 .. MaxScans, Register(n) \/ ScanChunk(n) \/ Forget(n) \/ TellEnd(n)
    PROVE  ScanInv'
<1>1. /\ scans \in [1 .. MaxScans -> ScanRecords] /\ ScansOK /\ network \in Networks \cup {NoNetwork}
      /\ scans[n] \in ScanRecords /\ scans[n].done \in Nat
      /\ active # 0 /\ ~overtaken => status \in Busy
      /\ ~overtaken => awaited \subseteq {starting}
  BY DEF ScanInv, ScanTypeOK, ScanRecords, AwaitedInv, ActiveInv
<1>2. ASSUME NEW at \in ScanStates, scans' = [scans EXCEPT ![n].at = at],
             scans[n].at # "told",
             at \in {"unused", "asked", "refused"} => scans[n].done = 0,
             at = "refused" => scans[n].hosts = 0
      PROVE  /\ scans' \in [1 .. MaxScans -> ScanRecords] /\ ScansOK'
             /\ scans'[n].at = at /\ scans'[n].done = scans[n].done
             /\ \A m \in (1 .. MaxScans) \ {n} : scans'[m] = scans[m]
  <2>1. [scans[n] EXCEPT !.at = at] \in ScanRecords
    BY <1>1 DEF ScanRecords
  <2>2. /\ scans'[n] = [scans[n] EXCEPT !.at = at]
        /\ \A m \in (1 .. MaxScans) \ {n} : scans'[m] = scans[m]
    BY <1>1, <1>2
  <2>3. /\ scans'[n].at = at /\ scans'[n].done = scans[n].done
        /\ scans'[n].hosts = scans[n].hosts /\ scans'[n].usable = scans[n].usable
    BY <1>1, <2>2 DEF ScanRecords
  <2>4. ScansOK'
    BY <1>1, <1>2, <2>2, <2>3 DEF ScansOK
  <2>5. QED
    BY <1>1, <1>2, <2>1, <2>2, <2>3, <2>4
<1>3. CASE Register(n) \/ Forget(n)
  <2>1. PICK at \in ScanStates :
          /\ scans' = [scans EXCEPT ![n].at = at] /\ scans[n].at \notin {"told"}
          /\ at \in {"unused", "asked", "refused"} => scans[n].done = 0
          /\ at = "refused" => scans[n].hosts = 0
    BY <1>1, <1>3 DEF Register, Forget, ScanStates, ScansOK
  <2>2. /\ scans' \in [1 .. MaxScans -> ScanRecords] /\ ScansOK'
        /\ \A m \in 1 .. MaxScans : /\ scans'[m].done = scans[m].done
                                    /\ scans[m].at = "told" => scans'[m].at = "told"
    BY <1>2, <2>1
  <2>3. UNCHANGED <<network, status, active, starting, awaited, overtaken, wire, kept,
                    scanSession, results, scanned>>
    BY <1>3 DEF Register, Forget, pageVars, hookVars
  <2>4. QED
    BY <1>1, <2>2, <2>3, HookRests
<1>4. CASE TellEnd(n)
  <2> DEFINE e == [scan |-> n, kind |-> scans[n].at, host |-> 0, scanned |-> scans'[n].done]
  <2>1. /\ scans[n].at \in {"completed", "cancelled"} /\ scans' = [scans EXCEPT ![n].at = "told"]
        /\ wire' = Append(wire, e) /\ UNCHANGED <<pageVars, hookVars, stops>>
    BY <1>4 DEF TellEnd, Tell
  <2>2. /\ scans' \in [1 .. MaxScans -> ScanRecords] /\ ScansOK'
        /\ scans'[n].at = "told" /\ scans'[n].done = scans[n].done
        /\ \A m \in (1 .. MaxScans) \ {n} : scans'[m] = scans[m]
    BY <1>2, <2>1 DEF ScanStates
  <2>3. e \in ScanEvents /\ e.scan = n /\ e.kind # "progress" /\ e.scanned = scans[n].done
    BY <1>1, <2>1, <2>2 DEF ScanEvents
  <2> HIDE DEF e
  <2>4. QED
    BY <2>1, <2>2, <2>3, EventTold
<1>5. CASE ScanChunk(n)
  <2> DEFINE e == [scan |-> n, kind |-> "progress", host |-> scans[n].done + 1, scanned |-> scans'[n].done]
  <2>1. /\ scans[n].at = "runs" /\ scans' = [scans EXCEPT ![n].done = scans[n].done + 1]
        /\ wire' = Append(wire, e) /\ UNCHANGED <<pageVars, hookVars, stops>>
    BY <1>5 DEF ScanChunk, Tell
  <2>2. [scans[n] EXCEPT !.done = scans[n].done + 1] \in ScanRecords
    BY <1>1 DEF ScanRecords
  <2>3. /\ scans' \in [1 .. MaxScans -> ScanRecords]
        /\ scans'[n] = [scans[n] EXCEPT !.done = scans[n].done + 1]
        /\ \A m \in (1 .. MaxScans) \ {n} : scans'[m] = scans[m]
    BY <1>1, <2>1, <2>2
  <2>4. /\ scans'[n].at = "runs" /\ scans'[n].done = scans[n].done + 1
        /\ scans'[n].hosts = scans[n].hosts /\ scans'[n].usable = scans[n].usable
    BY <1>1, <2>1, <2>3 DEF ScanRecords
  <2>5. ScansOK'
    BY <1>1, <2>3, <2>4 DEF ScansOK
  <2>6. e \in ScanEvents /\ e.scan = n /\ e.kind = "progress" /\ e.host = scans'[n].done /\ e.scanned = scans'[n].done
    BY <1>1, <2>4, SMTT(30) DEF ScanEvents
  <2> HIDE DEF e
  <2>7. QED
    BY <2>1, <2>3, <2>4, <2>5, <2>6, EventTold
<1>6. QED
  BY <1>3, <1>4, <1>5


\* The next event comes: the page is given it, keeps it until the start is answered, or drops it.
LEMMA EventStep ==
    ASSUME ScanInv, EventComes
    PROVE  ScanInv'
<1> DEFINE e == Head(wire)
           L == Len(wire')
<1>1. /\ ScanTypeOK /\ ScansOK /\ InTurn(wire)
      /\ AwaitedInv /\ StartInv /\ ActiveInv /\ ResultsOfThisScan
      /\ UNCHANGED <<network, starting, awaited, overtaken, scanSession, scans>>
      /\ MaxScans \in Nat /\ wire \in Seq(ScanEvents) /\ wire # <<>> /\ wire' = Tail(wire)
      /\ kept \in Seq(ScanEvents)
  BY NetworkScanAssumption DEF ScanInv, ScanTypeOK, EventComes, pageVars
<1>2. /\ wire' \in Seq(ScanEvents) /\ L \in Nat /\ Len(wire) = L + 1 /\ e = wire[1] /\ e \in ScanEvents
      /\ \A k \in 1 .. L : wire'[k] = wire[k + 1]
  BY <1>1
<1> HIDE DEF e, L
<1>3. /\ \A k \in 1 .. L : k + 1 \in 1 .. Len(wire) /\ 1 < k + 1
      /\ \A k \in 1 .. Len(wire) : k = 1 \/ (k - 1 \in 1 .. L /\ (k - 1) + 1 = k)
      /\ 1 \in 1 .. Len(wire) /\ \A j, k \in 1 .. L : j < k => j + 1 < k + 1
  BY <1>2
<1>4. SaysTrue(e) /\ \A k \in 1 .. L : SaysTrue(wire'[k]) /\ Follows(e, wire'[k])
  BY <1>1, <1>2, <1>3 DEF InTurn
<1>5. InTurn(wire)'
  <2>1. ASSUME NEW k \in 1 .. L PROVE SaysTrue(wire[k])'
    BY <1>1, <1>4 DEF SaysTrue
  <2>2. \A j, k \in 1 .. L : j < k => Follows(wire'[j], wire'[k])
    BY <1>1, <1>2, <1>3 DEF InTurn
  <2>3. QED
    BY <2>1, <2>2 DEF InTurn, Follows, SaysTrue, L
<1>6. CASE ~overtaken /\ active = 0 /\ starting = 0
  <2>1. UNCHANGED <<kept, status, active, results, scanned>>
    BY <1>6 DEF EventComes, e
  <2>2. ScanTypeOK' /\ ScansOK'
    BY <1>1, <1>2, <2>1 DEF ScanTypeOK, ScansOK
  <2>3. QED
    BY <1>1, <1>5, <1>6, <2>1, <2>2 DEF ScanInv, AwaitedInv, StartInv, ActiveInv, ResultsOfThisScan
<1>7. CASE ~overtaken /\ active = 0 /\ starting # 0
  <2>1. kept' = Append(kept, e) /\ UNCHANGED <<status, active, results, scanned>>
    BY <1>7 DEF EventComes, e
  <2> DEFINE n == Len(kept)
  <2>2. /\ n \in Nat /\ kept' \in Seq(ScanEvents) /\ Len(kept') = n + 1 /\ kept'[n + 1] = e
        /\ \A k \in 1 .. n : kept'[k] = kept[k]
        /\ n + 1 \in 1 .. n + 1 /\ 1 .. n \subseteq 1 .. n + 1
        /\ \A k \in 1 .. n + 1 : k = n + 1 \/ k \in 1 .. n
        /\ \A j, k \in 1 .. n + 1 : j < k => j \in 1 .. n
    BY <1>1, <1>2, <2>1
  <2> HIDE DEF n
  <2>3. /\ scanSession = 0 /\ InTurn(kept)
        /\ \A j \in 1 .. n, k \in 1 .. Len(wire) : Follows(kept[j], wire[k])
        /\ \A h \in 1 .. scans[starting].done :
              \/ \E k \in 1 .. n : Finds(kept[k], starting, h)
              \/ \E k \in 1 .. Len(wire) : Finds(wire[k], starting, h)
    BY <1>1, <1>7 DEF StartInv, n
  <2>4. InTurn(kept)'
    <3>1. \A k \in 1 .. n + 1 : SaysTrue(kept'[k])
      BY <1>4, <2>2, <2>3 DEF InTurn, n
    <3>2. \A j, k \in 1 .. n + 1 : j < k => Follows(kept'[j], kept'[k])
      BY <1>2, <1>3, <2>2, <2>3 DEF InTurn, n
    <3>3. QED
      BY <1>1, <2>2, <3>1, <3>2 DEF InTurn, Follows, SaysTrue
  <2>5. \A j \in 1 .. n + 1, k \in 1 .. L : Follows(kept'[j], wire'[k])
    BY <1>2, <1>3, <1>4, <2>2, <2>3
  <2>6. ASSUME NEW h \in 1 .. scans[starting].done
        PROVE  \/ \E k \in 1 .. n + 1 : Finds(kept'[k], starting, h)
               \/ \E k \in 1 .. L : Finds(wire'[k], starting, h)
    <3>1. CASE \E k \in 1 .. n : Finds(kept[k], starting, h)
      BY <2>2, <3>1
    <3>2. CASE \E k \in 1 .. Len(wire) : Finds(wire[k], starting, h)
      BY <1>2, <1>3, <2>2, <3>2
    <3>3. QED
      BY <2>3, <3>1, <3>2
  <2>7. StartInv'
    BY <1>1, <1>7, <2>1, <2>2, <2>3, <2>4, <2>5, <2>6 DEF StartInv, Follows, Finds, L
  <2>8. ScanTypeOK' /\ ScansOK'
    BY <1>1, <1>2, <2>1, <2>2 DEF ScanTypeOK, ScansOK
  <2>9. QED
    BY <1>1, <1>5, <1>7, <2>1, <2>7, <2>8 DEF ScanInv, AwaitedInv, ActiveInv, ResultsOfThisScan
<1>8. ASSUME ~overtaken, active # 0
      PROVE  /\ active = scanSession /\ starting = 0 /\ status \in Busy /\ active \in 1 .. MaxScans
             /\ scanned \in Nat /\ scans[active].done \in Nat /\ scanned <= scans[active].done
             /\ \A k \in 1 .. L + 1 :
                   wire[k].scan = active /\ wire[k].kind = "progress" => wire[k].host > scanned
             /\ \A h \in scanned + 1 .. scans[active].done : \E k \in 1 .. L + 1 : Finds(wire[k], active, h)
             /\ results = [i \in 1 .. scanned |-> <<active, i>>]
             /\ UNCHANGED kept
  BY <1>1, <1>2, <1>8 DEF ActiveInv, ScanTypeOK, ScanRecords, ResultsOfThisScan, EventComes
<1>9. CASE ~overtaken /\ active # 0 /\ e.scan # active
  <2>1. UNCHANGED <<kept, status, active, results, scanned>>
    BY <1>9 DEF EventComes, e
  <2>2. ScanTypeOK' /\ ScansOK'
    BY <1>1, <1>2, <2>1 DEF ScanTypeOK, ScansOK
  <2>3. ASSUME NEW h \in scanned + 1 .. scans[active].done PROVE \E k \in 1 .. L : Finds(wire'[k], active, h)
    <3>1. PICK k \in 1 .. L + 1 : Finds(wire[k], active, h)
      BY <1>8, <1>9
    <3>2. k # 1
      BY <1>2, <1>9, <3>1 DEF Finds
    <3>3. k - 1 \in 1 .. L /\ wire'[k - 1] = wire[k]
      BY <1>2, <3>2
    <3>4. QED
      BY <3>1, <3>3
  <2>4. \A k \in 1 .. L : wire'[k].scan = active /\ wire'[k].kind = "progress" => wire'[k].host > scanned
    BY <1>2, <1>3, <1>8, <1>9
  <2>5. ActiveInv'
    BY <1>1, <1>8, <1>9, <2>1, <2>3, <2>4 DEF ActiveInv, Finds, L
  <2>6. QED
    BY <1>1, <1>5, <1>8, <1>9, <2>1, <2>2, <2>5 DEF ScanInv, AwaitedInv, StartInv, ResultsOfThisScan
<1>10. CASE ~overtaken /\ active # 0 /\ e.scan = active
  <2> DEFINE F == {i \in DOMAIN <<e>> : <<e>>[i].kind = "progress"}
             E == {i \in DOMAIN <<e>> : <<e>>[i].kind # "progress"}
             found == Kept(<<e>>, F)
             ends  == Kept(<<e>>, E)
  <2>1. /\ results' = results \o [i \in 1 .. Len(found) |-> <<found[i].scan, found[i].host>>]
        /\ scanned' = e.scanned
        /\ active' = IF ends = <<>> THEN active ELSE 0
        /\ status' = IF ends # <<>> THEN Last(ends).kind ELSE status
    BY <1>10 DEF EventComes, Apply, e, Last
  <2>2. (1 \in F <=> e.kind = "progress") /\ (1 \in E <=> e.kind # "progress")
    OBVIOUS
  <2> HIDE DEF F, E
  <2>3. e.kind = "progress" => found = <<e>> /\ ends = <<>>
    BY <1>2, <2>2, OneKept
  <2>4. e.kind # "progress" => found = <<>> /\ ends = <<e>>
    BY <1>2, <2>2, OneKept
  <2> HIDE DEF found, ends
  <2>5. e.scanned \in Nat /\ UNCHANGED kept
    BY <1>2, <1>8, <1>10 DEF ScanEvents
  <2>6. ScanTypeOK' /\ ScansOK'
    BY <1>1, <1>2, <2>1, <2>5 DEF ScanTypeOK, ScansOK
  <2>7. CASE e.kind = "progress"
    <3>1. e.host > scanned /\ e.host = e.scanned /\ e.host \in 1 .. scans[active].done /\ e.host \in Nat
      BY <1>2, <1>3, <1>4, <1>8, <1>10, <2>7 DEF SaysTrue, ScanEvents
    <3>2. e.host = scanned + 1
      <4>1. scanned + 1 \in scanned + 1 .. scans[active].done
        BY <1>8, <1>10, <3>1
      <4>2. PICK k \in 1 .. L + 1 : Finds(wire[k], active, scanned + 1)
        BY <1>8, <1>10, <4>1
      <4>3. k = 1 \/ Follows(e, wire[k])
        BY <1>2, <1>3, <1>4, <4>2
      <4>4. QED
        BY <1>2, <1>8, <1>10, <3>1, <4>2, <4>3 DEF Finds, Follows
    <3>3. active' = active /\ status' = status /\ results' = results \o <<<<active, e.host>>>>
      <4>1. [i \in 1 .. Len(<<e>>) |-> <<<<e>>[i].scan, <<e>>[i].host>>] = <<<<active, e.host>>>>
        BY <1>10
      <4>2. QED
        BY <1>8, <1>10, <2>1, <2>3, <2>7, <4>1
    <3>4. results' = [i \in 1 .. scanned' |-> <<active, i>>]
      <4>1. scanned \in Nat /\ active \in 0 .. MaxScans /\ scanned' = scanned + 1 /\ e.host = scanned + 1
            /\ results = [i \in 1 .. scanned |-> <<active, i>>]
        BY <1>1, <1>8, <1>10, <2>1, <3>1, <3>2
      <4>2. [i \in 1 .. scanned |-> <<active, i>>] \o <<<<active, scanned + 1>>>>
              = [i \in 1 .. scanned + 1 |-> <<active, i>>]
        BY <4>1, OneMoreHost
      <4>3. QED
        BY <3>3, <4>1, <4>2
    <3>5. \A k \in 1 .. L : wire'[k].scan = active /\ wire'[k].kind = "progress" => wire'[k].host > scanned'
      BY <1>4, <1>10, <2>1, <2>7, <3>1 DEF Follows
    <3>6. ASSUME NEW h \in scanned' + 1 .. scans[active].done PROVE \E k \in 1 .. L : Finds(wire'[k], active, h)
      <4>1. h \in scanned + 1 .. scans[active].done /\ h # e.host
        BY <1>8, <1>10, <2>1, <3>1, <3>2
      <4>2. PICK k \in 1 .. L + 1 : Finds(wire[k], active, h)
        BY <1>8, <1>10, <4>1
      <4>3. k # 1
        BY <1>2, <4>1, <4>2 DEF Finds
      <4>4. k - 1 \in 1 .. L /\ wire'[k - 1] = wire[k]
        BY <1>2, <4>3
      <4>5. QED
        BY <4>2, <4>4
    <3>7. ActiveInv'
      <4>1. /\ active = scanSession /\ starting = 0 /\ status \in Busy
            /\ scanned' = e.host /\ scans' = scans /\ scanned' <= scans[active].done
            /\ UNCHANGED <<active, scanSession, starting, status>>
        BY <1>1, <1>8, <1>10, <2>1, <3>1, <3>3
      <4>2. /\ \A k \in 1 .. Len(wire') :
                  wire'[k].scan = active' /\ wire'[k].kind = "progress" => wire'[k].host > scanned'
            /\ \A h \in scanned' + 1 .. scans'[active'].done :
                  \E k \in 1 .. Len(wire') : Finds(wire'[k], active', h)
        BY <3>5, <3>6, <4>1 DEF L
      <4>3. QED
        BY <4>1, <4>2 DEF ActiveInv, Finds
    <3>8. QED
      BY <1>1, <1>5, <1>8, <1>10, <2>6, <3>3, <3>4, <3>7 DEF ScanInv, AwaitedInv, StartInv, ResultsOfThisScan
  <2>8. CASE e.kind # "progress"
    <3>1. e.scanned = scans[active].done
      BY <1>4, <1>10, <2>8 DEF SaysTrue
    <3>2. scanned = scans[active].done
      <4>1. SUFFICES ASSUME scanned # scans[active].done PROVE FALSE
        OBVIOUS
      <4>2. scanned + 1 \in scanned + 1 .. scans[active].done
        BY <1>8, <1>10, <4>1
      <4>3. PICK k \in 1 .. L + 1 : Finds(wire[k], active, scanned + 1)
        BY <1>8, <1>10, <4>2
      <4>4. k = 1 \/ Follows(e, wire[k])
        BY <1>2, <1>3, <1>4, <4>3
      <4>5. QED
        BY <1>2, <1>10, <2>8, <4>3, <4>4 DEF Finds, Follows
    <3>3. active' = 0 /\ scanned' = scanned /\ results' = results
      <4>1. results \in Seq((0 .. MaxScans) \X Nat)
        BY <1>8, <1>10, HostsAreAList
      <4>2. results' = results \o <<>> /\ ends # <<>>
        <5>1. found = <<>> /\ ends = <<e>> /\ ends # <<>> /\ Len(found) = 0
          BY <2>4, <2>8
        <5>2. [i \in 1 .. Len(found) |-> <<found[i].scan, found[i].host>>] = <<>>
          BY <5>1
        <5>3. QED
          BY <2>1, <5>1, <5>2
      <4>3. QED
        BY <2>1, <3>1, <3>2, <4>1, <4>2
    <3>4. QED
      BY <1>1, <1>5, <1>8, <1>10, <2>6, <3>3 DEF ScanInv, AwaitedInv, StartInv, ActiveInv, ResultsOfThisScan
  <2>9. QED
    BY <2>7, <2>8
<1>11. CASE overtaken
  <2>1. active' \in 0 .. MaxScans /\ kept' \in Seq(ScanEvents) /\ scanned' \in Nat
    <3>1. CASE UNCHANGED <<active, scanned>>
      <4>1. kept' = kept \/ kept' = Append(kept, e)
        BY DEF EventComes, Apply, e
      <4>2. QED
        BY <1>1, <1>2, <3>1, <4>1 DEF ScanTypeOK
    <3>2. CASE ~UNCHANGED <<active, scanned>>
      <4>1. kept' = kept /\ scanned' = e.scanned /\ active' \in {active, 0}
        BY <3>2 DEF EventComes, Apply, e, Last
      <4>2. e.scanned \in Nat
        BY <1>2 DEF ScanEvents
      <4>3. QED
        BY <1>1, <4>1, <4>2 DEF ScanTypeOK
    <3>3. QED
      BY <3>1, <3>2
  <2>2. ScanTypeOK' /\ ScansOK'
    BY <1>1, <1>2, <2>1 DEF ScanTypeOK, ScansOK
  <2>3. QED
    BY <1>1, <1>5, <1>11, <2>2 DEF ScanInv, AwaitedInv, StartInv, ActiveInv, ResultsOfThisScan
<1>12. QED
  BY <1>1, <1>6, <1>7, <1>9, <1>10, <1>11 DEF ScanTypeOK


\* The answer to a start that was made alone comes: what was kept of the scan is shown,
\* and the page follows it.
LEMMA StartedAlone ==
    ASSUME ScanInv, ~overtaken, NEW n \in 1 .. MaxScans, Started(n)
    PROVE  ScanInv'
<1> DEFINE P == {i \in DOMAIN kept : kept[i].scan = n}
           q == Kept(kept, P)
           F == {i \in DOMAIN q : q[i].kind = "progress"}
           E == {i \in DOMAIN q : q[i].kind # "progress"}
           found == Kept(q, F)
           ends  == Kept(q, E)
           m == scanned'
<1>1. /\ ScanTypeOK /\ ScansOK /\ InTurn(wire) /\ AwaitedInv /\ StartInv /\ ResultsOfThisScan
      /\ n # 0 /\ n \in 1 .. MaxScans /\ MaxScans \in Nat /\ kept \in Seq(ScanEvents)
      /\ n \in awaited /\ awaited' = awaited \ {n} /\ UNCHANGED overtaken
      /\ wire \in Seq(ScanEvents) /\ Len(wire) \in Nat
      /\ scanSession' = n /\ kept' = <<>> /\ starting' = 0
      /\ UNCHANGED <<network, scans, wire>> /\ scans[n].done \in Nat
  BY NetworkScanAssumption DEF ScanInv, ScanTypeOK, ScanRecords, Started, pageVars
<1>a. starting = n
  BY <1>1 DEF AwaitedInv
<1>2. /\ active = 0 /\ scanSession = 0 /\ InTurn(kept)
      /\ \A j \in 1 .. Len(kept), k \in 1 .. Len(wire) : Follows(kept[j], wire[k])
      /\ \A h \in 1 .. scans[n].done :
            \/ \E k \in 1 .. Len(kept) : Finds(kept[k], n, h)
            \/ \E k \in 1 .. Len(wire) : Finds(wire[k], n, h)
      /\ results = <<>> /\ scanned = 0
  BY <1>1, <1>a DEF StartInv, ResultsOfThisScan
<1>3. /\ results' = results \o [i \in 1 .. Len(found) |-> <<found[i].scan, found[i].host>>]
      /\ scanned' = IF q = <<>> THEN scanned ELSE q[Len(q)].scanned
      /\ active' = IF ends = <<>> THEN n ELSE 0
      /\ status' = IF ends # <<>> THEN Last(ends).kind ELSE "running"
  BY DEF Started, Apply, Early, Last
<1>4. /\ \A i : i \in P <=> i \in 1 .. Len(kept) /\ kept[i].scan = n
      /\ \A i : i \in F <=> i \in 1 .. Len(q) /\ q[i].kind = "progress"
      /\ \A i : i \in E <=> i \in 1 .. Len(q) /\ q[i].kind # "progress"
      /\ q \in Seq(ScanEvents) /\ IsPartOf(q, kept, P)
  <2>1. q \in Seq(ScanEvents) /\ IsPartOf(q, kept, P)
    BY <1>1, KeptElements
  <2>2. DOMAIN q = 1 .. Len(q) /\ DOMAIN kept = 1 .. Len(kept)
    BY <1>1, <2>1
  <2>3. QED
    BY <2>1, <2>2
<1> HIDE DEF F, E, P, q
<1>5. found \in Seq(ScanEvents) /\ IsPartOf(found, q, F) /\ ends \in Seq(ScanEvents) /\ IsPartOf(ends, q, E)
  BY <1>4, KeptElements
<1> HIDE DEF found, ends
<1>6. /\ \A i \in 1 .. Len(q) : q[i].scan = n /\ SaysTrue(q[i]) /\ q[i] \in ScanEvents
      /\ \A i, j \in 1 .. Len(q) : i < j => Follows(q[i], q[j])
      /\ \A i \in 1 .. Len(q), k \in 1 .. Len(wire) : Follows(q[i], wire[k])
      /\ \A k \in 1 .. Len(kept) : kept[k].scan = n => \E i \in 1 .. Len(q) : q[i] = kept[k]
  <2>1. \A i \in 1 .. Len(q) : \E p \in 1 .. Len(kept) : q[i] = kept[p] /\ kept[p].scan = n
    BY <1>4 DEF IsPartOf
  <2>2. \A i, j \in 1 .. Len(q) : i < j =>
           \E p, r \in 1 .. Len(kept) : p < r /\ q[i] = kept[p] /\ q[j] = kept[r]
    <3>1. SUFFICES ASSUME NEW i \in 1 .. Len(q), NEW j \in 1 .. Len(q), i < j
                   PROVE  \E p, r \in 1 .. Len(kept) : p < r /\ q[i] = kept[p] /\ q[j] = kept[r]
      OBVIOUS
    <3>2. PICK p \in P \cap (1 .. Len(kept)), r \in P \cap (1 .. Len(kept)) :
             p < r /\ q[i] = kept[p] /\ q[j] = kept[r]
      BY <1>4, <3>1 DEF IsPartOf
    <3>3. QED
      BY <3>2
  <2>3. \A k \in 1 .. Len(kept) : kept[k].scan = n => \E i \in 1 .. Len(q) : q[i] = kept[k]
    BY <1>4 DEF IsPartOf
  <2>4. \A i \in 1 .. Len(q) : q[i] \in ScanEvents
    BY <1>4
  <2>5. \A i \in 1 .. Len(q) : q[i].scan = n /\ SaysTrue(q[i])
    BY <1>2, <2>1 DEF InTurn
  <2>6. \A i, j \in 1 .. Len(q) : i < j => Follows(q[i], q[j])
    BY <1>2, <2>2 DEF InTurn
  <2>7. \A i \in 1 .. Len(q), k \in 1 .. Len(wire) : Follows(q[i], wire[k])
    BY <1>2, <2>1
  <2>8. QED
    BY <2>3, <2>4, <2>5, <2>6, <2>7
<1> DEFINE last == q[Len(q)]
<1>7. /\ Len(q) \in Nat /\ (q = <<>> <=> Len(q) = 0)
      /\ q # <<>> => /\ Len(q) \in 1 .. Len(q)
                     /\ \A i \in 1 .. Len(q) : i = Len(q) \/ i < Len(q)
  BY <1>4
<1>8. \A i \in 1 .. Len(q) : i # Len(q) => Follows(q[i], last)
  BY <1>6, <1>7
<1>9. m \in Nat /\ m <= scans[n].done /\ (q # <<>> => m = last.scanned)
  <2>1. CASE q = <<>>
    BY <1>1, <1>2, <1>3, <2>1
  <2>2. CASE q # <<>>
    <3>1. m = last.scanned /\ last \in ScanEvents /\ SaysTrue(last) /\ last.scan = n
      BY <1>3, <1>6, <1>7, <2>2
    <3>2. last.scanned \in Nat /\ last.host \in Nat
      BY <3>1 DEF ScanEvents
    <3>3. last.scanned <= scans[n].done
      BY <1>1, <3>1, <3>2 DEF SaysTrue
    <3>4. QED
      BY <3>1, <3>2, <3>3
  <2>3. QED
    BY <2>1, <2>2
<1>10. ASSUME NEW i \in 1 .. Len(q), q[i].kind = "progress"
       PROVE  q[i].host \in 1 .. m
  <2>1. /\ q[i] \in ScanEvents /\ SaysTrue(q[i]) /\ q[i].scan = n /\ q # <<>> /\ m = last.scanned
        /\ Len(q) \in 1 .. Len(q)
    BY <1>6, <1>7, <1>9, <1>10
  <2>2. q[i].host \in 1 .. scans[n].done
    BY <1>10, <2>1 DEF SaysTrue
  <2>3. SaysTrue(last) /\ last.scan = n
    BY <1>6, <2>1
  <2>4. CASE last.kind # "progress"
    BY <2>1, <2>2, <2>3, <2>4 DEF SaysTrue
  <2>5. CASE last.kind = "progress"
    <3>1. last.host = m /\ m \in 1 .. scans[n].done
      BY <2>1, <2>3, <2>5 DEF SaysTrue
    <3>2. i = Len(q) \/ q[i].host < last.host
      BY <1>8, <2>1, <2>3, <2>5 DEF Follows
    <3>3. QED
      BY <1>1, <1>9, <2>2, <3>1, <3>2
  <2>6. QED
    BY <2>4, <2>5
<1>11. ASSUME NEW k \in 1 .. Len(wire), wire[k].scan = n, wire[k].kind = "progress"
       PROVE  wire[k].host > m /\ (q # <<>> => last.kind = "progress")
  <2>1. wire[k].host \in Nat /\ wire[k].host \in 1 .. scans[n].done
    BY <1>1, <1>11, SMTT(30) DEF InTurn, SaysTrue, ScanEvents
  <2>2. CASE q = <<>>
    BY <1>2, <1>3, <1>1, <2>1, <2>2
  <2>3. CASE q # <<>>
    <3>1. Follows(last, wire[k]) /\ SaysTrue(last) /\ last.scan = n /\ m = last.scanned
      BY <1>6, <1>7, <1>9, <2>3
    <3>2. last.kind = "progress" /\ last.host < wire[k].host
      BY <1>11, <3>1 DEF Follows
    <3>3. QED
      BY <1>9, <2>1, <3>1, <3>2 DEF SaysTrue
  <2>4. QED
    BY <2>2, <2>3
<1>12. ASSUME NEW h \in 1 .. m
       PROVE  \E i \in 1 .. Len(q) : q[i].kind = "progress" /\ q[i].host = h
  <2>1. h \in 1 .. scans[n].done /\ ~(h > m)
    BY <1>1, <1>9
  <2>2. ~ \E k \in 1 .. Len(wire) : Finds(wire[k], n, h)
    BY <1>11, <2>1 DEF Finds
  <2>3. PICK k \in 1 .. Len(kept) : Finds(kept[k], n, h)
    BY <1>2, <2>1, <2>2
  <2>4. QED
    BY <1>6, <2>3 DEF Finds
<1> DEFINE hosts == [i \in 1 .. Len(found) |-> found[i].host]
<1>13. /\ \A i \in 1 .. Len(found) :
             \E p \in 1 .. Len(q) : found[i] = q[p] /\ q[p].kind = "progress"
       /\ \A p \in 1 .. Len(q) : q[p].kind = "progress" => \E i \in 1 .. Len(found) : found[i] = q[p]
       /\ \A i, j \in 1 .. Len(found) : i < j =>
             \E p, r \in 1 .. Len(q) : /\ p < r /\ found[i] = q[p] /\ found[j] = q[r]
                                       /\ q[r].kind = "progress"
  <2>1. \A i \in 1 .. Len(found) :
             \E p \in 1 .. Len(q) : found[i] = q[p] /\ q[p].kind = "progress"
    BY <1>4, <1>5 DEF IsPartOf
  <2>2. \A p \in 1 .. Len(q) : q[p].kind = "progress" => \E i \in 1 .. Len(found) : found[i] = q[p]
    BY <1>4, <1>5 DEF IsPartOf
  <2>3. \A i, j \in 1 .. Len(found) : i < j =>
             \E p, r \in 1 .. Len(q) : /\ p < r /\ found[i] = q[p] /\ found[j] = q[r]
                                       /\ q[r].kind = "progress"
    <3>1. SUFFICES ASSUME NEW i \in 1 .. Len(found), NEW j \in 1 .. Len(found), i < j
                   PROVE  \E p, r \in 1 .. Len(q) : /\ p < r /\ found[i] = q[p] /\ found[j] = q[r]
                                                    /\ q[r].kind = "progress"
      OBVIOUS
    <3>2. PICK p \in F \cap (1 .. Len(q)), r \in F \cap (1 .. Len(q)) :
             p < r /\ found[i] = q[p] /\ found[j] = q[r]
      BY <1>5, <3>1 DEF IsPartOf
    <3>3. QED
      BY <1>4, <3>2
  <2>4. QED
    BY <2>1, <2>2, <2>3
<1>14. /\ \A i \in 1 .. Len(found) : found[i].host \in 1 .. m /\ found[i].scan = n
       /\ \A h \in 1 .. m : \E i \in 1 .. Len(found) : found[i].host = h
       /\ \A i, j \in 1 .. Len(found) : i < j => found[i].host < found[j].host
  <2>1. \A i \in 1 .. Len(found) : found[i].host \in 1 .. m /\ found[i].scan = n
    <3>1. SUFFICES ASSUME NEW i \in 1 .. Len(found)
                   PROVE  found[i].host \in 1 .. m /\ found[i].scan = n
      OBVIOUS
    <3>2. PICK p \in 1 .. Len(q) : found[i] = q[p] /\ q[p].kind = "progress"
      BY <1>13
    <3>3. q[p].host \in 1 .. m /\ q[p].scan = n
      BY <1>6, <1>10, <3>2
    <3>4. QED
      BY <3>2, <3>3
  <2>2. \A h \in 1 .. m : \E i \in 1 .. Len(found) : found[i].host = h
    <3>1. ASSUME NEW h \in 1 .. m PROVE \E i \in 1 .. Len(found) : found[i].host = h
      <4>1. PICK p \in 1 .. Len(q) : q[p].kind = "progress" /\ q[p].host = h
        BY <1>12
      <4>2. QED
        BY <1>13, <4>1
    <3>2. QED
      BY <3>1
  <2>3. ASSUME NEW i \in 1 .. Len(found), NEW j \in 1 .. Len(found), i < j
        PROVE  found[i].host < found[j].host
    <3>1. PICK p \in 1 .. Len(q), r \in 1 .. Len(q) :
             p < r /\ found[i] = q[p] /\ found[j] = q[r] /\ q[r].kind = "progress"
      BY <1>13, <2>3
    <3>2. Follows(q[p], q[r]) /\ q[p].scan = n /\ q[r].scan = n
      BY <1>6, <3>1
    <3>3. QED
      BY <3>1, <3>2 DEF Follows
  <2>4. QED
    BY <2>1, <2>2, <2>3
<1>15. Len(found) = m /\ \A i \in 1 .. m : found[i].host = i
  <2>1. Len(found) \in Nat /\ Len(hosts) = Len(found) /\ \A i \in 1 .. Len(found) : hosts[i] = found[i].host
    BY <1>5
  <2>2. hosts \in Seq(Nat)
    BY <1>5, <1>14, <2>1 DEF ScanEvents
  <2> HIDE DEF hosts, m
  <2>3. /\ \A i \in 1 .. Len(hosts) : hosts[i] \in 1 .. m
        /\ \A h \in 1 .. m : \E i \in 1 .. Len(hosts) : hosts[i] = h
        /\ \A i, j \in 1 .. Len(hosts) : i < j => hosts[i] < hosts[j]
    BY <1>14, <2>1
  <2>4. Len(hosts) = m /\ \A i \in 1 .. m : hosts[i] = i
    BY <1>9, <2>2, <2>3, RisingOnto
  <2>5. QED
    BY <2>1, <2>4
<1>16. results' = [i \in 1 .. m |-> <<n, i>>]
  <2>1. [i \in 1 .. Len(found) |-> <<found[i].scan, found[i].host>>] = [i \in 1 .. m |-> <<n, i>>]
    BY <1>14, <1>15
  <2>2. [i \in 1 .. m |-> <<n, i>>] \in Seq((0 .. MaxScans) \X Nat)
    <3>1. n \in 0 .. MaxScans /\ m \in Nat
      BY <1>1, <1>9
    <3> HIDE DEF m
    <3>2. QED
      BY <3>1, HostsAreAList
  <2>3. results' = <<>> \o [i \in 1 .. m |-> <<n, i>>]
    BY <1>2, <1>3, <2>1
  <2>4. QED
    BY <2>2, <2>3
<1>17. ActiveInv'
  <2>1. CASE ends # <<>>
    BY <1>3, <2>1 DEF ActiveInv
  <2>2. CASE ends = <<>>
    <3>1. active' = n /\ status' = "running"
      BY <1>3, <2>2
    <3>2. \A i \in 1 .. Len(q) : q[i].kind = "progress"
      <4>1. ASSUME NEW i \in 1 .. Len(q), q[i].kind # "progress" PROVE FALSE
        <5>1. i \in E \cap (1 .. Len(q))
          BY <1>4, <4>1
        <5>2. Len(ends) = 0
          BY <2>2
        <5>3. PICK j \in 1 .. Len(ends) : ends[j] = q[i]
          BY <1>5, <5>1 DEF IsPartOf
        <5>4. QED
          BY <5>2, <5>3
      <4>2. QED
        BY <4>1
    <3>3. ASSUME NEW h \in m + 1 .. scans[n].done PROVE \E k \in 1 .. Len(wire) : Finds(wire[k], n, h)
      <4>0. m \in Nat /\ scans[n].done \in Nat
        BY <1>1, <1>9
      <4> HIDE DEF m
      <4>1. h \in 1 .. scans[n].done /\ h \notin 1 .. m
        BY <4>0
      <4>2. ~ \E k \in 1 .. Len(kept) : Finds(kept[k], n, h)
        BY <1>6, <1>10, <3>2, <4>1 DEF Finds
      <4>3. QED
        BY <1>2, <4>1, <4>2
    <3>4. /\ \A k \in 1 .. Len(wire) : wire[k].scan = n /\ wire[k].kind = "progress" => wire[k].host > m
          /\ \A h \in m + 1 .. scans[n].done : \E k \in 1 .. Len(wire) : Finds(wire[k], n, h)
      BY <1>11, <3>3
    <3>5. status' \in Busy
      BY <3>1 DEF Busy
    <3>6. QED
      BY <1>1, <1>9, <3>1, <3>4, <3>5 DEF ActiveInv, Finds
  <2>3. QED
    BY <2>1, <2>2
<1>18. InTurn(wire)'
  BY <1>1 DEF InTurn, SaysTrue, Follows
<1>19. ScanTypeOK'
  <2>1. /\ kept' \in Seq(ScanEvents) /\ active' \in 0 .. MaxScans /\ scanSession' \in 0 .. MaxScans
        /\ starting' \in 0 .. MaxScans
    BY <1>1, <1>3
  <2>a. awaited' \subseteq 1 .. MaxScans /\ overtaken' \in BOOLEAN
    BY <1>1 DEF ScanTypeOK
  <2>2. QED
    BY <1>1, <1>9, <2>1, <2>a DEF ScanTypeOK
<1>20. QED
  BY <1>1, <1>a, <1>16, <1>17, <1>18, <1>19
  DEF ScanInv, AwaitedInv, ScansOK, StartInv, ResultsOfThisScan

\* The answer to any start comes.
LEMMA StartedStep ==
    ASSUME ScanInv, NEW n \in 1 .. MaxScans, Started(n)
    PROVE  ScanInv'
<1> DEFINE q == Early(n)
<1>1. /\ ScanTypeOK /\ ScansOK /\ InTurn(wire) /\ MaxScans \in Nat /\ kept \in Seq(ScanEvents)
      /\ kept' = <<>> /\ starting' = 0 /\ scanSession' = n /\ awaited' = awaited \ {n}
      /\ UNCHANGED <<network, overtaken, scans, wire>>
      /\ scanned' = IF q = <<>> THEN scanned ELSE q[Len(q)].scanned
      /\ active' \in {n, 0}
  BY NetworkScanAssumption DEF ScanInv, ScanTypeOK, Started, Apply, Last, pageVars
<1>2. q \in Seq(ScanEvents)
  BY <1>1, KeptElements DEF Early
<1> HIDE DEF q
<1>3. scanned' \in Nat
  <2>1. q # <<>> => q[Len(q)] \in ScanEvents
    BY <1>2
  <2>2. QED
    BY <1>1, <2>1 DEF ScanTypeOK, ScanEvents
<1>4. ScanTypeOK' /\ ScansOK' /\ InTurn(wire)'
  <2>1. kept' \in Seq(ScanEvents) /\ active' \in 0 .. MaxScans /\ scanSession' \in 0 .. MaxScans
    BY <1>1
  <2>2. QED
    BY <1>1, <1>3, <2>1 DEF ScanTypeOK, ScansOK, InTurn, SaysTrue, Follows
<1>5. CASE overtaken
  BY <1>1, <1>4, <1>5 DEF ScanInv, AwaitedInv, StartInv, ActiveInv, ResultsOfThisScan
<1>6. CASE ~overtaken
  BY <1>6, StartedAlone
<1>7. QED
  BY <1>5, <1>6


\* A scan is asked for, its start is refused, or the wish to stop it is sent, heard or answered.
LEMMA CommandStep ==
    ASSUME ScanInv,
           \/ \E n \in 1 .. MaxScans, d \in ScanDrafts : Start(n, d)
           \/ \E n \in 1 .. MaxScans : StartRefused(n)
           \/ Stop \/ \E s \in stops : CancelScan(s) \/ Stopped(s)
    PROVE  ScanInv'
<1>1. /\ ScanTypeOK /\ ScansOK /\ InTurn(wire)
      /\ AwaitedInv /\ StartInv /\ ActiveInv /\ ResultsOfThisScan
      /\ scans \in [1 .. MaxScans -> ScanRecords] /\ network \in Networks \cup {NoNetwork}
      /\ active # 0 /\ ~overtaken => status \in Busy /\ starting = 0
      /\ ~overtaken => awaited \subseteq {starting}
  BY DEF ScanInv, ScanTypeOK, AwaitedInv, ActiveInv
<1>2. CASE (\E n \in 1 .. MaxScans : StartRefused(n)) \/ Stop \/ \E s \in stops : Stopped(s)
  <2>1. /\ UNCHANGED <<scans, network, wire, overtaken, kept, scanSession, results, scanned>>
        /\ starting' \in {starting, 0} /\ active' \in {active, 0}
    BY <1>2 DEF StartRefused, Stop, Stopped, pageVars
  <2>2. /\ active' # 0 /\ ~overtaken => status' \in Busy
        /\ awaited' \subseteq awaited /\ (~overtaken => awaited' \subseteq {starting'})
    <3>1. CASE \E n \in 1 .. MaxScans : StartRefused(n)
      <4>1. PICK n \in 1 .. MaxScans : StartRefused(n)
        BY <3>1
      <4>2. /\ n \in awaited /\ n # 0 /\ awaited' = awaited \ {n} /\ active' = active
        BY <4>1, NetworkScanAssumption DEF StartRefused
      <4>3. ~overtaken => starting = n
        BY <1>1, <4>2
      <4>4. QED
        BY <1>1, <4>2, <4>3
    <3>2. CASE Stop \/ \E s \in stops : Stopped(s)
      BY <1>1, <3>2 DEF Stop, Stopped, Busy
    <3>3. QED
      BY <1>2, <3>1, <3>2
  <2>3. ScansOK' /\ scans' \in [1 .. MaxScans -> ScanRecords] /\ network' \in Networks \cup {NoNetwork}
    BY <1>1, <2>1 DEF ScansOK
  <2>4. QED
    BY <2>1, <2>2, <2>3, HookRests
<1>3. CASE \E s \in stops : CancelScan(s)
  <2>1. PICK s \in stops : CancelScan(s)
    BY <1>3
  <2> DEFINE c == s.scan
             new == [scans[c] EXCEPT !.cancelled = @ \/ scans[c].at = "runs"]
  <2>2. scans' = [scans EXCEPT ![c] = new]
    BY <2>1 DEF CancelScan
  <2>3. UNCHANGED <<network, wire, kept, scanSession, results, scanned, starting, awaited,
                    overtaken, active, status>>
    BY <2>1 DEF CancelScan, pageVars, hookVars
  <2>4. /\ scans' \in [1 .. MaxScans -> ScanRecords]
        /\ \A n \in 1 .. MaxScans : /\ scans'[n].done = scans[n].done /\ scans'[n].at = scans[n].at
                                    /\ scans'[n].usable = scans[n].usable
                                    /\ scans'[n].hosts = scans[n].hosts
    <3>1. CASE c \in 1 .. MaxScans
      <4>1. scans[c] \in ScanRecords
        BY <1>1, <3>1
      <4>2. /\ new \in ScanRecords /\ new.done = scans[c].done /\ new.at = scans[c].at
            /\ new.usable = scans[c].usable /\ new.hosts = scans[c].hosts
        BY <4>1 DEF ScanRecords
      <4> HIDE DEF new
      <4>3. scans'[c] = new /\ \A n \in (1 .. MaxScans) \ {c} : scans'[n] = scans[n]
        BY <1>1, <2>2, <3>1
      <4>4. QED
        BY <1>1, <2>2, <4>2, <4>3
    <3>2. CASE c \notin 1 .. MaxScans
      <4>1. scans' = scans
        BY <1>1, <2>2, <3>2
      <4>2. QED
        BY <1>1, <4>1
    <3>3. QED
      BY <3>1, <3>2
  <2>5. ScansOK'
    BY <1>1, <2>4 DEF ScansOK
  <2>6. QED
    BY <1>1, <2>3, <2>4, <2>5, HookRests
<1>4. CASE \E n \in 1 .. MaxScans, d \in ScanDrafts : Start(n, d)
  <2>1. PICK n \in 1 .. MaxScans : \E d \in ScanDrafts : Start(n, d)
    BY <1>4
  <2>2. PICK d \in ScanDrafts : Start(n, d)
    BY <2>1
  <2> DEFINE new == [Unasked EXCEPT !.at = "asked",
                            !.hosts = IF Prepares(d, network) THEN HostsOf[network] ELSE 0,
                            !.usable = HostsOf[network] # 0]
  <2>3. /\ status \notin Busy /\ scans[n].at = "unused" /\ Accepts(d)
        /\ results' = <<>> /\ scanned' = 0 /\ scanSession' = 0
        /\ starting' = n /\ kept' = <<>> /\ scans' = [scans EXCEPT ![n] = new]
        /\ awaited' = awaited \cup {n} /\ overtaken' = (awaited # {} \/ active # 0)
        /\ UNCHANGED <<network, active, wire>>
    BY <2>2 DEF Start, pageVars
  <2>4. network \in Networks /\ HostsOf[network] \in Nat
    BY <1>1, <2>3, NetworkScanAssumption DEF Accepts
  <2>5. /\ new \in ScanRecords /\ new.at = "asked" /\ new.done = 0 /\ new.usable = (HostsOf[network] # 0)
        /\ new.hosts = IF Prepares(d, network) THEN HostsOf[network] ELSE 0
    BY <2>4 DEF ScanRecords, ScanStates, Unasked
  <2>6. new.usable => new.hosts # 0
    <3>1. HostsOf[network] # 0 => Prepares(d, network)
      <4>1. Cardinality(PortsOf(d.ports).ports) <= 32
        <5> DEFINE ports == UNION {r.from .. r.to : r \in Range(d.ports)}
        <5>1. \/ PortsOf(d.ports).ports = ports /\ Cardinality(ports) <= 32
              \/ PortsOf(d.ports).ports = {}
          BY DEF PortsOf
        <5> HIDE DEF ports
        <5>2. Cardinality({}) = 0
          BY FS_EmptySet
        <5>3. QED
          BY <5>1, <5>2
      <4>2. d.concurrency # 0 /\ d.concurrency <= 128 /\ 100 <= d.timeout /\ d.timeout <= 180000
        <5>1. Limits(d)
          BY <2>3, Zenon DEF Accepts
        <5>2. QED
          BY <5>1, SMTT(30) DEF Limits
      <4>3. (d.ping \/ d.tcp) /\ (d.tcp => PortsOf(d.ports).ports # {})
        BY <2>3, Zenon DEF Accepts
      <4>4. QED
        <5>1. HostsOf[network] # 0 => Prepares(d, network)
          BY <4>1, <4>2, <4>3, SMTT(30) DEF Prepares
        <5>2. QED
          BY <5>1
    <3>2. QED
      BY <2>5, <3>1
  <2> HIDE DEF new
  <2>7. /\ scans' \in [1 .. MaxScans -> ScanRecords] /\ scans'[n] = new
        /\ \A m \in (1 .. MaxScans) \ {n} : scans'[m] = scans[m]
    BY <1>1, <2>3, <2>5
  <2>8. ScansOK'
    BY <1>1, <2>5, <2>6, <2>7 DEF ScansOK
  <2>9. n # 0 /\ n \in 0 .. MaxScans /\ MaxScans \in Nat
    BY <1>1, <2>3, NetworkScanAssumption
  <2>10. ScanTypeOK'
    BY <1>1, <2>3, <2>7, <2>9 DEF ScanTypeOK
  <2>11. InTurn(wire)'
    <3>1. \A k \in 1 .. Len(wire) : wire[k] \in ScanEvents /\ SaysTrue(wire[k])
      BY <1>1 DEF InTurn, ScanTypeOK
    <3>2. ASSUME NEW k \in 1 .. Len(wire) PROVE SaysTrue(wire[k])'
      <4>1. wire[k].scan \in 1 .. MaxScans /\ SaysTrue(wire[k])
        BY <3>1 DEF ScanEvents
      <4>2. CASE wire[k].scan = n
        <5>1. scans[n].done = 0
          BY <2>3 , <1>1 DEF ScansOK
        <5>2. QED
          BY <2>3, <2>5, <4>1, <4>2, <5>1 DEF SaysTrue
      <4>3. CASE wire[k].scan # n
        BY <2>3, <2>7, <4>1, <4>3 DEF SaysTrue
      <4>4. QED
        BY <4>2, <4>3
    <3>3. QED
      BY <1>1, <2>3, <3>2 DEF InTurn, Follows
  <2>12. StartInv'
    <3>1. kept' = <<>> /\ starting' = n /\ scanSession' = 0 /\ scans'[n].done = 0 /\ Len(kept') = 0
      BY <2>3, <2>5, <2>7
    <3>2. ~overtaken' => active' = 0
      BY <2>3
    <3>3. InTurn(kept)'
      BY <3>1 DEF InTurn
    <3>4. QED
      BY <3>1, <3>2, <3>3 DEF StartInv
  <2>13. AwaitedInv' /\ ActiveInv'
    BY <2>3 DEF AwaitedInv, ActiveInv
  <2>14. ResultsOfThisScan'
    BY <2>3 DEF ResultsOfThisScan
  <2>15. QED
    BY <2>8, <2>10, <2>11, <2>12, <2>13, <2>14 DEF ScanInv
<1>5. QED
  BY <1>2, <1>3, <1>4

\* The page is left or opened, its field is filled, or nothing happens.
LEMMA PageStep ==
    ASSUME ScanInv, Leave \/ Return \/ InterfacesCome \/ TypeNetwork \/ UNCHANGED scanVars
    PROVE  ScanInv'
<1>1. /\ ScanTypeOK /\ ScansOK /\ InTurn(wire)
      /\ AwaitedInv /\ StartInv /\ ActiveInv /\ ResultsOfThisScan
      /\ scans \in [1 .. MaxScans -> ScanRecords] /\ network \in Networks \cup {NoNetwork}
      /\ active # 0 /\ ~overtaken => status \in Busy
      /\ ~overtaken => awaited \subseteq {starting}
  BY DEF ScanInv, ScanTypeOK, AwaitedInv, ActiveInv
<1>2. CASE Return \/ InterfacesCome \/ TypeNetwork \/ UNCHANGED scanVars
  <2>1. UNCHANGED <<scans, wire, kept, scanSession, results, scanned, starting, awaited,
                    overtaken, active, status>>
    BY <1>2 DEF Return, InterfacesCome, TypeNetwork, scanVars, hookVars
  <2>2. network' \in Networks \cup {NoNetwork}
    BY <1>1, <1>2, NetworkScanAssumption
    DEF Return, InterfacesCome, TypeNetwork, scanVars, pageVars
  <2>3. ScansOK' /\ scans' \in [1 .. MaxScans -> ScanRecords]
    BY <1>1, <2>1 DEF ScansOK
  <2>4. QED
    BY <1>1, <2>1, <2>2, <2>3, HookRests
<1>3. CASE Leave
  <2>1. /\ active' = 0 /\ starting' = 0 /\ awaited' = {} /\ overtaken' = FALSE /\ kept' = <<>> /\ scanSession' = 0
        /\ results' = <<>> /\ scanned' = 0 /\ network' = NoNetwork /\ UNCHANGED <<scans, wire>>
    BY <1>3 DEF Leave
  <2>2. ScanTypeOK' /\ ScansOK' /\ InTurn(wire)'
    <3>1. /\ kept' \in Seq(ScanEvents) /\ {0} \subseteq 0 .. MaxScans
          /\ {} \subseteq 1 .. MaxScans /\ 0 \in Nat
      BY <2>1, NetworkScanAssumption
    <3>2. ScanTypeOK'
      BY <1>1, <2>1, <3>1 DEF ScanTypeOK
    <3>3. QED
      BY <1>1, <2>1, <3>2 DEF ScansOK, InTurn, SaysTrue, Follows
  <2>3. QED
    BY <2>1, <2>2 DEF ScanInv, AwaitedInv, StartInv, ActiveInv, ResultsOfThisScan
<1>4. QED
  BY <1>2, <1>3

\* The page shows the hosts of the scan it names, and no scan it let through is refused
\* for anything but its network.
THEOREM ScanIsShown == ScanSpec => []ResultsOfThisScan /\ []RefusedForItsNetwork
<1>1. ScanInit => ScanInv
  <2> SUFFICES ASSUME ScanInit PROVE ScanInv
    OBVIOUS
  <2>1. /\ network = NoNetwork /\ active = 0 /\ starting = 0 /\ awaited = {}
        /\ overtaken = FALSE /\ kept = <<>> /\ scanSession = 0
        /\ results = <<>> /\ scanned = 0 /\ wire = <<>> /\ MaxScans \in Nat
        /\ scans = [n \in 1 .. MaxScans |-> Unasked]
    BY NetworkScanAssumption DEF ScanInit, FreshHook
  <2>2. Unasked \in ScanRecords /\ Unasked.at = "unused" /\ Unasked.done = 0 /\ Unasked.usable = FALSE
    BY DEF Unasked, ScanRecords, ScanStates
  <2>3. ScanTypeOK /\ ScansOK
    <3>1. kept \in Seq(ScanEvents) /\ wire \in Seq(ScanEvents) /\ 0 \in 0 .. MaxScans /\ 0 \in Nat
      BY <2>1
    <3>2. scans \in [1 .. MaxScans -> ScanRecords] /\ \A n \in 1 .. MaxScans : scans[n] = Unasked
      BY <2>1, <2>2
    <3>3. ScanTypeOK
      BY <2>1, <3>1, <3>2 DEF ScanTypeOK
    <3>4. QED
      BY <2>2, <3>2, <3>3 DEF ScansOK
  <2>4. QED
    BY <2>1, <2>3 DEF ScanInv, InTurn, AwaitedInv, StartInv, ActiveInv, ResultsOfThisScan
<1>2. ScanInv /\ [ScanNext]_scanVars => ScanInv'
  <2> SUFFICES ASSUME ScanInv, [ScanNext]_scanVars PROVE ScanInv'
    OBVIOUS
  <2>1. CASE ServiceSteps
    BY <2>1, ServiceStep DEF ServiceSteps
  <2>2. CASE \E n \in 1 .. MaxScans : Started(n)
    BY <2>2, StartedStep
  <2>3. CASE EventComes
    BY <2>3, EventStep
  <2>4. CASE \/ \E n \in 1 .. MaxScans, d \in ScanDrafts : Start(n, d)
             \/ \E n \in 1 .. MaxScans : StartRefused(n)
             \/ Stop \/ \E s \in stops : CancelScan(s) \/ Stopped(s)
    BY <2>4, CommandStep
  <2>5. CASE Leave \/ Return \/ InterfacesCome \/ TypeNetwork \/ UNCHANGED scanVars
    BY <2>5, PageStep
  <2>6. QED
    BY <2>1, <2>2, <2>3, <2>4, <2>5 DEF ScanNext, Answers
<1>3. ScanInv => ResultsOfThisScan /\ RefusedForItsNetwork
  BY DEF ScanInv, ScansOK, RefusedForItsNetwork
<1>4. QED
  BY <1>1, <1>2, <1>3, PTL DEF ScanSpec
===============================================================================
