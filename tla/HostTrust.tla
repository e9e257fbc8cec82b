------------------------------- MODULE HostTrust -------------------------------
(***************************************************************************)
(* Connecting a saved profile: the list of connections and the profile     *)
(* dialog that ask for it, the question whether a server's fingerprint is  *)
(* trusted (App.tsx, HostTrustDialog), and the saved password the dialog   *)
(* reads (ProfileDialogHost, ConnectionProfileDialog).                     *)
(***************************************************************************)
EXTENDS Naturals, FiniteSets

CONSTANTS Profiles,       \* saved SSH profiles
          SshServers,        \* where a profile may point
          Keys,           \* fingerprints a server may have
          NoKey,
          MaxConnects,    \* connects and tests asked for
          MaxKeyChanges   \* times a server changes its key

ASSUME HostTrustAssumption ==
    /\ Profiles # {} /\ SshServers # {} /\ Keys # {} /\ NoKey \notin Keys
    /\ MaxConnects \in Nat /\ MaxKeyChanges \in Nat

VARIABLES
    server,     \* the server of each profile, as saved
    serverKey,  \* the key each server has
    knownKey,   \* the key trusted for each server
    connects,   \* connects and tests under way
    asked,      \* how many there were
    changes,    \* how often a key changed
    pending,    \* pendingKnownHost
    request,    \* hostTrustRequest
    trustBusy,  \* hostTrustBusy
    trusting,   \* confirmHostTrust, until the fingerprint is stored
    confirmed,  \* the fingerprints a user confirmed, by server
    dialog      \* profileDialog with its draft

trustVars == <<server, serverKey, knownKey, connects, asked, changes, pending, request,
               trustBusy, trusting, confirmed, dialog>>

NoQuestion == [none |-> TRUE]
NoDialog == [open |-> FALSE]

\* A call: of which profile, at which server as the caller had it, who waits
\* for it ("list", "dialog", "test", or "trust" for the one after a question).
Call(p, s, by) == [profile |-> p, at |-> s, by |-> by]

\* The dialog opens: a remembered password is being read.
DialogOf(p, remembered) ==
    [open |-> TRUE, profile |-> p, draft |-> server[p], busy |-> FALSE,
     secret |-> "empty", edited |-> FALSE, loading |-> remembered]

TrustInit ==
    /\ server \in [Profiles -> SshServers] /\ serverKey \in [SshServers -> Keys]
    /\ knownKey = [s \in SshServers |-> NoKey]
    /\ connects = {} /\ asked = 0 /\ changes = 0
    /\ pending = NoQuestion /\ request = NoQuestion
    /\ trustBusy = FALSE /\ trusting = NoQuestion /\ confirmed = {}
    /\ dialog = NoDialog

\* pendingHostTrust: the question is shown when both halves agree.
Asking ==
    /\ request # NoQuestion /\ pending # NoQuestion
    /\ request.profile = pending.profile /\ request.at = pending.at

QuestionSide == <<pending, request, trustBusy, trusting, confirmed>>

-----------------------------------------------------------------------------
(* Faulty variants of what follows, for the properties to tell apart.       *)

\* The fingerprint is looked up when it is stored, not when it was confirmed.
StoredLater(t) == IF pending # NoQuestion THEN pending ELSE t

-----------------------------------------------------------------------------
(* Asking for a connection.                                                 *)

Ask(p, s, by) ==
    /\ asked < MaxConnects /\ asked' = asked + 1
    /\ connects' = connects \cup {Call(p, s, by)}

\* connectSavedConnection: one at a time for a profile.
ConnectSaved(p) ==
    /\ \A c \in connects : ~(c.profile = p /\ c.by = "list")
    /\ Ask(p, server[p], "list")
    /\ UNCHANGED <<server, serverKey, knownKey, changes, QuestionSide, dialog>>

\* connectDraft and testDraft: the draft as it is, saved first to connect.
DialogCalls ==
    /\ dialog.open /\ ~dialog.busy
    /\ \/ /\ Ask(dialog.profile, dialog.draft, "dialog")
          /\ server' = [server EXCEPT ![dialog.profile] = dialog.draft]
       \/ Ask(dialog.profile, dialog.draft, "test") /\ UNCHANGED server
    /\ dialog' = [dialog EXCEPT !.busy = TRUE]
    /\ UNCHANGED <<serverKey, knownKey, changes, QuestionSide>>

-----------------------------------------------------------------------------
(* Answers.                                                                 *)

\* The dialog the call came from, if it still shows that profile.
Served(c, d) ==
    IF d.open /\ c.by \in {"dialog", "test"} THEN [d EXCEPT !.busy = FALSE] ELSE d

\* openProfileConnection, when the key is the one that is trusted: connected,
\* whatever the reason, the dialog it came from is closed.
Connected ==
    /\ \E c \in connects :
         /\ knownKey[c.at] = serverKey[c.at]
         /\ connects' = connects \ {c} /\ pending' = NoQuestion
         /\ dialog' = IF c.by \in {"dialog", "trust"} THEN NoDialog ELSE Served(c, dialog)
         /\ trustBusy' = (trustBusy /\ c.by # "trust")
    /\ UNCHANGED <<server, serverKey, knownKey, asked, changes, request, trusting, confirmed>>

\* resolveHostTrustFailure and testProfile, when it is not: the fingerprint
\* the server has, and the question of the caller (registerHostTrustRequest).
NeedsTrust ==
    /\ \E c \in connects :
         /\ knownKey[c.at] # serverKey[c.at]
         /\ connects' = connects \ {c}
         /\ pending' = [profile |-> c.profile, at |-> c.at, key |-> serverKey[c.at]]
         /\ request' = [profile |-> c.profile, at |-> c.at, connect |-> c.by # "test"]
         /\ dialog' = Served(c, dialog)
         /\ trustBusy' = (trustBusy /\ c.by # "trust")
    /\ UNCHANGED <<server, serverKey, knownKey, asked, changes, trusting, confirmed>>

\* Any other failure.
ConnectFails ==
    /\ \E c \in connects :
         /\ connects' = connects \ {c}
         /\ dialog' = Served(c, dialog)
         /\ pending' = IF c.by = "test" THEN NoQuestion ELSE pending
         /\ trustBusy' = (trustBusy /\ c.by # "trust")
    /\ UNCHANGED <<server, serverKey, knownKey, asked, changes, request, trusting, confirmed>>

-----------------------------------------------------------------------------
(* The question.                                                            *)

\* cancelHostTrust: neither button nor key while busy.
CancelTrust ==
    /\ Asking /\ ~trustBusy
    /\ request' = NoQuestion /\ pending' = NoQuestion
    /\ UNCHANGED <<server, serverKey, knownKey, connects, asked, changes,
                   trustBusy, trusting, confirmed, dialog>>

\* confirmHostTrust, with what its render showed ...
ConfirmTrust ==
    /\ Asking /\ ~trustBusy /\ trustBusy' = TRUE
    /\ trusting' = [profile |-> request.profile, at |-> request.at,
                    connect |-> request.connect, key |-> pending.key]
    /\ confirmed' = confirmed \cup {[at |-> pending.at, key |-> pending.key]}
    /\ UNCHANGED <<server, serverKey, knownKey, connects, asked, changes, pending, request, dialog>>

\* ... trustProfileHost: the fingerprint its caller saw ...
Stored(t) == t

\* ... and then the connection again, which goes on whatever is shown.
TrustStored ==
    /\ trusting # NoQuestion /\ trusting' = NoQuestion
    /\ LET t == Stored(trusting) IN knownKey' = [knownKey EXCEPT ![t.at] = t.key]
    /\ pending' = NoQuestion /\ request' = NoQuestion
    /\ IF trusting.connect
       THEN /\ connects' = connects \cup {Call(trusting.profile, trusting.at, "trust")}
            /\ UNCHANGED trustBusy
       ELSE trustBusy' = FALSE /\ UNCHANGED connects
    /\ UNCHANGED <<server, serverKey, asked, changes, confirmed, dialog>>

\* hostTrustBusy after a fingerprint could not be stored.
BusyAfterRefusal == FALSE

TrustRefused ==
    /\ trusting # NoQuestion /\ trusting' = NoQuestion
    /\ trustBusy' = BusyAfterRefusal
    /\ UNCHANGED <<server, serverKey, knownKey, connects, asked, changes,
                   pending, request, confirmed, dialog>>

-----------------------------------------------------------------------------
(* The profile dialog.                                                      *)

\* editSavedConnection and the like; the one that is open gives way.
OpenDialog(p) ==
    /\ ~dialog.open
    /\ \E remembered \in BOOLEAN : dialog' = DialogOf(p, remembered)
    /\ UNCHANGED <<server, serverKey, knownKey, connects, asked, changes, QuestionSide>>

CloseDialog ==
    /\ dialog.open /\ ~dialog.busy /\ dialog' = NoDialog
    /\ UNCHANGED <<server, serverKey, knownKey, connects, asked, changes, QuestionSide>>

\* hasSameSshPasswordScope: another server than the saved one drops the secret.
EditServer ==
    /\ dialog.open /\ ~dialog.busy
    /\ \E s \in SshServers \ {dialog.draft} :
         dialog' = [dialog EXCEPT !.draft = s,
                      !.secret = IF s = server[dialog.profile] THEN @ ELSE "empty"]
    /\ UNCHANGED <<server, serverKey, knownKey, connects, asked, changes, QuestionSide>>

TypeSecret ==
    /\ dialog.open /\ ~dialog.busy
    /\ dialog' = [dialog EXCEPT !.secret = "typed", !.edited = TRUE]
    /\ UNCHANGED <<server, serverKey, knownKey, connects, asked, changes, QuestionSide>>

\* The saved password comes: only where nothing was typed.
Fills(d) == ~d.edited

SecretRead ==
    /\ dialog.open /\ dialog.loading
    /\ dialog' = [dialog EXCEPT !.loading = FALSE,
                    !.secret = IF Fills(dialog) THEN "saved" ELSE @]
    /\ UNCHANGED <<server, serverKey, knownKey, connects, asked, changes, QuestionSide>>

\* saveDraft: the dialog goes on with the profile as saved.
SaveDraft ==
    /\ dialog.open /\ ~dialog.busy
    /\ server' = [server EXCEPT ![dialog.profile] = dialog.draft]
    /\ \E remembered \in BOOLEAN :
         dialog' = [DialogOf(dialog.profile, remembered) EXCEPT !.draft = dialog.draft]
    /\ UNCHANGED <<serverKey, knownKey, connects, asked, changes, QuestionSide>>

\* A server is set up anew.
ServerChangesKey ==
    /\ changes < MaxKeyChanges /\ changes' = changes + 1
    /\ \E s \in SshServers, k \in Keys : serverKey[s] # k /\ serverKey' = [serverKey EXCEPT ![s] = k]
    /\ UNCHANGED <<server, knownKey, connects, asked, QuestionSide, dialog>>

-----------------------------------------------------------------------------
TrustNext ==
    \/ \E p \in Profiles : ConnectSaved(p) \/ OpenDialog(p)
    \/ DialogCalls \/ Connected \/ NeedsTrust \/ ConnectFails
    \/ CancelTrust \/ ConfirmTrust \/ TrustStored \/ TrustRefused
    \/ CloseDialog \/ EditServer \/ TypeSecret \/ SecretRead \/ SaveDraft
    \/ ServerChangesKey

TrustSpec == TrustInit /\ [][TrustNext]_trustVars

\* A fingerprint is trusted only for the server it was shown for, and only
\* after a user confirmed that very fingerprint, whatever other question came
\* while it was being stored.
TrustedWasShown ==
    [][\A s \in SshServers : knownKey'[s] # knownKey[s] => [at |-> s, key |-> knownKey'[s]] \in confirmed]_trustVars

\* What a user typed stays until the user changes it: a saved password that is
\* read late does not take its place.
TypedStays ==
    [][dialog.open /\ dialog.secret = "typed" /\ dialog'.open /\ dialog'.secret = "saved" => FALSE]_trustVars

\* What was trusted was shown, and what was typed stays.
TrustSound == TrustedWasShown /\ TypedStays
=============================================================================
