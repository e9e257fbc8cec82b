----------------------------- MODULE SettingsSaving -----------------------------
(***************************************************************************)
(* The settings: shown by every window, and saved by calls of which those  *)
(* of one window wait for one another (usePortivaWorkspace.saveSettings).  *)
(* The main window has the pages that change them field by field; a window *)
(* that shows a session apart is the whole application once more, and has  *)
(* the keys for the size of the letters.  Every save is of all the         *)
(* settings as its window shows them, and no window is told of another's.  *)
(*                                                                         *)
(* A picture and the password of the proxy take time (ThemeSettings.tsx,   *)
(* NetworkSettings.tsx): what they change they change in the settings of   *)
(* the render they began in.  The service answers the calls of a window in *)
(* their order, a call for the settings always, one that saves unless the  *)
(* settings are not valid or cannot be written.  The network page stays    *)
(* open.  A window that is closed is one that does nothing more, and one   *)
(* that opens late is one whose first load is answered late.               *)
(***************************************************************************)
EXTENDS Naturals, Sequences, SequencesExt

CONSTANTS SettingsWindows, \* windows of the application
          PagesWindow, \* the main one, with the pages of the settings
          Sizes,       \* sizes of the letters that can be typed
          ValidSizes,  \* those that validate_settings takes
          Users,       \* names for the proxy
          NoUser,      \* the blank one
          NotBegun,    \* of a slow change that is not under way
          MaxChanges,  \* changes by the user
          MaxReloads   \* loads of the workspace after the first

ASSUME SettingsSavingAssumption ==
    /\ PagesWindow \in SettingsWindows
    /\ ValidSizes \subseteq Sizes /\ ValidSizes # {} /\ NoUser \in Users
    /\ MaxChanges \in Nat /\ MaxReloads \in Nat

VARIABLES
    stored,      \* settings of the store
    outdated,    \* windows that have had no answer since another one's save was stored
    passwordKept,\* whether the keyring has the password of the proxy
    settings,    \* settings shown, by window
    sequence,    \* settingsSaveSequenceRef
    unsent,      \* saves that wait in settingsSaveQueueRef
    serviceCalls,\* calls at the service, in their order
    slow,        \* slow changes under way: the settings and the name of their render
    passwordSaved, \* the page's idea of passwordKept
    settingChanges,     \* changes so far
    reloads      \* loads so far

settingsVars == <<stored, outdated, passwordKept, settings, sequence, unsent, serviceCalls, slow,
                  passwordSaved, settingChanges, reloads>>

\* What the windows have of their own, the calls and what waits.
WindowSide == <<settings, sequence, unsent, serviceCalls>>
StoreSide == <<stored, outdated>>
PagesSide == <<passwordKept, slow, passwordSaved, settingChanges>>

SettingsSet(sizes) ==
    [size : sizes, user : Users, proxy : BOOLEAN, auth : BOOLEAN, picture : {0}]

Load == [kind |-> "load"]

DefaultSettings ==
    [size |-> CHOOSE s \in ValidSizes : TRUE, user |-> NoUser, proxy |-> FALSE,
     auth |-> FALSE, picture |-> 0]

NoSlowChange == [c \in {"picture", "password", "clear"} |-> NotBegun]

SettingsInit ==
    /\ passwordKept \in BOOLEAN /\ passwordSaved = passwordKept
    /\ stored \in {s \in SettingsSet(ValidSizes) : s.auth => s.proxy /\ s.user # NoUser}
    /\ outdated = {}
    /\ settings = [w \in SettingsWindows |-> DefaultSettings]
    /\ sequence = [w \in SettingsWindows |-> 0]
    /\ unsent = [w \in SettingsWindows |-> <<>>]
    /\ serviceCalls = [w \in SettingsWindows |-> <<Load>>]
    /\ slow = NoSlowChange /\ settingChanges = 0 /\ reloads = 0

-----------------------------------------------------------------------------
(* Faulty variants of what follows, for the properties to tell apart.       *)

\* A save that fails puts back what was shown when it began.
RestoredAsBefore(w, call) ==
    /\ settings' = [settings EXCEPT ![w] = call.before]
    /\ serviceCalls' = [serviceCalls EXCEPT ![w] = Tail(@)]

-----------------------------------------------------------------------------
(* saveSettings                                                             *)

Save(w, next) ==
    /\ sequence' = [sequence EXCEPT ![w] = @ + 1] /\ settings' = [settings EXCEPT ![w] = next]
    /\ unsent' = [unsent EXCEPT ![w] =
         Append(@, [kind |-> "save", turn |-> sequence[w] + 1, value |-> next,
                    before |-> settings[w]])]

\* The save before has been answered.
SendSave(w) ==
    /\ unsent[w] # <<>>
    /\ ~\E i \in DOMAIN serviceCalls[w] : serviceCalls[w][i].kind = "save"
    /\ serviceCalls' = [serviceCalls EXCEPT ![w] = Append(@, Head(unsent[w]))]
    /\ unsent' = [unsent EXCEPT ![w] = Tail(@)]
    /\ UNCHANGED <<StoreSide, settings, sequence, PagesSide, reloads>>

CallOver(w) == serviceCalls' = [serviceCalls EXCEPT ![w] = Tail(@)]

\* The last save has failed: what is stored is asked for.
Restored(w, call) ==
    /\ serviceCalls' = [serviceCalls EXCEPT ![w] = Append(Tail(@), [kind |-> "restore"])]
    /\ UNCHANGED settings

\* settings_update, which tells no other window, and its answer: only that of the last
\* save is shown.
SaveStored(w, call) ==
    /\ call.value.size \in ValidSizes /\ stored' = call.value /\ CallOver(w)
    /\ settings' = IF call.turn = sequence[w] THEN [settings EXCEPT ![w] = call.value] ELSE settings
    /\ outdated' = SettingsWindows \ {w}

\* The settings are not valid, or could not be written.
SaveFails(w, call) ==
    /\ IF call.turn = sequence[w] THEN Restored(w, call) ELSE CallOver(w) /\ UNCHANGED settings
    /\ outdated' = outdated \ {w} /\ UNCHANGED stored

\* settings_get and its answer, to a load and after a save that failed.
GetAnswered(w) ==
    /\ settings' = [settings EXCEPT ![w] = stored] /\ CallOver(w)
    /\ outdated' = outdated \ {w} /\ UNCHANGED stored

SettingsService(w) ==
    /\ serviceCalls[w] # <<>>
    /\ LET call == Head(serviceCalls[w]) IN
       IF call.kind = "save" THEN SaveStored(w, call) \/ SaveFails(w, call) ELSE GetAnswered(w)
    /\ UNCHANGED <<sequence, unsent, PagesSide, reloads>>

\* refreshWorkspace
Reload(w) ==
    /\ reloads < MaxReloads /\ reloads' = reloads + 1
    /\ serviceCalls' = [serviceCalls EXCEPT ![w] = Append(@, Load)]
    /\ UNCHANGED <<StoreSide, settings, sequence, unsent, PagesSide>>

-----------------------------------------------------------------------------
(* The pages, and the keys of every window.                                 *)

UserSets(w, next) ==
    /\ settingChanges < MaxChanges /\ settingChanges' = settingChanges + 1 /\ Save(w, next)
    /\ UNCHANGED <<StoreSide, passwordKept, serviceCalls, slow, passwordSaved, reloads>>

PagesShow == settings[PagesWindow]

\* TerminalPaletteSettings takes any number; updateApplicationFontSize keeps to the valid.
TypeSize == \E size \in Sizes : UserSets(PagesWindow, [PagesShow EXCEPT !.size = size])
StepSize(w) ==
    \E size \in ValidSizes \ {settings[w].size} : UserSets(w, [settings[w] EXCEPT !.size = size])

SetProxy(of, auth, user) == [of EXCEPT !.auth = auth, !.user = user]

SelectMode ==
    \E on \in BOOLEAN :
        UserSets(PagesWindow, [PagesShow EXCEPT !.proxy = on, !.auth = on /\ PagesShow.auth])

\* commitUsername
CommitUsername ==
    \E user \in Users :
        LET auth == user # NoUser \/ passwordSaved IN
        /\ PagesShow.proxy /\ (user # PagesShow.user \/ auth # PagesShow.auth)
        /\ UserSets(PagesWindow, SetProxy(PagesShow, auth, user))

\* uploadBackground, commitPassword and clearPassword, until their await.
BeginSlow(c) ==
    /\ settingChanges < MaxChanges /\ settingChanges' = settingChanges + 1 /\ slow[c] = NotBegun
    /\ c # "picture" =>
         PagesShow.proxy /\ slow["password"] = NotBegun /\ slow["clear"] = NotBegun
    /\ c = "clear" => passwordSaved
    /\ slow' = [slow EXCEPT ![c] = PagesShow]
    /\ UNCHANGED <<StoreSide, WindowSide, passwordKept, passwordSaved, reloads>>

\* The picture could not be read, or the keyring did not answer.
SlowFails(c) ==
    /\ slow[c] # NotBegun /\ slow' = [slow EXCEPT ![c] = NotBegun]
    /\ UNCHANGED <<StoreSide, WindowSide, passwordKept, passwordSaved, settingChanges, reloads>>

\* What follows the await, with the settings of the render it began in.
PictureReady ==
    LET seen == slow["picture"] IN
    /\ seen # NotBegun /\ slow' = [slow EXCEPT !["picture"] = NotBegun]
    /\ Save(PagesWindow, [seen EXCEPT !.picture = settingChanges])
    /\ UNCHANGED <<StoreSide, passwordKept, serviceCalls, passwordSaved, settingChanges, reloads>>

PasswordSet ==
    LET seen == slow["password"] IN
    /\ seen # NotBegun /\ slow' = [slow EXCEPT !["password"] = NotBegun]
    /\ passwordKept' = TRUE /\ passwordSaved' = TRUE
    /\ IF seen.auth THEN UNCHANGED <<settings, sequence, unsent>>
       ELSE Save(PagesWindow, SetProxy(seen, TRUE, seen.user))
    /\ UNCHANGED <<StoreSide, serviceCalls, settingChanges, reloads>>

PasswordCleared ==
    LET seen == slow["clear"] IN
    /\ seen # NotBegun /\ slow' = [slow EXCEPT !["clear"] = NotBegun]
    /\ passwordKept' = FALSE /\ passwordSaved' = FALSE
    /\ Save(PagesWindow, SetProxy(seen, seen.user # NoUser, seen.user))
    /\ UNCHANGED <<StoreSide, serviceCalls, settingChanges, reloads>>

-----------------------------------------------------------------------------
SettingsNext ==
    \/ \E w \in SettingsWindows : SendSave(w) \/ SettingsService(w) \/ Reload(w) \/ StepSize(w)
    \/ TypeSize \/ SelectMode \/ CommitUsername
    \/ PictureReady \/ PasswordSet \/ PasswordCleared
    \/ \E c \in DOMAIN slow : BeginSlow(c) \/ SlowFails(c)

SettingsSpec == SettingsInit /\ [][SettingsNext]_settingsVars

AllAnswered(w) == unsent[w] = <<>> /\ serviceCalls[w] = <<>>

\* When every call of a window is answered, it shows the settings that are stored, though
\* saves were refused, overtook the answers of earlier ones, and a load came between; but
\* for what another window has stored since its last answer, of which it is not told.
ShownAsStored ==
    \A w \in SettingsWindows \ outdated : AllAnswered(w) => settings[w] = stored
=============================================================================
