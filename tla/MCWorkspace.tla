------------------------------ MODULE MCWorkspace ------------------------------
(***************************************************************************)
(* The parts of the workspace, for TLC, one part in each behaviour.  The   *)
(* parts do not share state: what one promises another takes as it is.     *)
(***************************************************************************)
EXTENDS SessionTabs, WindowHandover, TerminalOutput, TerminalSize, TerminalIme, SplitGrid,
        AppTabs, TerminalStatus, SavedCommands, SerialLog, SftpBrowse, HostTrust, AppUpdate,
        SettingsSaving

VARIABLE part   \* the part that runs

workspaceVars ==
    <<part, tabVars, handoverVars, outputVars, sizeVars, imeVars, gridVars, appVars, statusVars,
      savedVars, logVars, browseVars, trustVars, updateVars, settingsVars>>

\* What the storage has before: nothing, or a command next to a damaged entry.
SavedBefore ==
    {<<>>, <<[id |-> 90, command |-> "ls", ok |-> TRUE], [id |-> 91, command |-> "ls", ok |-> FALSE]>>}

Parts == {"tabs", "handover", "output", "size", "ime", "grid", "app", "status", "saved", "log",
          "browse", "trust", "update", "settings"}

\* The inputs of a part that does not run are of no interest.
WorkspaceInit ==
    /\ part \in Parts
    /\ TabsInit /\ HandoverInit /\ OutputInit /\ ImeInit /\ GridInit /\ AppInit /\ LogInit
    /\ SizeInit /\ (part # "size" => box = CHOOSE b \in Boxes : TRUE) /\ (part # "size" => pty = box)
    /\ StatusInit /\ (part # "status" => statusKind = "ssh")
    /\ BrowseInit /\ UpdateInit
    /\ SavedInit /\ (part # "saved" => storage = <<>>)
    /\ TrustInit
    /\ part # "trust" => /\ server = CHOOSE at \in [Profiles -> SshServers] : TRUE
                         /\ serverKey = CHOOSE of \in [SshServers -> Keys] : TRUE
    /\ SettingsInit /\ (part # "settings" => ~passwordKept /\ stored = settings[PagesWindow])

\* Every part but p stays as it is.
Only(p) ==
    /\ part = p /\ UNCHANGED part
    /\ p # "tabs" => UNCHANGED tabVars
    /\ p # "handover" => UNCHANGED handoverVars
    /\ p # "output" => UNCHANGED outputVars
    /\ p # "size" => UNCHANGED sizeVars
    /\ p # "ime" => UNCHANGED imeVars
    /\ p # "grid" => UNCHANGED gridVars
    /\ p # "app" => UNCHANGED appVars
    /\ p # "status" => UNCHANGED statusVars
    /\ p # "saved" => UNCHANGED savedVars
    /\ p # "log" => UNCHANGED logVars
    /\ p # "browse" => UNCHANGED browseVars
    /\ p # "trust" => UNCHANGED trustVars
    /\ p # "update" => UNCHANGED updateVars
    /\ p # "settings" => UNCHANGED settingsVars

WorkspaceNext ==
    \/ Only("tabs") /\ TabsNext
    \/ Only("handover") /\ HandoverNext
    \/ Only("output") /\ OutputNext
    \/ Only("size") /\ SizeNext
    \/ Only("ime") /\ ImeNext
    \/ Only("grid") /\ GridNext
    \/ Only("app") /\ AppNext
    \/ Only("status") /\ StatusNext
    \/ Only("saved") /\ SavedNext
    \/ Only("log") /\ LogNext
    \/ Only("browse") /\ BrowseNext
    \/ Only("trust") /\ TrustNext
    \/ Only("update") /\ UpdateNext
    \/ Only("settings") /\ SettingsNext

WorkspaceSpec == WorkspaceInit /\ [][WorkspaceNext]_workspaceVars
=============================================================================
