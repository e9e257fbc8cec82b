------------------------------- MODULE MCPanels -------------------------------
(***************************************************************************)
(* The panels and pages around the terminals, for TLC, one of them in each *)
(* behaviour.  They do not share state: what one promises another takes as *)
(* it is.                                                                  *)
(***************************************************************************)
EXTENDS TransferView, WslPanel, SerialPort, SerialSends, NetworkScan, HostOverview

VARIABLE part   \* the panel that runs

panelsVars ==
    <<part, viewVars, wslVars, portVars, sendsVars, scanVars, hostVars>>

PortRange(a, b) == [from |-> a, to |-> b]

\* Two hosts in one network, none in the other.
ScanHosts == [c \in Networks |-> IF c = "lan" THEN 2 ELSE 0]

\* Drafts at the limits of what may be scanned, and past them.
ScanDraftSet ==
    [timeout : {180000}, concurrency : {128, 129}, ping : {TRUE}, tcp : {TRUE},
     ports : {<<PortRange(1, 32)>>, <<PortRange(1, 33)>>}]

\* The first host refuses, does not answer or fails; the second answers.
HostsInOrder == <<"h1", "h2">>
HostNatures == {[h1 |-> n, h2 |-> "answers"] : n \in {"refuses", "hangs", "fails"}}

Parts == {"view", "wsl", "port", "sends", "scan", "hosts"}

\* The inputs of a panel that does not run are of no interest.
PanelsInit ==
    /\ part \in Parts
    /\ ViewInit /\ PortInit /\ SendsInit /\ ScanInit
    /\ WslInit /\ (part # "wsl" => \A t \in WslIds : wslQueue[t] = "absent")
    /\ HostInit
    /\ part # "hosts" => nature.h1 = "hangs" /\ password = {"h2"}

\* Every panel but p stays as it is.
Only(p) ==
    /\ part = p /\ UNCHANGED part
    /\ p # "view" => UNCHANGED viewVars
    /\ p # "wsl" => UNCHANGED wslVars
    /\ p # "port" => UNCHANGED portVars
    /\ p # "sends" => UNCHANGED sendsVars
    /\ p # "scan" => UNCHANGED scanVars
    /\ p # "hosts" => UNCHANGED hostVars

PanelsNext ==
    \/ Only("view") /\ ViewNext
    \/ Only("wsl") /\ WslNext
    \/ Only("port") /\ PortNext
    \/ Only("sends") /\ SendsNext
    \/ Only("scan") /\ ScanNext
    \/ Only("hosts") /\ HostNext

\* ViewFairness, WslFairness, SendsFairness, ScanFairness, HostFairness and PortFairness,
\* each for the behaviours in which that panel runs.
PanelsFairness ==
    /\ WF_panelsVars(\/ Only("view") /\ Poll
                     \/ Only("wsl") /\ PollTasks
                     \/ Only("sends") /\ Elapse
                     \/ Only("scan") /\ ServiceSteps
                     \/ Only("hosts") /\ RoundSteps("timer")
                     \/ Only("port") /\ CloseRuns)
    /\ WF_panelsVars(\/ Only("view") /\ Arrives
                     \/ Only("wsl") /\ WslArrives
                     \/ Only("sends") /\ Fire
                     \/ Only("scan") /\ Answers
                     \/ Only("hosts") /\ RoundSteps("button")
                     \/ Only("port") /\ CloseSentRuns)
    /\ WF_panelsVars(\/ Only("sends") /\ Written
                     \/ Only("scan") /\ EventComes
                     \/ Only("hosts") /\ TimerRound
                     \/ Only("port") /\ ReconfigureRuns)
    /\ WF_panelsVars(\/ Only("hosts") /\ Tick
                     \/ Only("port") /\ (OpenFindsSession \/ OpenFails \/ OpenStartsReader))
    /\ \A h \in HostIds : WF_panelsVars(Only("hosts") /\ HostReplies(h))
    /\ WF_panelsVars(Only("port") /\ OpenInserts) /\ WF_panelsVars(Only("port") /\ ReaderEnds)
    /\ WF_panelsVars(Only("port") /\ PortAnswered) /\ WF_panelsVars(Only("port") /\ AnsweredNo)
    /\ WF_panelsVars(Only("port") /\ ActionOver) /\ WF_panelsVars(Only("port") /\ PollPorts)
    /\ WF_panelsVars(Only("port") /\ PortsListed) /\ WF_panelsVars(Only("port") /\ NoticeArrives)

PanelsSpec == PanelsInit /\ [][PanelsNext]_panelsVars /\ PanelsFairness

\* TimedGoesOn, where the panel that sends runs: a timed slot that can be sent is sent
\* again and again, once the user and the output have come to rest.
TimedSendsGoOn == part = "sends" => TimedGoesOn

\* ReachableIsShown, where the list of hosts runs: a host that answers is shown as it is
\* in the end, whatever the hosts before it in the list do.
ReachableHostIsShown == part = "hosts" => ReachableIsShown
=============================================================================
