-------------------------------- MODULE MCHttp --------------------------------
(***************************************************************************)
(* The parts of the HTTP console for TLC, one part in each behaviour.  The *)
(* parts do not share state: what one promises another takes as it is.     *)
(***************************************************************************)
EXTENDS HttpTree, HttpSend, HttpSaving, HttpRows, HttpMessage, HttpImport

CONSTANTS u1, u2, nil

VARIABLE part   \* the part that runs

httpVars == <<part, treeVars, sendVars, savingVars, rowVars, messageVars, importVars>>

\* What the store has: two workspaces, or one with a project.
Trees == {
    <<[id |-> 3, requests |-> <<2>>, projects |-> <<>>], [id |-> 1, requests |-> <<>>, projects |-> <<>>]>>,
    <<[id |-> 1, requests |-> <<2>>, projects |-> <<[id |-> 3, requests |-> <<>>]>>]>>}

\* A document with one request twice, and one of two projects of the same name.
Docs == {
    [requests |-> <<Req(1, u1, 0), Req(2, u1, 0)>>, environments |-> <<>>, environment |-> 0,
     projects |-> <<>>],
    [requests |-> <<>>, environments |-> <<7>>, environment |-> 7, projects |->
       <<[id |-> 1, name |-> <<1>>, requests |-> <<Req(2, u2, 0)>>, variables |-> FALSE],
         [id |-> 3, name |-> <<1>>, requests |-> <<Req(4, nil, 0)>>, variables |-> TRUE]>>]}

Parts == {"tree", "send", "saving", "rows", "message", "import"}

\* The inputs of a part that does not run are of no interest.
HttpInit ==
    /\ part \in Parts
    /\ TreeInit /\ SavingInit /\ RowsInit
    /\ IF part = "send" THEN SendInit ELSE SendInit /\ desktop /\ subject = CHOOSE s \in Plain : TRUE
    /\ IF part = "import" THEN ImportInit
       ELSE ImportInit /\ ToSet(current.requests) = {Req(1, nil, 0)}
                       /\ ToSet(current.projects[1].requests) = {Req(2, nil, 0)}
    /\ IF part = "message" THEN MessageInit ELSE draft = <<>> /\ scoped = <<>> /\ payload = <<>>

\* Every part but p stays as it is.
Only(p) ==
    /\ part = p /\ UNCHANGED part
    /\ p # "tree" => UNCHANGED treeVars
    /\ p # "send" => UNCHANGED sendVars
    /\ p # "saving" => UNCHANGED savingVars
    /\ p # "rows" => UNCHANGED rowVars
    /\ p # "message" => UNCHANGED messageVars
    /\ p # "import" => UNCHANGED importVars

HttpNext ==
    \/ Only("tree") /\ TreeNext
    \/ Only("send") /\ SendNext
    \/ Only("saving") /\ SavingNext
    \/ Only("rows") /\ RowsNext
    \/ Only("message") /\ MessageNext
    \/ Only("import") /\ ImportNext

\* SendFairness and SavingFairness, for the behaviours in which that part runs.
HttpFairness ==
    /\ WF_httpVars(\/ Only("send") /\ (ReadFiles \/ ReadFails)
                   \/ Only("saving") /\ TimerFires)
    /\ WF_httpVars(\/ Only("send") /\ Listen
                   \/ Only("saving") /\ \E ok \in BOOLEAN : Serve(ok))
    /\ WF_httpVars(\/ Only("send") /\ Answer
                   \/ Only("saving") /\ Read)
    /\ WF_httpVars(\/ Only("send") /\ aborted /\ FetchEnds(FALSE)
                   \/ Only("saving") /\ Reply)
    /\ \A i \in 1 .. MaxSends : WF_httpVars(Only("send") /\ Goes(i))

HttpSpec == HttpInit /\ [][HttpNext]_httpVars /\ HttpFairness

\* What an open panel shows gets to the disk, unless an address is invalid or the
\* backend could not store it (StoreCatchesUp, where the saving runs); what carries no
\* mark is there; and what is invalid never is.
ShownGetsToDisk ==
    (part = "saving" => StoreCatchesUp) /\ []UnmarkedIsSaved /\ []NeverSavesInvalid
=============================================================================
