------------------------------- MODULE HttpSend -------------------------------
(***************************************************************************)
(* Sending a request of the HTTP console (sendPreviewRequest and the       *)
(* functions around it in HttpConsolePanel.tsx): the files of a form are   *)
(* read, in the desktop application the panel listens to the chunks of the *)
(* answer and calls http_send_stream, in a browser it fetches; the chunks  *)
(* are shown as they come, the answer replaces them and goes to the        *)
(* history.  Meanwhile the user may stop the request, select another, look *)
(* at an earlier answer, or close the panel.                               *)
(*                                                                         *)
(* What is shown is the send it comes from, whether it is an answer, and   *)
(* how often a chunk or a status was added to it.                          *)
(***************************************************************************)
EXTENDS Naturals, Sequences, SequencesExt

CONSTANTS Plain,        \* requests without files
          WithFiles,    \* requests with a form of files
          Broken,       \* requests without an address or with an undefined variable
          MaxSends,     \* sends ever begun
          MaxChunks,    \* chunks of an answer
          MaxHistory    \* the history keeps that many (50 in the code)

ASSUME SendAssumption == MaxSends \in Nat /\ MaxChunks \in Nat /\ MaxHistory \in Nat \ {0}

Nothing == [of |-> 0, answer |-> FALSE, added |-> 0]

VARIABLES
    desktop,    \* isTauriRuntime
    panel,      \* the panel is on the screen
    subject,    \* the selected request
    step,       \* of the send under way: idle, reading, listening, invoked, fetching
    sends,      \* sends begun; the one under way is the last
    aborted,    \* its abort controller was used
    shownAnswer, \* response
    pastAnswers, \* responseHistory
    backend,    \* backend[i]: none, asked, running, ok, failed, cancelled
    chunks,     \* chunk events on their way to the panel
    cancels,    \* http_cancel calls on their way
    stopped     \* history: the send under way was stopped where stopping works

sendVars == <<desktop, panel, subject, step, sends, aborted, shownAnswer, pastAnswers,
              backend, chunks, cancels, stopped>>

SendInit ==
    /\ desktop \in BOOLEAN
    /\ panel = TRUE
    /\ subject \in Plain \cup WithFiles \cup Broken
    /\ step = "idle"
    /\ sends = 0
    /\ aborted = FALSE
    /\ shownAnswer = Nothing
    /\ pastAnswers = <<>>
    /\ backend = [i \in 1 .. MaxSends |-> "none"]
    /\ chunks = <<>>
    /\ cancels = {}
    /\ stopped = FALSE

\* setResponse of a panel that is gone does nothing.
Respond(r) == shownAnswer' = IF panel THEN r ELSE shownAnswer

\* A chunk or a status is added to whatever is shown, a history entry too.
Added == [shownAnswer EXCEPT !.of = IF shownAnswer = Nothing THEN sends ELSE @,
                             !.added = IF @ < MaxChunks THEN @ + 1 ELSE @]

-----------------------------------------------------------------------------
(* Faulty variants of what follows, for the properties to tell apart.      *)

\* Stopping uses the abort controller only, which the backend never sees.
StopQuietly ==
    /\ aborted' = TRUE
    /\ stopped' = (stopped \/ step \in {"reading", "fetching"} \/ (sends > 0 /\ backend[sends] = "running"))
    /\ UNCHANGED cancels

-----------------------------------------------------------------------------
\* The button, while nothing is sent: a request that cannot be sent clears
\* what is shown.
Send ==
    /\ panel
    /\ step = "idle"
    /\ IF subject \in Broken
       THEN /\ Respond(Nothing)
            /\ UNCHANGED <<step, sends>>
       ELSE /\ sends < MaxSends
            /\ sends' = sends + 1
            /\ Respond([Nothing EXCEPT !.of = sends'])
            /\ step' = IF subject \in WithFiles THEN "reading"
                       ELSE IF desktop THEN "listening" ELSE "fetching"
    /\ UNCHANGED <<desktop, panel, subject, aborted, pastAnswers, backend, chunks, cancels, stopped>>

\* cancelActiveHttpRequest.  In a browser the fetch is aborted; the backend
\* stops only what it is working on.
Stop ==
    /\ aborted' = TRUE
    /\ stopped' = (stopped \/ step \in {"reading", "fetching"} \/ (sends > 0 /\ backend[sends] = "running"))
    /\ cancels' = IF desktop THEN cancels \cup {sends} ELSE cancels

\* The button, while a request is sent.
Cancel ==
    /\ panel
    /\ step # "idle"
    /\ Stop
    /\ UNCHANGED <<desktop, panel, subject, step, sends, shownAnswer, pastAnswers, backend, chunks>>

\* The clean-up of the panel: what is sent goes on without it.
ClosePanel ==
    /\ panel
    /\ panel' = FALSE
    /\ IF step # "idle" THEN Stop ELSE UNCHANGED <<aborted, stopped, cancels>>
    /\ UNCHANGED <<desktop, subject, step, sends, shownAnswer, pastAnswers, backend, chunks>>

\* pushResponseHistory, resetting what belongs to the send.
Finish(answer) ==
    /\ Respond(IF answer THEN [of |-> sends, answer |-> TRUE, added |-> 0] ELSE Nothing)
    /\ pastAnswers' = LET h == <<[of |-> sends, answer |-> answer]>> \o pastAnswers
                      IN  SubSeq(h, 1, IF Len(h) < MaxHistory THEN Len(h) ELSE MaxHistory)
    /\ step' = "idle"
    /\ aborted' = FALSE
    /\ stopped' = FALSE

\* requestMultipartFor and fileToBase64: every file is waited for, and an
\* abort ends the wait.  A plain request takes no time to build.
ReadFiles ==
    /\ step = "reading"
    /\ ~aborted
    /\ step' = IF desktop THEN "listening" ELSE "fetching"
    /\ Respond(Added)
    /\ UNCHANGED <<desktop, panel, subject, sends, aborted, pastAnswers, backend, chunks, cancels, stopped>>

ReadFails ==
    /\ step = "reading"
    /\ Finish(FALSE)
    /\ UNCHANGED <<desktop, panel, subject, sends, backend, chunks, cancels>>

\* listen has answered; http_send_stream is called, aborted or not.
Listen ==
    /\ step = "listening"
    /\ step' = "invoked"
    /\ backend' = [backend EXCEPT ![sends] = "asked"]
    /\ UNCHANGED <<desktop, panel, subject, sends, aborted, shownAnswer, pastAnswers, chunks, cancels, stopped>>

-----------------------------------------------------------------------------
(* The backend.                                                             *)

\* http_send_stream puts its token in the table.
Registers(i) ==
    /\ backend[i] = "asked"
    /\ backend' = [backend EXCEPT ![i] = "running"]
    /\ UNCHANGED <<desktop, panel, subject, step, sends, aborted, shownAnswer, pastAnswers, chunks, cancels, stopped>>

\* http_cancel of what is not in the table does nothing.
CancelArrives(i) ==
    /\ i \in cancels
    /\ cancels' = cancels \ {i}
    /\ backend' = [backend EXCEPT ![i] = IF @ = "running" THEN "cancelled" ELSE @]
    /\ UNCHANGED <<desktop, panel, subject, step, sends, aborted, shownAnswer, pastAnswers, chunks, stopped>>

EmitChunk(i) ==
    /\ backend[i] = "running"
    /\ Len(SelectSeq(chunks, LAMBDA x : x = i)) < MaxChunks
    /\ chunks' = Append(chunks, i)
    /\ UNCHANGED <<desktop, panel, subject, step, sends, aborted, shownAnswer, pastAnswers, backend, cancels, stopped>>

BackendEnds(i, outcome) ==
    /\ backend[i] = "running"
    /\ backend' = [backend EXCEPT ![i] = outcome]
    /\ UNCHANGED <<desktop, panel, subject, step, sends, aborted, shownAnswer, pastAnswers, chunks, cancels, stopped>>

-----------------------------------------------------------------------------
(* Back in the panel.                                                       *)

Listens(i) == step = "invoked" /\ i = sends

ChunkArrives ==
    /\ chunks # <<>>
    /\ chunks' = Tail(chunks)
    /\ IF Listens(Head(chunks)) THEN Respond(Added) ELSE UNCHANGED shownAnswer
    /\ UNCHANGED <<desktop, panel, subject, step, sends, aborted, pastAnswers, backend, cancels, stopped>>

Answer ==
    /\ step = "invoked"
    /\ backend[sends] \in {"ok", "failed", "cancelled"}
    /\ Finish(backend[sends] = "ok")
    /\ UNCHANGED <<desktop, panel, subject, sends, backend, chunks, cancels>>

\* sendWithBrowserFetch
FetchChunk ==
    /\ step = "fetching"
    /\ ~aborted
    /\ Respond(Added)
    /\ UNCHANGED <<desktop, panel, subject, step, sends, aborted, pastAnswers, backend, chunks, cancels, stopped>>

FetchEnds(ok) ==
    /\ step = "fetching"
    /\ ok => ~aborted
    /\ Finish(ok)
    /\ UNCHANGED <<desktop, panel, subject, sends, backend, chunks, cancels>>

\* resetResponse, by everything that selects a request.
Select(r) ==
    /\ panel
    /\ r # subject
    /\ subject' = r
    /\ shownAnswer' = Nothing
    /\ UNCHANGED <<desktop, panel, step, sends, aborted, pastAnswers, backend, chunks, cancels, stopped>>

\* A click on an entry of the history; a failed one has no response.
ShowPast(k) ==
    /\ panel
    /\ k \in DOMAIN pastAnswers
    /\ shownAnswer' = IF pastAnswers[k].answer
                      THEN [of |-> pastAnswers[k].of, answer |-> TRUE, added |-> 0] ELSE Nothing
    /\ UNCHANGED <<desktop, panel, subject, step, sends, aborted, pastAnswers, backend, chunks, cancels, stopped>>

-----------------------------------------------------------------------------
Goes(i) == Registers(i) \/ CancelArrives(i)

SendNext ==
    \/ Send
    \/ Cancel
    \/ ClosePanel
    \/ ReadFiles
    \/ ReadFails
    \/ Listen
    \/ \E i \in 1 .. MaxSends :
          Goes(i) \/ EmitChunk(i) \/ (\E o \in {"ok", "failed"} : BackendEnds(i, o))
    \/ ChunkArrives
    \/ Answer
    \/ FetchChunk
    \/ \E ok \in BOOLEAN : FetchEnds(ok)
    \/ \E r \in Plain \cup WithFiles \cup Broken : Select(r)
    \/ \E k \in 1 .. MaxHistory : ShowPast(k)

\* What the event loop and the backend owe a send.  A server may stay silent
\* for ever, a fetch ends when it is aborted.
SendFairness ==
    /\ WF_sendVars(ReadFiles \/ ReadFails)
    /\ WF_sendVars(Listen)
    /\ \A i \in 1 .. MaxSends : WF_sendVars(Goes(i))
    /\ WF_sendVars(Answer)
    /\ WF_sendVars(aborted /\ FetchEnds(FALSE))

SendSpec == SendInit /\ [][SendNext]_sendVars /\ SendFairness

-----------------------------------------------------------------------------
\* When nothing is being sent, what is shown is an answer as it came, or
\* nothing: no piece of an answer stays on the screen, and nothing is added to
\* an answer after its end, though chunks are still on their way.
NoPartialWhenIdle ==
    step = "idle" /\ panel => shownAnswer = Nothing \/ (shownAnswer.answer /\ shownAnswer.added = 0)

\* A request that is stopped while its files are read, while it is fetched or
\* while the backend works on it ends, whatever its server does.
CancelEnds == stopped ~> step = "idle"

\* What is shown is a whole answer, and a stop ends what it stops.
SendSound == []NoPartialWhenIdle /\ CancelEnds
=============================================================================
