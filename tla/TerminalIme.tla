------------------------------ MODULE TerminalIme ------------------------------
(***************************************************************************)
(* installTerminalIme: what of an input method's text is sent to the       *)
(* terminal.  The browser writes the text into xterm's textarea; xterm     *)
(* sends it from callbacks of setTimeout, which may come after the next    *)
(* key, the next composition or a blur.                                    *)
(*                                                                         *)
(* A character is the number of its place among all that were typed.       *)
(***************************************************************************)
EXTENDS Naturals, Sequences, SequencesExt, FiniteSets

CONSTANTS MaxTyped, MaxCompositions

ASSUME ImeAssumption == MaxTyped \in Nat /\ MaxCompositions \in Nat

Ids == 1..MaxCompositions

VARIABLES
    typed,          \* characters typed so far
    area,           \* the textarea
    composing,      \* _isComposing
    sending,        \* _isSendingComposition
    already,        \* _dataAlreadySent
    compositions,   \* all Composition records, the last one is the current one, and, as
                    \* history, the text each ended with
    finishing,      \* compositions with a finish in a timer
    probe,          \* the timer of _handleAnyTextareaChanges, or NoProbe
    sent            \* what the terminal was sent, 0 for a DEL

imeVars == <<typed, area, composing, sending, already, compositions, finishing, probe, sent>>

NoProbe == [on |-> FALSE, old |-> <<>>, generation |-> 0]
Current == Len(compositions)    \* also the generation

ImeInit ==
    /\ typed = 0
    /\ area = <<>>
    /\ composing = FALSE /\ sending = FALSE
    /\ already = <<>>
    /\ compositions = <<>>
    /\ finishing = {}
    /\ probe = NoProbe
    /\ sent = <<>>

From(s, n) == SubSeq(s, n + 1, Len(s))
Types(n) == typed + n <= MaxTyped /\ typed' = typed + n

-----------------------------------------------------------------------------
(* Faulty variants of what follows, for the properties to tell apart.      *)

\* xterm 6.0.0: one flag for all compositions, which a newer one sets again.
FinishShared(k) ==
    /\ sent' = IF sending THEN sent \o From(area, compositions[k].start + Len(already)) ELSE sent
    /\ compositions' = compositions
    /\ sending' = IF k = Current THEN FALSE ELSE sending

-----------------------------------------------------------------------------
\* finish: the text of the composition up to now, once.
Finish(k) ==
    IF compositions[k].sent THEN UNCHANGED <<compositions, sending, sent>>
    ELSE /\ compositions' = [compositions EXCEPT ![k].sent = TRUE]
         /\ sent' = sent \o From(area, compositions[k].start + Len(already))
         /\ sending' = IF k = Current THEN FALSE ELSE sending

\* Before the browser replaces the range, what the last composition left is sent.
CompositionStart ==
    LET flushed == Current > 0 /\ ~compositions[Current].sent IN
    /\ ~composing
    /\ Current < MaxCompositions
    /\ composing' = TRUE
    /\ sent' = IF flushed THEN sent \o From(area, compositions[Current].start + Len(already))
                          ELSE sent
    /\ sending' = IF flushed THEN FALSE ELSE sending
    /\ compositions' = Append([k \in 1..Current |-> [compositions[k] EXCEPT !.sent = TRUE]],
                              [start |-> Len(area), sent |-> FALSE, text |-> <<>>])
    /\ already' = <<>>
    /\ UNCHANGED <<typed, area, finishing, probe>>

\* The draft becomes another one.
CompositionUpdate(n) ==
    /\ composing
    /\ Types(n)
    /\ area' = SubSeq(area, 1, compositions[Current].start) \o [i \in 1..n |-> typed + i]
    /\ UNCHANGED <<composing, sending, already, compositions, finishing, probe, sent>>

\* _finalizeComposition(true).
CompositionEnd ==
    /\ composing
    /\ composing' = FALSE
    /\ IF compositions[Current].sent THEN UNCHANGED <<sending, finishing>>
       ELSE /\ sending' = TRUE
            /\ finishing' = finishing \cup {Current}
    /\ compositions' = [compositions EXCEPT ![Current].text =
                                                From(area, compositions[Current].start)]
    /\ UNCHANGED <<typed, area, already, probe, sent>>

FinishTimer(k) ==
    /\ k \in finishing
    /\ finishing' = finishing \ {k}
    /\ Finish(k)
    /\ UNCHANGED <<typed, area, composing, already, probe>>

\* A key of the keyboard, which xterm sends itself: what a composition left goes first.
PlainKey ==
    LET k == Current
        pending == sending /\ k > 0 /\ ~compositions[k].sent
    IN
    /\ ~composing
    /\ Types(1)
    /\ compositions' = IF pending THEN [compositions EXCEPT ![k].sent = TRUE] ELSE compositions
    /\ sending' = (sending /\ ~pending)
    /\ sent' = (IF pending THEN sent \o From(area, compositions[k].start + Len(already)) ELSE sent)
                   \o <<typed + 1>>
    /\ UNCHANGED <<area, composing, already, finishing, probe>>

\* A key the input method answers without a composition (keyCode 229): the text it writes
\* is looked for in a timer, unless a composition is about to be sent anyway.
ProbedKey ==
    /\ ~composing
    /\ Types(1)
    /\ area' = Append(area, typed + 1)
    /\ probe' = IF sending \/ probe.on THEN probe
                ELSE [on |-> TRUE, old |-> area, generation |-> Current]
    /\ UNCHANGED <<composing, sending, already, compositions, finishing, sent>>

\* _handleAnyTextareaChanges: nothing is sent when a composition began meanwhile.
ProbeTimer ==
    LET diff == IF IsPrefix(probe.old, area) THEN From(area, Len(probe.old)) ELSE area IN
    /\ probe.on
    /\ probe' = NoProbe
    /\ IF probe.generation # Current \/ composing THEN UNCHANGED <<already, sent>>
       ELSE /\ already' = diff
            /\ sent' = IF Len(area) < Len(probe.old) THEN Append(sent, 0)
                       ELSE IF area = probe.old THEN sent ELSE sent \o diff
    /\ UNCHANGED <<typed, area, composing, sending, compositions, finishing>>

\* flushOnBlur comes before xterm empties the textarea.
FlushOnBlur ==
    IF Current > 0 /\ ~composing THEN Finish(Current)
                                 ELSE UNCHANGED <<compositions, sending, sent>>

Blur ==
    /\ ~composing /\ area # <<>>
    /\ FlushOnBlur
    /\ area' = <<>>
    /\ UNCHANGED <<typed, composing, already, finishing, probe>>

ImeNext ==
    \/ CompositionStart \/ (\E n \in 0..2 : CompositionUpdate(n)) \/ CompositionEnd
    \/ (\E k \in finishing : FinishTimer(k))
    \/ PlainKey \/ ProbedKey \/ ProbeTimer \/ Blur

ImeSpec == ImeInit /\ [][ImeNext]_imeVars

-----------------------------------------------------------------------------
(* What must hold.                                                         *)

\* In whatever order timers, keys, compositions and blurs come, no character is sent
\* to the terminal twice.
SentOnce ==
    \A i, j \in 1..Len(sent) : sent[i] = sent[j] /\ sent[i] # 0 => i = j

\* The text a composition ended with is sent, at the latest when the timers have run.
ComposedIsSent ==
    finishing = {} =>
        \A k \in 1..Current : ToSet(compositions[k].text) \subseteq ToSet(sent)

\* What is typed and what is composed is sent, and sent once.
TypingSound == SentOnce /\ ComposedIsSent
=============================================================================
