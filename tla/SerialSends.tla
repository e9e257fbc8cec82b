----------------------------- MODULE SerialSends -----------------------------
(***************************************************************************)
(* What a serial panel sends (SerialTerminalPanel): its send slots, by     *)
(* hand or by a timer, and the history of what was sent.                   *)
(*                                                                         *)
(* The timers belong to an effect that is set up anew, with every timer at *)
(* its beginning, whenever the slots change, and also whenever the window  *)
(* shows output, since the function that sends is then another one.        *)
(***************************************************************************)
EXTENDS Naturals, Sequences, SequencesExt, FiniteSets

CONSTANTS Drafts,       \* what a slot may hold; Blank is not one of them
          OddDrafts,    \* those of them that are no HEX
          Blank,
          MaxSlots,     \* slots of the panel
          MaxSent,      \* maxHistoryItems
          Period,       \* timedSendIntervalMs, in ticks
          MaxEdits,     \* edits of the user
          MaxOutputs,   \* times the window shows output
          MaxFlying     \* sends under way

ASSUME SendsAssumption ==
    /\ Blank \notin Drafts /\ OddDrafts \subseteq Drafts
    /\ MaxSlots \in Nat \ {0} /\ MaxSent \in Nat \ {0} /\ Period \in Nat \ {0}
    /\ MaxEdits \in Nat /\ MaxOutputs \in Nat /\ MaxFlying \in Nat

VARIABLES
    slots,      \* sendSlots, as a sequence
    nextSlot,   \* nextSendSlotIdRef
    ready,      \* terminalReady
    ages,       \* of the timers, by slot
    inFlight,   \* timedSendInFlightRef
    flying,     \* what is being sent: slot, content, mode, and by the timer or not
    sent,       \* history, latest first
    recall,     \* historyIndexRef: 0 for null, else the entry
    edits, outputs

sendsVars == <<slots, nextSlot, ready, ages, inFlight, flying, sent, recall, edits, outputs>>

Slot(id, content) == [id |-> id, content |-> content, mode |-> "text", timed |-> FALSE]
SlotIds == 1 .. MaxSlots + MaxEdits
Fresh0 == [id \in SlotIds |-> 0]

SendsInit ==
    /\ slots = [n \in 1 .. MaxSlots |-> Slot(n, Blank)] /\ nextSlot = MaxSlots + 1
    /\ ready = TRUE /\ ages = Fresh0 /\ inFlight = {} /\ flying = {}
    /\ sent = <<>> /\ recall = 0 /\ edits = 0 /\ outputs = 0

-----------------------------------------------------------------------------
(* Faulty variants of what follows, for the properties to tell apart.       *)

\* The mark of a send stays when it has ended.
MarkStays(id) == inFlight

-----------------------------------------------------------------------------
(* Sending.                                                                 *)

Entry(s) == [content |-> s.content, mode |-> s.mode]

\* sendDraft sends nothing for a blank slot, and for a HEX slot that is no HEX.
Sendable(s) == ready /\ s.content # Blank /\ ~(s.mode = "hex" /\ s.content \in OddDrafts)

Flight(s, timer) == [slot |-> s.id, entry |-> Entry(s), timer |-> timer]

\* The history keeps what was sent once, latest first.
RememberedSends(entry) ==
    LET rest == SelectSeq(sent, LAMBDA e : e # entry) IN
    SubSeq(<<entry>> \o rest, 1, IF Len(rest) < MaxSent THEN Len(rest) + 1 ELSE MaxSent)

\* A timed slot of a port that is open.
Timed(s) == ready /\ s.timed /\ s.content # Blank

\* handleSubmit
SendNow ==
    /\ edits < MaxEdits /\ edits' = edits + 1
    /\ Cardinality(flying) < MaxFlying
    /\ \E n \in DOMAIN slots :
         Sendable(slots[n]) /\ flying' = flying \cup {Flight(slots[n], FALSE)}
    /\ UNCHANGED <<slots, nextSlot, ready, ages, inFlight, sent, recall, outputs>>

\* The mark of a timed send goes when it has ended, however it ends.
Unmarked(id) == inFlight \ {id}

\* Time passes for all the timers, none of which is late.
Due(s) == Timed(s) /\ ages[s.id] = Period
Elapse ==
    /\ \E n \in DOMAIN slots : Timed(slots[n])
    /\ ~\E n \in DOMAIN slots : Due(slots[n])
    /\ ages' = [id \in SlotIds |->
                  IF \E n \in DOMAIN slots : slots[n].id = id /\ Timed(slots[n])
                  THEN ages[id] + 1 ELSE ages[id]]
    /\ UNCHANGED <<slots, nextSlot, ready, inFlight, flying, sent, recall, edits, outputs>>

\* A timer of the effect goes off: nothing while its last send is under way.
Fire ==
    /\ \E n \in DOMAIN slots :
         LET s == slots[n] IN
         /\ Due(s)
         /\ ages' = [ages EXCEPT ![s.id] = 0]
         /\ IF s.id \in inFlight
            THEN UNCHANGED <<inFlight, flying>>
            ELSE IF Sendable(s)
                 THEN flying' = flying \cup {Flight(s, TRUE)} /\ inFlight' = inFlight \cup {s.id}
                 ELSE inFlight' = Unmarked(s.id) /\ UNCHANGED flying
    /\ UNCHANGED <<slots, nextSlot, ready, sent, recall, edits, outputs>>

\* What was sent is logged and remembered, whether or not it was written: the
\* workspace only tells the user.
Written ==
    /\ \E f \in flying :
         /\ flying' = flying \ {f}
         /\ inFlight' = IF f.timer THEN Unmarked(f.slot) ELSE inFlight
         /\ sent' = RememberedSends(f.entry)
    /\ recall' = 0
    /\ UNCHANGED <<slots, nextSlot, ready, ages, edits, outputs>>

-----------------------------------------------------------------------------
(* What sets the timers up anew: the clean-up of the effect forgets the     *)
(* marks of the slots that were timed.                                      *)

Anew ==
    /\ ages' = Fresh0
    /\ inFlight' = inFlight \ {slots[n].id : n \in {m \in DOMAIN slots : Timed(slots[m])}}

Edited == edits < MaxEdits /\ edits' = edits + 1 /\ Anew

\* updateSendSlot
EditSlot ==
    /\ Edited
    /\ \E n \in DOMAIN slots :
         \/ \E d \in Drafts \cup {Blank} : slots' = [slots EXCEPT ![n].content = d]
         \/ \E m \in {"text", "hex"} : slots' = [slots EXCEPT ![n].mode = m]
         \/ slots' = [slots EXCEPT ![n].timed = ~@]
    /\ UNCHANGED <<nextSlot, ready, flying, sent, recall, outputs>>

AddSlot ==
    /\ Edited
    /\ slots' = Append(slots, Slot(nextSlot, Blank)) /\ nextSlot' = nextSlot + 1
    /\ UNCHANGED <<ready, flying, sent, recall, outputs>>

\* removeSendSlot: one stays.
RemoveSlot ==
    /\ Edited
    /\ Len(slots) > 1
    /\ \E n \in DOMAIN slots : slots' = RemoveAt(slots, n)
    /\ UNCHANGED <<nextSlot, ready, flying, sent, recall, outputs>>

\* handleInputKeyDown: what was sent before comes into the slot.
RecallOlder ==
    /\ sent # <<>> /\ Edited
    /\ recall' = IF recall < Len(sent) THEN recall + 1 ELSE recall
    /\ \E n \in DOMAIN slots :
         slots' = [slots EXCEPT ![n].content = sent[recall'].content, ![n].mode = sent[recall'].mode]
    /\ UNCHANGED <<nextSlot, ready, flying, sent, outputs>>

RecallNewer ==
    /\ recall > 0 /\ Edited
    /\ recall' = recall - 1
    /\ \E n \in DOMAIN slots :
         IF recall' = 0 THEN slots' = [slots EXCEPT ![n].content = Blank]
         ELSE slots' = [slots EXCEPT ![n].content = sent[recall'].content, ![n].mode = sent[recall'].mode]
    /\ UNCHANGED <<nextSlot, ready, flying, sent, outputs>>

\* restoreHistory fills the first slot that is blank, or a new one.
Restore ==
    /\ Edited
    /\ \E k \in DOMAIN sent :
         LET empty == {n \in DOMAIN slots : slots[n].content = Blank}
             filled(s) == [s EXCEPT !.content = sent[k].content, !.mode = sent[k].mode] IN
         IF empty # {}
         THEN \E n \in empty : /\ \A m \in empty : n <= m
                               /\ slots' = [slots EXCEPT ![n] = filled(@)] /\ UNCHANGED nextSlot
         ELSE slots' = Append(slots, filled(Slot(nextSlot, Blank))) /\ nextSlot' = nextSlot + 1
    /\ recall' = 0
    /\ UNCHANGED <<ready, flying, sent, outputs>>

\* clearSendHistory, removeSendHistoryEntry
ForgetSlot ==
    /\ edits < MaxEdits /\ edits' = edits + 1
    /\ \E k \in DOMAIN sent : sent' \in {<<>>, RemoveAt(sent, k)}
    /\ recall' = 0
    /\ UNCHANGED <<slots, nextSlot, ready, ages, inFlight, flying, outputs>>

\* The port is opened or closed.
PortChanges ==
    /\ Edited
    /\ ready' = ~ready
    /\ UNCHANGED <<slots, nextSlot, flying, sent, recall, outputs>>

\* The window shows output of a terminal: sendTerminalData is a new function.
OutputShown ==
    /\ outputs < MaxOutputs /\ outputs' = outputs + 1
    /\ Anew
    /\ UNCHANGED <<slots, nextSlot, ready, flying, sent, recall, edits>>

-----------------------------------------------------------------------------
SendsNext ==
    \/ SendNow \/ Elapse \/ Fire \/ Written
    \/ EditSlot \/ AddSlot \/ RemoveSlot \/ RecallOlder \/ RecallNewer \/ Restore \/ ForgetSlot
    \/ PortChanges \/ OutputShown

\* Time passes and calls are answered.
SendsFairness == WF_sendsVars(Elapse) /\ WF_sendsVars(Fire) /\ WF_sendsVars(Written)

SendsSpec == SendsInit /\ [][SendsNext]_sendsVars /\ SendsFairness

\* A timed slot that can be sent is sent again and again, once the user and the
\* output have come to rest.
TimedGoesOn ==
    \A id \in SlotIds :
      []<>(\/ \E f \in flying : f.slot = id /\ f.timer
           \/ \A n \in DOMAIN slots : slots[n].id = id => ~(Timed(slots[n]) /\ Sendable(slots[n])))
=============================================================================
