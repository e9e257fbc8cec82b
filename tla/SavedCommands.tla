----------------------------- MODULE SavedCommands -----------------------------
(***************************************************************************)
(* The commands the user keeps (useSavedSshCommands.ts): a list in every   *)
(* window, written to the storage of the browser after every change, and   *)
(* read again when another window has written.  The storage tells the      *)
(* other windows of a change later, and of none when nothing changed.  It  *)
(* may refuse a list (it is full): the window then goes on with what it    *)
(* shows, and nobody is told.                                              *)
(***************************************************************************)
EXTENDS Naturals, Sequences, SequencesExt, FiniteSets, Lists

CONSTANTS AppWindows,    \* windows of the application
          Commands,   \* commands that can be typed, none blank
          MaxSaved,   \* maximumSavedCommands
          MaxSaves,   \* changes by the user
          FirstSaved  \* what the storage may hold before: entries, some damaged

FirstEntries == UNION {Range(stored) : stored \in FirstSaved}
FirstIds == {e.id : e \in FirstEntries}

\* What is not damaged was written by this code, which gives every command an id of its own.
ASSUME SavedCommandsAssumption ==
    /\ MaxSaved \in Nat \ {0} /\ MaxSaves \in Nat
    /\ FirstEntries \subseteq [id : FirstIds, command : {e.command : e \in FirstEntries}, ok : BOOLEAN]
    /\ FirstIds \cap (1 .. MaxSaves) = {}
    /\ \A stored \in FirstSaved :
         /\ stored \in Seq(FirstEntries)
         /\ \A i, j \in DOMAIN stored :
              stored[i].ok /\ stored[j].ok /\ stored[i].id = stored[j].id => i = j

VARIABLES
    saved,   \* commands of each window
    running, \* the windows that are open
    unsaved, \* those whose effect has not written yet
    refused, \* those whose last write the storage refused
    notices, \* storage events on their way to each, by their number
    storage, \* what is stored
    saves    \* changes so far

savedVars == <<saved, running, unsaved, refused, notices, storage, saves>>

SavedInit ==
    /\ saved = [w \in AppWindows |-> <<>>] /\ running = {} /\ unsaved = {} /\ refused = {}
    /\ notices = [w \in AppWindows |-> 0] /\ storage \in FirstSaved /\ saves = 0

FirstOf(list) == SubSeq(list, 1, IF Len(list) < MaxSaved THEN Len(list) ELSE MaxSaved)

-----------------------------------------------------------------------------
(* Faulty variants of what follows, for the properties to tell apart.       *)

\* The list is written once, when the window opens.
ChangeUnwritten(w, list) ==
    /\ saved' = [saved EXCEPT ![w] = list]
    /\ unsaved' = IF w \in running THEN unsaved ELSE unsaved \cup {w}

-----------------------------------------------------------------------------
\* readSavedCommands: what is not a command is left out.
Readable == FirstOf(Kept(storage, {i \in DOMAIN storage : storage[i].ok}))

\* The list is set, and its effect is to come.
Change(w, list) == saved' = [saved EXCEPT ![w] = list] /\ unsaved' = unsaved \cup {w}

\* The hook begins with what is stored, and writes it back.
WindowOpens(w) ==
    /\ w \notin running /\ running' = running \cup {w} /\ Change(w, Readable)
    /\ UNCHANGED <<refused, notices, storage, saves>>

WindowCloses(w) ==
    /\ w \in running /\ running' = running \ {w} /\ unsaved' = unsaved \ {w} /\ refused' = refused \ {w}
    /\ saved' = [saved EXCEPT ![w] = <<>>] /\ notices' = [notices EXCEPT ![w] = 0]
    /\ saves < MaxSaves /\ saves' = saves + 1
    /\ UNCHANGED storage

\* The effect, when the storage takes the list: the others are told if it is another.
Stores(w) ==
    /\ storage' = saved[w] /\ refused' = refused \ {w}
    /\ notices' = [v \in AppWindows |->
         IF v \in running \ {w} /\ saved[w] # storage THEN notices[v] + 1
         ELSE notices[v]]

\* ... and when it does not.
StorageRefuses(w) == refused' = refused \cup {w} /\ UNCHANGED <<storage, notices>>

WriteSaved(w) ==
    /\ w \in unsaved /\ unsaved' = unsaved \ {w}
    /\ Stores(w) \/ StorageRefuses(w)
    /\ UNCHANGED <<saved, running, saves>>

\* syncCommands
Sync(w) ==
    /\ notices[w] # 0 /\ notices' = [notices EXCEPT ![w] = @ - 1]
    /\ Change(w, Readable)
    /\ UNCHANGED <<running, refused, storage, saves>>

\* addCommand: a command that is kept already moves to the front.
Added(list, c, id) ==
    LET there == {i \in DOMAIN list : list[i].command = c}
        old   == list[Min(there)]
    IN FirstOf(IF there = {} THEN <<[id |-> id, command |-> c, ok |-> TRUE]>> \o list
               ELSE <<old>> \o Kept(list, {i \in DOMAIN list : list[i].id # old.id}))

UserAdds(w) == \E c \in Commands : Change(w, Added(saved[w], c, saves + 1))

\* updateCommand
Edited(list, id, c) ==
    [i \in DOMAIN list |-> IF list[i].id = id THEN [list[i] EXCEPT !.command = c] ELSE list[i]]

UserEdits(w) ==
    \E i \in DOMAIN saved[w], c \in Commands : Change(w, Edited(saved[w], saved[w][i].id, c))

\* removeCommand
Removed(list, id) == Kept(list, {i \in DOMAIN list : list[i].id # id})

UserRemoves(w) == \E i \in DOMAIN saved[w] : Change(w, Removed(saved[w], saved[w][i].id))

UserSaves(w) ==
    /\ w \in running /\ saves < MaxSaves /\ saves' = saves + 1
    /\ UserAdds(w) \/ UserEdits(w) \/ UserRemoves(w)
    /\ UNCHANGED <<running, refused, notices, storage>>

-----------------------------------------------------------------------------
SavedNext ==
    \E w \in AppWindows : WindowOpens(w) \/ WindowCloses(w) \/ WriteSaved(w) \/ Sync(w) \/ UserSaves(w)

SavedSpec == SavedInit /\ [][SavedNext]_savedVars

\* When the effects have run and the events have come, every window shows what is
\* stored, whichever wrote last; but for a window whose own last write was refused, which
\* keeps its list until it writes again or reads what another one wrote.  (Two windows
\* that go on answering each other in step may not come to rest: each writes what it
\* reads of the other.)
WindowsAgree ==
    unsaved = {} /\ (\A w \in AppWindows : notices[w] = 0)
      => \A w \in running \ refused : saved[w] = storage

\* No two entries of a window have one id, so that an edit or a removal is of the
\* one entry it was asked for; and there are never too many.
EntriesAreApart ==
    \A w \in AppWindows :
        /\ Cardinality({e.id : e \in Range(saved[w])}) = Len(saved[w])
        /\ Len(saved[w]) <= MaxSaved

\* The lists of all windows are sound.
SavedSound == WindowsAgree /\ EntriesAreApart
=============================================================================
