------------------------------- MODULE HttpRows -------------------------------
(***************************************************************************)
(* The rows of a form of the HTTP console and the files chosen for them    *)
(* (HttpConsolePanel.tsx).  A row keeps the id of its file; the file       *)
(* itself is in a table of the panel (formFilesRef), from which it is      *)
(* taken when the request is sent.  Under the rows of a request there is   *)
(* one more, the draft row, which belongs to the panel: it stays when      *)
(* another request is selected, and is added to the rows of whichever is   *)
(* selected when it loses the focus.                                       *)
(***************************************************************************)
EXTENDS Naturals, Sequences, SequencesExt, FiniteSets

CONSTANTS MaxForms,     \* requests ever made
          MaxFiles,     \* files ever chosen
          MaxRows       \* rows of a request

ASSUME RowsAssumption == MaxForms \in Nat \ {0} /\ MaxFiles \in Nat /\ MaxRows \in Nat

\* file is localFileId, 0 for none; named tells a blank row from others.
Blank == [file |-> 0, named |-> FALSE]
Forms == 1 .. MaxForms

VARIABLES
    rows,       \* rows[q]: formBody of request q
    forms,      \* the requests there are
    active,     \* the one selected
    draftRow,   \* requestDraftRows.formBody
    files,      \* the ids in formFilesRef
    fileIds,    \* ids given so far
    formCount,  \* requests made
    shared,     \* history: files that a copy of a request names too
    orphans,    \* history: files of rows that an import or the load replaced
    formsLoaded \* what the store had has come

rowVars ==
    <<rows, forms, active, draftRow, files, fileIds, formCount, shared, orphans, formsLoaded>>

RowsInit ==
    /\ rows = [q \in Forms |-> <<>>]
    /\ forms = {1}
    /\ active = 1
    /\ draftRow = Blank
    /\ files = {}
    /\ fileIds = 0
    /\ formCount = 1
    /\ shared = {}
    /\ orphans = {}
    /\ formsLoaded = FALSE

\* hasKeyValueContent: a file has a name.
HasContent(row) == row.named \/ row.file # 0

\* trimTrailingBlankRows
Trimmed(s) ==
    LET full == {i \in DOMAIN s : HasContent(s[i])}
    IN  SubSeq(s, 1, IF full = {} THEN 0 ELSE CHOOSE i \in full : \A j \in full : j <= i)

ActiveRows == Trimmed(rows[active])
\* The row a control belongs to: the draft row comes after the others.
RowAt(i) == IF i > Len(ActiveRows) THEN draftRow ELSE ActiveRows[i]

SetRows(s) == rows' = [rows EXCEPT ![active] = s]

FilesOf(q) == {rows[q][i].file : i \in DOMAIN rows[q]} \ {0}

-----------------------------------------------------------------------------
(* Faulty variants of what follows, for the properties to tell apart.      *)

\* A row changed to text keeps naming the file it forgot.
TypeKeepsFile(i) == [RowAt(i) EXCEPT !.named = FALSE]

-----------------------------------------------------------------------------
\* updateRequestRow: past the rows it changes the draft row.
UpdateRow(i, row) ==
    IF i > Len(ActiveRows)
    THEN /\ draftRow' = row
         /\ UNCHANGED rows
    ELSE /\ SetRows(Trimmed([ActiveRows EXCEPT ![i] = row]))
         /\ UNCHANGED draftRow

\* forgetFormFile
Forgotten(row) == {row.file}

\* A key or a value of the row is written or wiped.
updateRequestRow(i, named) ==
    /\ i \in 1 .. Len(ActiveRows) + 1
    /\ UpdateRow(i, [RowAt(i) EXCEPT !.named = named])
    /\ UNCHANGED <<forms, active, files, fileIds, formCount, shared, orphans, formsLoaded>>

\* setFormRowValueType: text to file or back, without the file and its value.
RetypedRow(i) == [RowAt(i) EXCEPT !.file = 0]

setFormRowValueType(i) ==
    /\ i \in 1 .. Len(ActiveRows) + 1
    /\ files' = files \ Forgotten(RowAt(i))
    /\ UpdateRow(i, RetypedRow(i))
    /\ UNCHANGED <<forms, active, fileIds, formCount, shared, orphans, formsLoaded>>

selectFormFile(i) ==
    /\ i \in 1 .. Len(ActiveRows) + 1
    /\ fileIds < MaxFiles
    /\ fileIds' = fileIds + 1
    /\ files' = (files \ Forgotten(RowAt(i))) \cup {fileIds'}
    /\ UpdateRow(i, [RowAt(i) EXCEPT !.file = fileIds'])
    /\ UNCHANGED <<forms, active, formCount, shared, orphans, formsLoaded>>

\* commitRequestDraft and resetRequestDraft: a draft row without content is
\* only emptied.
commitRequestDraft ==
    /\ draftRow # Blank
    /\ Len(ActiveRows) < MaxRows
    /\ SetRows(Append(ActiveRows, draftRow))
    /\ draftRow' = Blank
    /\ UNCHANGED <<forms, active, files, fileIds, formCount, shared, orphans, formsLoaded>>

removeRequestRow(i) ==
    /\ i \in DOMAIN ActiveRows
    /\ files' = files \ Forgotten(ActiveRows[i])
    /\ SetRows(RemoveAt(ActiveRows, i))
    /\ UNCHANGED <<forms, active, draftRow, fileIds, formCount, shared, orphans, formsLoaded>>

moveRequestRow(i, j) ==
    /\ {i, j} \subseteq DOMAIN ActiveRows
    /\ j = i + 1 \/ i = j + 1
    /\ SetRows([ActiveRows EXCEPT ![i] = ActiveRows[j], ![j] = ActiveRows[i]])
    /\ UNCHANGED <<forms, active, draftRow, files, fileIds, formCount, shared, orphans,
                   formsLoaded>>

-----------------------------------------------------------------------------
selectForm(q) ==
    /\ q \in forms
    /\ active' = q
    /\ UNCHANGED <<rows, forms, draftRow, files, fileIds, formCount, shared, orphans, formsLoaded>>

\* duplicateRequest copies the rows with the ids of their files.
duplicateForm ==
    /\ formCount < MaxForms
    /\ formCount' = formCount + 1
    /\ forms' = forms \cup {formCount'}
    /\ rows' = [rows EXCEPT ![formCount'] = rows[active]]
    /\ active' = formCount'
    /\ shared' = shared \cup ({rows[active][i].file : i \in DOMAIN rows[active]} \ {0})
    /\ UNCHANGED <<draftRow, files, fileIds, orphans, formsLoaded>>

\* deleteRequest leaves the files of the request in the table.
deleteForm(q) ==
    /\ q \in forms \ {active}
    /\ forms' = forms \ {q}
    /\ UNCHANGED <<rows, active, draftRow, files, fileIds, formCount, shared, orphans, formsLoaded>>

\* Rows of a document or of the store: a row for a file says so, but has no id.
TextRows(n) == [i \in 1 .. n |-> [file |-> 0, named |-> TRUE]]

\* The requests of S, one of which may be new, come with n rows each; whatever rows
\* they had, the table keeps their files.
TakenOver(S, n) ==
    /\ S # {} /\ S \subseteq forms \cup ({1, formCount + 1} \cap Forms)
    /\ rows' = [q \in Forms |-> IF q \in S THEN TextRows(n) ELSE rows[q]]
    /\ orphans' = orphans \cup UNION {FilesOf(q) : q \in S}
    /\ formCount' = IF formCount + 1 \in S THEN formCount + 1 ELSE formCount
    /\ active' \in S
    /\ UNCHANGED <<draftRow, files, fileIds, shared>>

\* importShareJson: requests of the same address are overwritten, others added.
importForms(S, n) ==
    /\ 1 \in S => 1 \in forms
    /\ TakenOver(S, n)
    /\ forms' = forms \cup S
    /\ UNCHANGED formsLoaded

\* The answer of httpWorkspacesGet, late as it may be, replaces all there is; an
\* empty one nothing.
loadForms(S, n) ==
    /\ ~formsLoaded
    /\ formsLoaded' = TRUE
    /\ IF S = {}
       THEN UNCHANGED <<rows, forms, active, draftRow, files, fileIds, formCount, shared, orphans>>
       ELSE TakenOver(S, n) /\ forms' = S

-----------------------------------------------------------------------------
RowsNext ==
    \/ \E i \in 1 .. MaxRows + 1 :
          (\E named \in BOOLEAN : updateRequestRow(i, named)) \/ setFormRowValueType(i)
          \/ selectFormFile(i) \/ removeRequestRow(i)
          \/ \E j \in 1 .. MaxRows : moveRequestRow(i, j)
    \/ commitRequestDraft
    \/ \E q \in Forms : selectForm(q) \/ deleteForm(q)
    \/ duplicateForm
    \/ \E S \in SUBSET Forms, n \in 0 .. MaxRows : importForms(S, n) \/ loadForms(S, n)

RowsSpec == RowsInit /\ [][RowsNext]_rowVars

-----------------------------------------------------------------------------
\* A row, or the draft row, that says a file is chosen finds it when the
\* request is sent, unless a copy of the request named it too.
FilesFound ==
    ((UNION {FilesOf(q) : q \in forms}) \cup ({draftRow.file} \ {0})) \ files \subseteq shared

\* The table holds no file that no row names any more, but for those of
\* requests that were deleted, imported over or replaced by the late load: a
\* chosen file is not kept in memory for ever.
FilesNamed ==
    files \subseteq (UNION {FilesOf(q) : q \in 1 .. formCount}) \cup {draftRow.file} \cup orphans

\* A row that names a file has it, and a file that is had is named by a row.
RowsSound == FilesFound /\ FilesNamed
=============================================================================
