------------------------------- MODULE HttpProofs -------------------------------
(***************************************************************************)
(* The HTTP console, for any number of requests, rows, chosen files, saves *)
(* and openings: a row that names a file has it, no file is kept that no   *)
(* row names, what carries no mark is on the disk, and the message that is *)
(* sent names its content type once and keeps no reference; and no request *)
(* of the tree is lost or at two places, what is deleted was asked for in  *)
(* the dialog, no piece of an answer stays when nothing is sent, and an    *)
(* import moves and drops nothing.                                         *)
(***************************************************************************)
EXTENDS HttpRows, HttpSaving, HttpMessage, HttpTree, HttpSend, HttpImport, ListLemmas, FiniteSetTheorems,
        SequenceTheorems, TLAPS

(* The rows of a form (HttpRows).                                          *)

Rows == [file : Nat, named : BOOLEAN]

\* The files a sequence of rows names.
FilesIn(s) == {s[i].file : i \in DOMAIN s} \ {0}

\* No two of the rows name the same file, but for those in ids.
ApartBut(s, ids) ==
    \A i, j \in DOMAIN s : i # j /\ s[i].file = s[j].file => s[i].file \in ids \cup {0}

RowsTypes ==
    /\ rows \in [Forms -> Seq(Rows)] /\ draftRow \in Rows
    /\ formCount \in Forms /\ forms \subseteq 1..formCount /\ active \in forms
    /\ fileIds \in Nat /\ files \subseteq 1..fileIds

\* The ids that rows name were given, also those of requests that were deleted.
IdsGiven ==
    /\ \A q \in 1..formCount : FilesOf(q) \subseteq 1..fileIds
    /\ draftRow.file \in 0..fileIds

\* A file is named in one place, unless a copy of a request named it too.
NamedOnce ==
    \A q \in 1..formCount :
        /\ ApartBut(rows[q], shared)
        /\ draftRow.file \in FilesOf(q) => draftRow.file \in shared
        /\ \A r \in (1..formCount) \ {q} : FilesOf(q) \cap FilesOf(r) \subseteq shared

RowsInv == RowsTypes /\ IdsGiven /\ NamedOnce /\ RowsSound

\* The files that the rows in view name.
InView == FilesIn(rows[active]) \cup ({draftRow.file} \ {0})

\* A set of positions has a last one.
LEMMA LastOf ==
    ASSUME NEW n \in Nat, NEW S, S \subseteq 1..n, S # {}
    PROVE  \E i \in S : \A j \in S : j <= i
<1> DEFINE From(j) == {x \in S : x >= j}
           Ends == {From(j) : j \in S}
<1>1. IsFiniteSet(S)
  <2>1. IsFiniteSet(1..n)
    BY FS_Interval
  <2>2. QED
    BY <2>1, FS_Subset
<1>2. IsWellFoundedOn(StrictSubsetOrdering(S), SUBSET S)
  BY <1>1, FS_StrictSubsetOrderingWellFounded, FS_FiniteSubsetsOfFinite
<1>3. Ends \subseteq SUBSET S /\ Ends # {}
  OBVIOUS
<1>4. PICK least \in Ends : \A e \in Ends : <<e, least>> \notin StrictSubsetOrdering(S)
  <2> HIDE DEF Ends
  <2> QED
    BY <1>2, <1>3, WFMin
<1>5. PICK i \in S : least = From(i)
  OBVIOUS
<1>6. ASSUME NEW j \in S, j > i PROVE FALSE
  <2>1. \A x \in S : x \in Int
    OBVIOUS
  <2>2. (\A x \in S : x >= j => x >= i) /\ i >= i /\ ~(i >= j)
    BY <1>6, <2>1
  <2>3. From(j) \subseteq From(i) /\ i \in From(i) /\ i \notin From(j)
    BY <2>2
  <2>4. <<From(j), From(i)>> \in StrictSubsetOrdering(S)
    BY <2>3 DEF StrictSubsetOrdering
  <2>5. QED
    BY <1>4, <1>5, <2>4
<1>7. \A j \in S : j <= i
  <2>1. \A j \in S : j \in Int /\ i \in Int
    OBVIOUS
  <2>2. QED
    BY <1>6, <2>1
<1>8. QED
  BY <1>7

\* Without its trailing blank rows a form has the same files.
LEMMA TrimmedRows ==
    ASSUME NEW s \in Seq(Rows)
    PROVE  /\ Trimmed(s) \in Seq(Rows)
           /\ Len(Trimmed(s)) <= Len(s)
           /\ \A i \in DOMAIN Trimmed(s) : i \in DOMAIN s /\ Trimmed(s)[i] = s[i]
           /\ FilesIn(Trimmed(s)) = FilesIn(s)
<1> DEFINE full == {i \in DOMAIN s : HasContent(s[i])}
           m == IF full = {} THEN 0 ELSE CHOOSE i \in full : \A j \in full : j <= i
<1>1. Len(s) \in Nat /\ DOMAIN s = 1..Len(s) /\ \A i \in 1..Len(s) : s[i] \in Rows
  OBVIOUS
<1>2. m \in 0..Len(s) /\ \A j \in full : j <= m
  <2>1. full \subseteq 1..Len(s)
    BY <1>1
  <2>2. CASE full = {}
    BY <1>1, <2>2
  <2>3. CASE full # {}
    <3>1. \E i \in full : \A j \in full : j <= i
      BY <1>1, <2>1, <2>3, LastOf
    <3>2. m \in full /\ \A j \in full : j <= m
      BY <2>3, <3>1
    <3>3. QED
      BY <1>1, <2>1, <3>2
  <2>4. QED
    BY <2>2, <2>3
<1>3. Trimmed(s) = SubSeq(s, 1, m)
  BY DEF Trimmed
<1> HIDE DEF m
<1>4. /\ Trimmed(s) \in Seq(Rows) /\ Len(Trimmed(s)) = m
      /\ \A i \in 1..m : Trimmed(s)[i] = s[i]
  BY <1>1, <1>2, <1>3, SubSeqProperties
<1>5. \A i \in DOMAIN Trimmed(s) : i \in DOMAIN s /\ Trimmed(s)[i] = s[i]
  BY <1>1, <1>2, <1>4
<1>6. FilesIn(Trimmed(s)) \subseteq FilesIn(s)
  BY <1>5 DEF FilesIn
<1>7. ASSUME NEW i \in DOMAIN s, s[i].file # 0
      PROVE  i \in DOMAIN Trimmed(s) /\ Trimmed(s)[i] = s[i]
  <2>1. i \in full
    BY <1>7 DEF HasContent
  <2>2. i \in 1..m
    BY <1>1, <1>2, <2>1
  <2>3. QED
    BY <1>4, <2>2
<1>8. FilesIn(s) \subseteq FilesIn(Trimmed(s))
  BY <1>7 DEF FilesIn
<1>9. QED
  BY <1>1, <1>2, <1>4, <1>5, <1>6, <1>8

\* The rows in view change, in a row that named old, if any, and names new now: the
\* table and what names its files still agree.
LEMMA FormChanges ==
    ASSUME RowsInv, NEW t \in Seq(Rows), NEW old \in InView \cup {0},
           NEW new \in {0, fileIds + 1},
           rows' = [rows EXCEPT ![active] = t], draftRow' \in Rows,
           UNCHANGED <<forms, active, formCount, shared, orphans>>,
           files' = (files \ {old}) \cup ({new} \ {0}),
           fileIds' = IF new = 0 THEN fileIds ELSE new,
           ApartBut(t, shared), draftRow'.file \in FilesIn(t) => draftRow'.file \in shared,
           InView' \subseteq InView \cup {new}, (InView \ {old}) \cup ({new} \ {0}) \subseteq InView',
           old \in InView' => old \in shared
    PROVE  RowsInv'
<1>1. /\ rows'[active] = t /\ active \in 1..formCount
      /\ \A q \in (1..formCount) \ {active} : rows'[q] = rows[q]
      /\ 1..formCount \subseteq Forms
  <2>1. formCount \in 1..MaxForms /\ MaxForms \in Nat /\ active \in 1..formCount
    BY RowsAssumption DEF RowsInv, RowsTypes, Forms
  <2>2. 1..formCount \subseteq Forms
    BY <2>1 DEF Forms
  <2>3. QED
    BY <2>1, <2>2 DEF RowsInv, RowsTypes
<1>2. /\ \A q \in (1..formCount) \ {active} : FilesOf(q)' = FilesOf(q)
      /\ FilesOf(active) = FilesIn(rows[active]) /\ FilesOf(active)' = FilesIn(t)
      /\ InView' = FilesIn(t) \cup ({draftRow'.file} \ {0})
  BY <1>1 DEF FilesOf, FilesIn, InView
<1>3. InView \subseteq 1..fileIds /\ fileIds \in Nat /\ new \notin InView
  BY <1>1, <1>2 DEF InView, RowsInv, RowsTypes, IdsGiven
<1>4. fileIds' \in Nat /\ 1..fileIds \subseteq 1..fileIds' /\ new \in 0..fileIds'
  BY <1>3
<1>5. RowsTypes'
  <2>1. files' \subseteq 1..fileIds'
    <3>1. new \in {0} \cup (1..fileIds')
      BY <1>4
    <3>2. QED
      BY <1>4, <3>1 DEF RowsInv, RowsTypes
  <2>2. QED
    BY <1>4, <2>1 DEF RowsInv, RowsTypes
<1>6. IdsGiven'
  <2>1. InView' \subseteq 1..fileIds'
    <3>1. \A f \in InView' : f \in InView \/ (f = new /\ f # 0)
      BY <1>2 DEF FilesIn
    <3>2. QED
      BY <1>3, <1>4, <3>1
  <2>2. draftRow'.file \in 0..fileIds'
    BY <1>2, <1>4, <2>1
  <2>3. QED
    BY <1>1, <1>2, <1>4, <2>1, <2>2 DEF RowsInv, IdsGiven
\* What the rows in view name is named elsewhere only if it is shared.
<1>7. \A q \in (1..formCount) \ {active} : InView \cap FilesOf(q) \subseteq shared
  BY <1>1, <1>2 DEF RowsInv, NamedOnce, InView
<1>8. \A q \in (1..formCount) \ {active} : InView' \cap FilesOf(q) \subseteq shared
  <2>1. 0 \notin 1..fileIds /\ fileIds + 1 \notin 1..fileIds
    BY <1>3
  <2>2. \A q \in 1..formCount : 0 \notin FilesOf(q) /\ fileIds + 1 \notin FilesOf(q)
    BY <2>1 DEF RowsInv, IdsGiven
  <2>3. QED
    BY <1>7, <2>2
<1>9. NamedOnce'
  BY <1>1, <1>2, <1>8 DEF RowsInv, NamedOnce, FilesOf
<1>10. FilesFound'
  <2>1. ASSUME NEW f \in InView', f \notin files' PROVE f \in shared
    <3>1. f \in InView /\ (f = old \/ f \notin files)
      BY <1>2, <2>1 DEF FilesIn
    <3>2. CASE f = old
      BY <2>1, <3>2
    <3>3. CASE f \notin files
      <4>1. active \in forms
        BY DEF RowsInv, RowsTypes
      <4>2. FilesOf(active) \ files \subseteq shared /\ ({draftRow.file} \ {0}) \ files \subseteq shared
        BY <4>1 DEF RowsInv, RowsSound, FilesFound
      <4>3. QED
        BY <1>2, <3>1, <3>3, <4>2 DEF InView
    <3>4. QED
      BY <3>1, <3>2, <3>3
  <2>2. ASSUME NEW q \in forms \ {active}, NEW f \in FilesOf(q), f \notin files'
        PROVE  f \in shared
    <3>1. q \in (1..formCount) \ {active} /\ (f = old \/ f \notin files) /\ f # 0
      BY <2>2 DEF RowsInv, RowsTypes, FilesOf
    <3>2. CASE f = old
      BY <1>7, <3>1, <3>2
    <3>3. CASE f \notin files
      BY <3>3 DEF RowsInv, RowsSound, FilesFound
    <3>4. QED
      BY <3>1, <3>2, <3>3
  <2>3. /\ forms' = forms /\ forms \subseteq 1..formCount
        /\ \A q \in forms \ {active} : FilesOf(q)' = FilesOf(q)
    BY <1>2 DEF RowsInv, RowsTypes
  <2>4. \A q \in forms : FilesOf(q)' \ files' \subseteq shared
    BY <1>2, <2>1, <2>2, <2>3
  <2>5. ({draftRow'.file} \ {0}) \ files' \subseteq shared
    BY <1>2, <2>1
  <2>6. QED
    BY <2>3, <2>4, <2>5 DEF FilesFound
<1>11. FilesNamed'
  <2>1. ASSUME NEW f \in files', f \notin orphans
        PROVE  f \in InView' \/ \E q \in (1..formCount) \ {active} : f \in FilesOf(q)
    <3>1. CASE f = new /\ f # 0
      BY <3>1
    <3>2. CASE f \in files /\ f # old
      <4>1. f # 0
        BY <3>2 DEF RowsInv, RowsTypes
      <4>2. f \in InView \/ \E q \in (1..formCount) \ {active} : f \in FilesOf(q)
        <5>1. f = draftRow.file \/ \E q \in 1..formCount : f \in FilesOf(q)
          BY <2>1, <3>2 DEF RowsInv, RowsSound, FilesNamed
        <5>2. QED
          BY <1>2, <4>1, <5>1 DEF InView
      <4>3. QED
        BY <3>2, <4>2
    <3>3. QED
      BY <2>1, <3>1, <3>2
  <2>2. ASSUME NEW f \in files', f \notin orphans
        PROVE  f = draftRow'.file \/ \E q \in 1..formCount : f \in FilesOf(q)'
    BY <1>1, <1>2, <2>1, <2>2
  <2>3. QED
    BY <2>2 DEF FilesNamed
<1>12. QED
  BY <1>5, <1>6, <1>9, <1>10, <1>11 DEF RowsInv, RowsSound

\* One row of a form is another one now.
LEMMA RowReplaced ==
    ASSUME NEW s \in Seq(Rows), NEW i \in DOMAIN s, NEW row \in Rows, NEW ids,
           ApartBut(s, ids), row.file = s[i].file \/ row.file \notin FilesIn(s)
    PROVE  LET t == Trimmed([s EXCEPT ![i] = row]) IN
           /\ t \in Seq(Rows) /\ ApartBut(t, ids)
           /\ FilesIn(t) \subseteq FilesIn(s) \cup {row.file}
           /\ (FilesIn(s) \ {s[i].file}) \cup ({row.file} \ {0}) \subseteq FilesIn(t)
           /\ s[i].file \in FilesIn(t) /\ s[i].file # row.file => s[i].file \in ids
<1> DEFINE r == [s EXCEPT ![i] = row]
           t == Trimmed(r)
<1>1. /\ r \in Seq(Rows) /\ DOMAIN r = DOMAIN s /\ r[i] = row
      /\ \A j \in DOMAIN s : j # i => r[j] = s[j]
  BY ExceptSeq
<1> HIDE DEF r
<1>2. /\ t \in Seq(Rows) /\ FilesIn(t) = FilesIn(r)
      /\ \A j \in DOMAIN t : j \in DOMAIN r /\ t[j] = r[j]
  BY <1>1, TrimmedRows
<1>3. ApartBut(r, ids)
  <2>1. ASSUME NEW j \in DOMAIN s, NEW k \in DOMAIN s, j # k, r[j].file = r[k].file
        PROVE  r[j].file \in ids \cup {0}
    <3>1. CASE j # i /\ k # i
      BY <1>1, <2>1, <3>1 DEF ApartBut
    <3>2. ASSUME NEW o \in DOMAIN s, o # i, s[o].file = row.file PROVE row.file \in ids \cup {0}
      BY <3>2 DEF ApartBut, FilesIn
    <3>3. QED
      BY <1>1, <2>1, <3>1, <3>2
  <2>2. QED
    BY <1>1, <2>1 DEF ApartBut
<1>4. ApartBut(t, ids)
  BY <1>2, <1>3 DEF ApartBut
<1>5. FilesIn(r) \subseteq FilesIn(s) \cup {row.file}
  BY <1>1 DEF FilesIn
<1>6. (FilesIn(s) \ {s[i].file}) \cup ({row.file} \ {0}) \subseteq FilesIn(r)
  BY <1>1 DEF FilesIn
<1>7. s[i].file \in FilesIn(r) /\ s[i].file # row.file => s[i].file \in ids
  BY <1>1 DEF FilesIn, ApartBut
<1>8. QED
  BY <1>2, <1>4, <1>5, <1>6, <1>7 DEF r

\* What the actions find in view.
LEMMA RowsInView ==
    ASSUME RowsInv
    PROVE  /\ ActiveRows \in Seq(Rows) /\ rows[active] \in Seq(Rows) /\ draftRow \in Rows
           /\ active \in 1..formCount /\ rows = [rows EXCEPT ![active] = rows[active]]
           /\ ApartBut(ActiveRows, shared) /\ ApartBut(rows[active], shared)
           /\ FilesIn(ActiveRows) = FilesIn(rows[active])
           /\ InView = FilesIn(ActiveRows) \cup ({draftRow.file} \ {0})
           /\ draftRow.file \in FilesIn(ActiveRows) => draftRow.file \in shared
           /\ fileIds + 1 \notin InView \cup {0} /\ 0 \notin files /\ 0 \notin InView
<1>1. active \in 1..formCount /\ 1..formCount \subseteq Forms /\ rows[active] \in Seq(Rows)
  <2>1. formCount \in 1..MaxForms /\ MaxForms \in Nat /\ active \in 1..formCount
    BY RowsAssumption DEF RowsInv, RowsTypes, Forms
  <2>2. 1..formCount \subseteq Forms
    BY <2>1 DEF Forms
  <2>3. QED
    BY <2>1, <2>2 DEF RowsInv, RowsTypes
<1>2. /\ ActiveRows \in Seq(Rows) /\ FilesIn(ActiveRows) = FilesIn(rows[active])
      /\ \A i \in DOMAIN ActiveRows : i \in DOMAIN rows[active] /\ ActiveRows[i] = rows[active][i]
  BY <1>1, TrimmedRows DEF ActiveRows
<1>3. ApartBut(rows[active], shared) /\ (draftRow.file \in FilesOf(active) => draftRow.file \in shared)
  BY <1>1 DEF RowsInv, NamedOnce
<1>4. ApartBut(ActiveRows, shared)
  BY <1>2, <1>3 DEF ApartBut
<1>5. FilesOf(active) = FilesIn(rows[active])
  BY DEF FilesOf, FilesIn
<1>6. fileIds \in Nat /\ InView \subseteq 1..fileIds
  BY <1>1, <1>5 DEF RowsInv, RowsTypes, IdsGiven, InView
<1>7. fileIds + 1 \notin InView \cup {0} /\ 0 \notin files /\ 0 \notin InView
  <2>1. fileIds + 1 \notin 1..fileIds /\ fileIds + 1 # 0 /\ 0 \notin 1..fileIds
    BY <1>6
  <2>2. QED
    BY <1>6, <2>1 DEF RowsInv, RowsTypes
<1>8. draftRow \in Rows /\ rows = [rows EXCEPT ![active] = rows[active]]
  BY <1>1 DEF RowsInv, RowsTypes
<1>9. QED
  BY <1>1, <1>2, <1>3, <1>4, <1>5, <1>7, <1>8 DEF InView

\* A row or the draft row keeps its file, or the file it had is forgotten for new.
LEMMA RowUpdated ==
    ASSUME RowsInv, NEW i \in 1..(Len(ActiveRows) + 1), NEW row \in Rows, UpdateRow(i, row),
           NEW old, NEW new \in {0, fileIds + 1},
           \/ row.file = RowAt(i).file /\ old = 0 /\ new = 0
           \/ row.file = new /\ old = RowAt(i).file,
           UNCHANGED <<forms, active, formCount, shared, orphans>>,
           files' = (files \ {old}) \cup ({new} \ {0}),
           fileIds' = IF new = 0 THEN fileIds ELSE new
    PROVE  RowsInv'
<1> DEFINE A == ActiveRows
<1>1. /\ A \in Seq(Rows) /\ rows[active] \in Seq(Rows) /\ draftRow \in Rows
      /\ active \in 1..formCount /\ rows = [rows EXCEPT ![active] = rows[active]]
      /\ ApartBut(A, shared) /\ ApartBut(rows[active], shared)
      /\ FilesIn(A) = FilesIn(rows[active])
      /\ InView = FilesIn(A) \cup ({draftRow.file} \ {0})
      /\ draftRow.file \in FilesIn(A) => draftRow.file \in shared
      /\ fileIds + 1 \notin InView \cup {0} /\ 0 \notin files /\ 0 \notin InView
  BY RowsInView
<1>2. rows \in [Forms -> Seq(Rows)] /\ active \in Forms /\ active' = active
  <2>1. formCount \in 1..MaxForms /\ MaxForms \in Nat
    BY RowsAssumption DEF RowsInv, RowsTypes, Forms
  <2>2. QED
    BY <1>1, <2>1 DEF RowsInv, RowsTypes, Forms
<1>3. CASE i > Len(A)
  <2>1. RowAt(i) = draftRow /\ draftRow' = row /\ rows' = rows
    BY <1>3 DEF RowAt, UpdateRow
  <2>2. InView' = FilesIn(A) \cup ({row.file} \ {0}) /\ old \in InView \cup {0}
    BY <1>1, <1>2, <2>1 DEF InView
  <2>3. row.file \in FilesIn(A) => row.file \in shared
    BY <1>1, <2>1
  <2>4. /\ InView' \subseteq InView \cup {new}
        /\ (InView \ {old}) \cup ({new} \ {0}) \subseteq InView'
        /\ old \in InView' => old \in shared
    BY <1>1, <2>1, <2>2
  <2>5. QED
    BY <1>1, <2>1, <2>2, <2>3, <2>4, FormChanges, SMTT(30)
<1>4. CASE i \in DOMAIN A
  <2> DEFINE t == Trimmed([A EXCEPT ![i] = row])
  <2>1. RowAt(i) = A[i] /\ draftRow' = draftRow /\ rows' = [rows EXCEPT ![active] = t]
    BY <1>1, <1>4 DEF RowAt, UpdateRow, SetRows
  <2>2. A[i].file \in FilesIn(A) \cup {0}
    BY <1>4 DEF FilesIn
  <2>3. /\ t \in Seq(Rows) /\ ApartBut(t, shared)
        /\ FilesIn(t) \subseteq FilesIn(A) \cup {row.file}
        /\ (FilesIn(A) \ {A[i].file}) \cup ({row.file} \ {0}) \subseteq FilesIn(t)
        /\ A[i].file \in FilesIn(t) /\ A[i].file # row.file => A[i].file \in shared
    <3>1. row.file = A[i].file \/ row.file \notin FilesIn(A)
      BY <1>1, <2>1
    <3> HIDE DEF A
    <3>2. QED
      BY <1>1, <1>4, <3>1, RowReplaced
  <2> HIDE DEF t
  <2>4. InView' = FilesIn(t) \cup ({draftRow.file} \ {0}) /\ old \in InView \cup {0}
    BY <1>1, <1>2, <2>1, <2>2 DEF InView
  <2>5. 0 \notin FilesIn(t)
    BY DEF FilesIn
  <2>6. draftRow.file \in FilesIn(t) => draftRow.file \in shared
    BY <1>1, <2>1, <2>2, <2>3, <2>5
  <2>7. /\ InView' \subseteq InView \cup {new}
        /\ (InView \ {old}) \cup ({new} \ {0}) \subseteq InView'
    BY <1>1, <2>1, <2>2, <2>3, <2>4, <2>5
  <2>8. old \in InView' => old \in shared
    BY <1>1, <2>1, <2>2, <2>3, <2>4, <2>5
  <2>9. QED
    BY <1>1, <2>1, <2>3, <2>4, <2>6, <2>7, <2>8, FormChanges
<1>5. QED
  BY <1>1, <1>3, <1>4

\* A row is written, changed to a file or back, or a file is chosen for it.
LEMMA UpdatesKeep ==
    ASSUME RowsInv, NEW i \in 1..(MaxRows + 1),
           \/ \E named \in BOOLEAN : updateRequestRow(i, named)
           \/ setFormRowValueType(i) \/ selectFormFile(i)
    PROVE  RowsInv'
<1>1. RowAt(i) \in Rows /\ i \in 1..(Len(ActiveRows) + 1) /\ fileIds \in Nat /\ 0 \notin files
  <2>1. /\ ActiveRows \in Seq(Rows) /\ draftRow \in Rows /\ fileIds \in Nat /\ 0 \notin files
        /\ i \in 1..(Len(ActiveRows) + 1)
    BY RowsInView DEF RowsInv, RowsTypes, updateRequestRow, setFormRowValueType, selectFormFile
  <2>2. QED
    BY <2>1 DEF RowAt
<1>2. /\ RowAt(i).file \in Nat
      /\ \A named \in BOOLEAN : /\ [RowAt(i) EXCEPT !.named = named] \in Rows
                               /\ [RowAt(i) EXCEPT !.named = named].file = RowAt(i).file
      /\ \A f \in Nat : [RowAt(i) EXCEPT !.file = f] \in Rows /\ [RowAt(i) EXCEPT !.file = f].file = f
  BY <1>1 DEF Rows
<1>3. ASSUME NEW named \in BOOLEAN, updateRequestRow(i, named) PROVE RowsInv'
  <2>1. files' = (files \ {0}) \cup ({0} \ {0}) /\ fileIds' = fileIds
    BY <1>1, <1>3 DEF updateRequestRow
  <2>2. QED
    BY <1>1, <1>2, <1>3, <2>1, RowUpdated DEF updateRequestRow
<1>4. CASE setFormRowValueType(i)
  <2>1. files' = (files \ {RowAt(i).file}) \cup ({0} \ {0}) /\ fileIds' = fileIds
    BY <1>4 DEF setFormRowValueType, Forgotten
  <2>2. QED
    BY <1>1, <1>2, <1>4, <2>1, RowUpdated DEF setFormRowValueType, RetypedRow
<1>5. CASE selectFormFile(i)
  <2>1. fileIds + 1 \in Nat /\ fileIds + 1 # 0
    BY <1>1
  <2>2. /\ files' = (files \ {RowAt(i).file}) \cup ({fileIds + 1} \ {0})
        /\ fileIds' = IF fileIds + 1 = 0 THEN fileIds ELSE fileIds + 1
    BY <1>5, <2>1 DEF selectFormFile, Forgotten
  <2>3. UpdateRow(i, [RowAt(i) EXCEPT !.file = fileIds + 1])
    BY <1>5 DEF selectFormFile
  <2>4. QED
    BY <1>1, <1>2, <1>5, <2>1, <2>2, <2>3, RowUpdated, ZenonT(30) DEF selectFormFile
<1>6. QED
  BY <1>3, <1>4, <1>5

\* The draft row becomes a row of the form.
LEMMA CommitKeeps == RowsInv /\ commitRequestDraft => RowsInv'
<1> SUFFICES ASSUME RowsInv, commitRequestDraft PROVE RowsInv'
  OBVIOUS
<1> DEFINE A == ActiveRows
           t == Append(A, draftRow)
<1>1. /\ A \in Seq(Rows) /\ draftRow \in Rows /\ ApartBut(A, shared)
      /\ InView = FilesIn(A) \cup ({draftRow.file} \ {0})
      /\ draftRow.file \in FilesIn(A) => draftRow.file \in shared
      /\ 0 \notin files /\ 0 \notin InView
  BY RowsInView
<1>2. /\ rows \in [Forms -> Seq(Rows)] /\ active \in Forms /\ active' = active
      /\ rows' = [rows EXCEPT ![active] = t] /\ draftRow' = Blank
  <2>1. formCount \in 1..MaxForms /\ MaxForms \in Nat
    BY RowsAssumption DEF RowsInv, RowsTypes, Forms
  <2>2. QED
    BY <2>1 DEF RowsInv, RowsTypes, Forms, commitRequestDraft, SetRows
<1> HIDE DEF A
<1>3. /\ t \in Seq(Rows) /\ Len(t) = Len(A) + 1 /\ Len(A) \in Nat
      /\ \A j \in 1..Len(A) : t[j] = A[j]
      /\ t[Len(A) + 1] = draftRow
  BY <1>1, AppendProperties
<1> HIDE DEF t
<1>4. /\ DOMAIN t = 1..(Len(A) + 1) /\ DOMAIN A = 1..Len(A)
      /\ \A j \in DOMAIN t : j \in DOMAIN A \/ j = Len(A) + 1
      /\ \A j \in DOMAIN A : j \in DOMAIN t
      /\ Len(A) + 1 \in DOMAIN t
  BY <1>1, <1>3
<1>5. \A j \in DOMAIN t : (j \in DOMAIN A /\ t[j] = A[j]) \/ (j = Len(A) + 1 /\ t[j] = draftRow)
  <2>1. \A j \in DOMAIN A : t[j] = A[j]
    BY <1>3, <1>4
  <2>2. QED
    BY <1>3, <1>4, <2>1
<1>6. FilesIn(t) = InView
  <2>1. FilesIn(t) \subseteq InView
    BY <1>1, <1>5 DEF FilesIn
  <2>2. FilesIn(A) \subseteq FilesIn(t) /\ {draftRow.file} \ {0} \subseteq FilesIn(t)
    BY <1>3, <1>4 DEF FilesIn
  <2>3. QED
    BY <1>1, <2>1, <2>2
<1>7. ApartBut(t, shared)
  <2>1. ASSUME NEW j \in DOMAIN t, NEW k \in DOMAIN t, j # k, t[j].file = t[k].file
        PROVE  t[j].file \in shared \cup {0}
    <3>1. CASE j \in DOMAIN A /\ t[j] = A[j] /\ k \in DOMAIN A /\ t[k] = A[k]
      BY <1>1, <2>1, <3>1 DEF ApartBut
    <3>2. ASSUME NEW o \in DOMAIN A, A[o].file = draftRow.file PROVE draftRow.file \in shared \cup {0}
      BY <1>1, <3>2 DEF FilesIn
    <3>3. QED
      BY <1>5, <2>1, <3>1, <3>2
  <2>2. QED
    BY <2>1 DEF ApartBut
<1>8. InView' = InView /\ draftRow'.file = 0 /\ Blank \in Rows
  BY <1>2, <1>6 DEF InView, Blank, Rows
<1>9. /\ files' = (files \ {0}) \cup ({0} \ {0}) /\ fileIds' = fileIds
      /\ UNCHANGED <<forms, active, formCount, shared, orphans>>
  BY <1>1 DEF commitRequestDraft
<1>10. 0 \notin FilesIn(t)
  BY DEF FilesIn
<1>11. InView' \subseteq InView \cup {0} /\ (InView \ {0}) \cup ({0} \ {0}) \subseteq InView'
  BY <1>8
<1>12. /\ 0 \in InView \cup {0} /\ 0 \in {0, fileIds + 1} /\ draftRow' \in Rows
       /\ fileIds' = IF 0 = 0 THEN fileIds ELSE 0
       /\ 0 \in InView' => 0 \in shared
       /\ draftRow'.file \in FilesIn(t) => draftRow'.file \in shared
  BY <1>1, <1>2, <1>8, <1>9, <1>10
<1>13. QED
  BY <1>2, <1>3, <1>7, <1>9, <1>11, <1>12, FormChanges

\* The rows of a form are put in another order, some of them left out.
LEMMA RowsRearranged ==
    ASSUME NEW s \in Seq(Rows), NEW t \in Seq(Rows), NEW h \in [DOMAIN t -> DOMAIN s],
           \A i \in DOMAIN t : t[i] = s[h[i]],
           \A i, j \in DOMAIN t : h[i] = h[j] => i = j,
           NEW ids, ApartBut(s, ids)
    PROVE  /\ ApartBut(t, ids) /\ FilesIn(t) \subseteq FilesIn(s)
           /\ {s[h[i]].file : i \in DOMAIN t} \ {0} = FilesIn(t)
  BY DEF ApartBut, FilesIn

\* A row without which a form is no longer has its file.
LEMMA RowRemoved ==
    ASSUME NEW s \in Seq(Rows), NEW i \in DOMAIN s, NEW ids, ApartBut(s, ids)
    PROVE  /\ RemoveAt(s, i) \in Seq(Rows) /\ ApartBut(RemoveAt(s, i), ids)
           /\ FilesIn(RemoveAt(s, i)) \subseteq FilesIn(s)
           /\ FilesIn(s) \ {s[i].file} \subseteq FilesIn(RemoveAt(s, i))
           /\ s[i].file \in FilesIn(RemoveAt(s, i)) => s[i].file \in ids
<1> DEFINE n == Len(s)
           a == SubSeq(s, 1, i - 1)
           b == SubSeq(s, i + 1, n)
           t == RemoveAt(s, i)
           h == [j \in DOMAIN t |-> IF j < i THEN j ELSE j + 1]
<1>1. n \in Nat /\ DOMAIN s = 1..n /\ i \in 1..n /\ \A j \in 1..n : s[j] \in Rows
  OBVIOUS
<1>2. /\ a \in Seq(Rows) /\ Len(a) = i - 1
      /\ \A j \in 1..(i - 1) : a[j] = s[j]
  <2>1. \A j \in 1..(i - 1) : s[j] \in Rows
    BY <1>1
  <2>2. 1 \in Int /\ i - 1 \in Int /\ (i - 1) - 1 + 1 = i - 1 /\ (1 <= i - 1 \/ i - 1 = 0)
    BY <1>1
  <2>3. /\ a \in Seq(Rows) /\ Len(a) = i - 1
        /\ \A j \in 1..((i - 1) - 1 + 1) : a[j] = s[1 + j - 1]
    BY <2>1, <2>2, SubSeqProperties
  <2>4. \A j \in 1..(i - 1) : 1 + j - 1 = j
    OBVIOUS
  <2>5. QED
    BY <2>2, <2>3, <2>4
<1>3. /\ b \in Seq(Rows) /\ Len(b) = n - i
      /\ \A j \in 1..(n - i) : b[j] = s[i + j]
  <2>1. \A j \in (i + 1)..n : s[j] \in Rows
    BY <1>1
  <2>2. i + 1 \in Int /\ n \in Int /\ n - (i + 1) + 1 = n - i /\ (i + 1 <= n \/ n - i = 0)
    BY <1>1
  <2>3. /\ b \in Seq(Rows) /\ Len(b) = n - i
        /\ \A j \in 1..(n - (i + 1) + 1) : b[j] = s[i + 1 + j - 1]
    BY <2>1, <2>2, SubSeqProperties
  <2>4. \A j \in 1..(n - i) : i + 1 + j - 1 = i + j
    BY <1>1
  <2>5. QED
    BY <2>2, <2>3, <2>4
<1>4. t = a \o b
  BY DEF RemoveAt
<1> HIDE DEF a, b, t, n
<1>5. /\ t \in Seq(Rows) /\ Len(t) = n - 1 /\ DOMAIN t = 1..(n - 1)
      /\ \A j \in 1..(i - 1) : t[j] = s[j]
      /\ \A j \in i..(n - 1) : t[j] = s[j + 1]
  <2>1. /\ t \in Seq(Rows) /\ Len(t) = Len(a) + Len(b)
        /\ \A j \in 1..Len(a) : t[j] = a[j]
        /\ \A j \in (Len(a) + 1)..(Len(a) + Len(b)) : t[j] = b[j - Len(a)]
    <3>1. /\ t \in Seq(Rows) /\ Len(t) = Len(a) + Len(b)
          /\ \A j \in 1..(Len(a) + Len(b)) : t[j] = IF j <= Len(a) THEN a[j] ELSE b[j - Len(a)]
      BY <1>2, <1>3, <1>4, ConcatProperties
    <3>2. Len(a) \in Nat /\ Len(b) \in Nat
      BY <1>2, <1>3
    <3>3. \A j \in 1..Len(a) : j \in 1..(Len(a) + Len(b)) /\ j <= Len(a)
      BY <3>2
    <3>4. \A j \in (Len(a) + 1)..(Len(a) + Len(b)) : j \in 1..(Len(a) + Len(b)) /\ ~(j <= Len(a))
      BY <3>2
    <3>5. QED
      BY <3>1, <3>3, <3>4
  <2>2. Len(t) = n - 1 /\ DOMAIN t = 1..(n - 1)
    BY <1>1, <1>2, <1>3, <2>1
  <2>3. ASSUME NEW j \in i..(n - 1) PROVE t[j] = s[j + 1]
    <3>1. j \in ((i - 1) + 1)..((i - 1) + (n - i)) /\ j - (i - 1) \in 1..(n - i)
          /\ i + (j - (i - 1)) = j + 1
      BY <1>1
    <3>2. t[j] = b[j - (i - 1)]
      BY <1>2, <1>3, <2>1, <3>1
    <3>3. QED
      BY <1>3, <3>1, <3>2
  <2>4. QED
    BY <1>2, <2>1, <2>2, <2>3
<1>6. h \in [DOMAIN t -> DOMAIN s]
  <2>1. \A j \in 1..(n - 1) : (IF j < i THEN j ELSE j + 1) \in 1..n
    BY <1>1
  <2>2. QED
    BY <1>1, <1>5, <2>1
<1>7. \A j \in DOMAIN t : t[j] = s[h[j]] /\ h[j] # i
  <2>1. \A j \in 1..(n - 1) : (j < i /\ j \in 1..(i - 1)) \/ (~(j < i) /\ j \in i..(n - 1) /\ j + 1 # i)
    BY <1>1
  <2>2. QED
    BY <1>5, <2>1
<1>8. \A j, k \in DOMAIN t : h[j] = h[k] => j = k
  BY <1>1, <1>5
<1>9. \A k \in DOMAIN s : k # i => \E j \in DOMAIN t : h[j] = k
  <2>1. ASSUME NEW k \in 1..n, k < i PROVE k \in 1..(n - 1)
    BY <1>1, <2>1
  <2>2. ASSUME NEW k \in 1..n, k > i PROVE k - 1 \in 1..(n - 1) /\ ~(k - 1 < i) /\ (k - 1) + 1 = k
    BY <1>1, <2>2
  <2>3. \A k \in 1..n : k # i => k < i \/ k > i
    BY <1>1
  <2>4. QED
    BY <1>1, <1>5, <2>1, <2>2, <2>3
<1> HIDE DEF h
<1>10. ApartBut(t, ids) /\ FilesIn(t) \subseteq FilesIn(s)
  <2>1. \A j \in DOMAIN t : t[j] = s[h[j]]
    BY <1>7
  <2>2. QED
    BY <1>5, <1>6, <1>8, <2>1, RowsRearranged
<1>11. FilesIn(s) \ {s[i].file} \subseteq FilesIn(t)
  BY <1>7, <1>9 DEF FilesIn
<1>12. s[i].file \in FilesIn(t) => s[i].file \in ids
  <2>1. ASSUME NEW j \in DOMAIN t, t[j].file = s[i].file, s[i].file # 0 PROVE s[i].file \in ids
    BY <1>6, <1>7, <2>1 DEF ApartBut
  <2>2. QED
    BY <2>1 DEF FilesIn
<1>13. QED
  BY <1>5, <1>10, <1>11, <1>12 DEF t

\* Two neighbours change places.
LEMMA RowsSwapped ==
    ASSUME NEW s \in Seq(Rows), NEW i \in DOMAIN s, NEW j \in DOMAIN s,
           NEW ids, ApartBut(s, ids)
    PROVE  LET t == [s EXCEPT ![i] = s[j], ![j] = s[i]] IN
           t \in Seq(Rows) /\ ApartBut(t, ids) /\ FilesIn(t) = FilesIn(s)
<1> DEFINE t == [s EXCEPT ![i] = s[j], ![j] = s[i]]
           h == [k \in DOMAIN s |-> IF k = i THEN j ELSE IF k = j THEN i ELSE k]
<1>1. t \in Seq(Rows)
  BY ExceptSeq
<1>2. /\ DOMAIN t = DOMAIN s /\ t[j] = s[i] /\ (i # j => t[i] = s[j])
      /\ \A k \in DOMAIN s : k # i /\ k # j => t[k] = s[k]
  OBVIOUS
<1> HIDE DEF t
<1>3. h \in [DOMAIN t -> DOMAIN s] /\ \A k \in DOMAIN t : t[k] = s[h[k]]
  BY <1>2
<1>4. \A k, m \in DOMAIN t : h[k] = h[m] => k = m
  BY <1>2
<1>5. \A k \in DOMAIN s : h[k] \in DOMAIN t /\ h[h[k]] = k
  BY <1>2
<1> HIDE DEF h
<1>6. ApartBut(t, ids) /\ FilesIn(t) \subseteq FilesIn(s)
  BY <1>1, <1>3, <1>4, RowsRearranged
<1>7. FilesIn(s) \subseteq FilesIn(t)
  BY <1>3, <1>5 DEF FilesIn
<1>8. QED
  BY <1>1, <1>6, <1>7 DEF t

\* Rows are removed and moved.
LEMMA FormKeeps ==
    ASSUME RowsInv, NEW i \in 1..(MaxRows + 1),
           removeRequestRow(i) \/ \E j \in 1..MaxRows : moveRequestRow(i, j)
    PROVE  RowsInv'
<1> DEFINE A == ActiveRows
<1>1. /\ A \in Seq(Rows) /\ draftRow \in Rows /\ ApartBut(A, shared)
      /\ InView = FilesIn(A) \cup ({draftRow.file} \ {0})
      /\ draftRow.file \in FilesIn(A) => draftRow.file \in shared
      /\ 0 \notin files /\ 0 \notin InView
  BY RowsInView
<1>2. rows \in [Forms -> Seq(Rows)] /\ active \in Forms
  <2>1. formCount \in 1..MaxForms /\ MaxForms \in Nat
    BY RowsAssumption DEF RowsInv, RowsTypes, Forms
  <2>2. QED
    BY <2>1 DEF RowsInv, RowsTypes, Forms
\* Whatever is left of the rows, what else FormChanges asks for is there.
<1>3. ASSUME NEW t \in Seq(Rows), NEW old \in FilesIn(A) \cup {0},
             rows' = [rows EXCEPT ![active] = t], draftRow' = draftRow,
             UNCHANGED <<forms, active, formCount, fileIds, shared, orphans>>,
             files' = files \ {old}, ApartBut(t, shared),
             FilesIn(t) \subseteq FilesIn(A), FilesIn(A) \ {old} \subseteq FilesIn(t),
             old \in FilesIn(t) => old \in shared
      PROVE  RowsInv'
  <2>1. InView' = FilesIn(t) \cup ({draftRow.file} \ {0}) /\ 0 \notin FilesIn(t)
    BY <1>2, <1>3 DEF InView, FilesIn
  <2>2. old \in InView' => old \in shared
    BY <1>1, <1>3, <2>1
  <2>3. /\ InView' \subseteq InView \cup {0} /\ (InView \ {old}) \cup ({0} \ {0}) \subseteq InView'
        /\ old \in InView \cup {0} /\ 0 \in {0, fileIds + 1}
        /\ files' = (files \ {old}) \cup ({0} \ {0})
        /\ fileIds' = IF 0 = 0 THEN fileIds ELSE 0
        /\ draftRow' \in Rows
        /\ draftRow'.file \in FilesIn(t) => draftRow'.file \in shared
    BY <1>1, <1>3, <2>1
  <2>4. QED
    BY <1>3, <2>2, <2>3, FormChanges
<1>4. CASE removeRequestRow(i)
  <2>1. /\ i \in DOMAIN A /\ rows' = [rows EXCEPT ![active] = RemoveAt(A, i)]
        /\ files' = files \ {A[i].file}
        /\ UNCHANGED <<forms, active, draftRow, fileIds, formCount, shared, orphans>>
    BY <1>4 DEF removeRequestRow, SetRows, Forgotten
  <2>2. A[i].file \in FilesIn(A) \cup {0}
    BY <2>1 DEF FilesIn
  <2> HIDE DEF A
  <2>3. QED
    BY <1>1, <1>3, <2>1, <2>2, RowRemoved
<1>5. ASSUME NEW j \in 1..MaxRows, moveRequestRow(i, j) PROVE RowsInv'
  <2> DEFINE t == [A EXCEPT ![i] = A[j], ![j] = A[i]]
  <2>1. /\ i \in DOMAIN A /\ j \in DOMAIN A /\ rows' = [rows EXCEPT ![active] = t]
        /\ files' = files \ {0}
        /\ UNCHANGED <<forms, active, draftRow, fileIds, formCount, shared, orphans>>
    BY <1>1, <1>5 DEF moveRequestRow, SetRows
  <2> HIDE DEF A
  <2>2. t \in Seq(Rows) /\ ApartBut(t, shared) /\ FilesIn(t) = FilesIn(A)
    BY <1>1, <2>1, RowsSwapped
  <2>3. 0 \notin FilesIn(t)
    BY DEF FilesIn
  <2> HIDE DEF t
  <2>4. QED
    BY <1>3, <2>1, <2>2, <2>3
<1>6. QED
  BY <1>4, <1>5

\* A copy of the request in view names the files of its rows too.
LEMMA DuplicateKeeps == RowsInv /\ duplicateForm => RowsInv'
<1> SUFFICES ASSUME RowsInv, duplicateForm PROVE RowsInv'
  OBVIOUS
<1> DEFINE n == formCount + 1
<1>1. /\ formCount \in Nat /\ n \in Forms /\ n \notin 1..formCount
      /\ 1..n = (1..formCount) \cup {n} /\ 1..formCount \subseteq Forms
      /\ active \in 1..formCount /\ active \in forms
  <2>1. /\ formCount \in 1..MaxForms /\ MaxForms \in Nat /\ formCount < MaxForms
        /\ active \in 1..formCount /\ active \in forms
    BY RowsAssumption DEF RowsInv, RowsTypes, Forms, duplicateForm
  <2>2. n \in 1..MaxForms /\ n \notin 1..formCount /\ 1..n = (1..formCount) \cup {n}
        /\ 1..formCount \subseteq 1..MaxForms
    BY <2>1
  <2>3. QED
    BY <2>1, <2>2 DEF Forms
<1>2. /\ formCount' = n /\ forms' = forms \cup {n} /\ active' = n
      /\ rows' = [rows EXCEPT ![n] = rows[active]]
      /\ shared' = shared \cup FilesOf(active)
      /\ UNCHANGED <<draftRow, files, fileIds, orphans>>
  BY DEF duplicateForm, FilesOf
<1> HIDE DEF n
<1>3. RowsTypes'
  BY <1>1, <1>2 DEF RowsInv, RowsTypes
<1>4. (\A q \in 1..formCount : rows'[q] = rows[q]) /\ rows'[n] = rows[active]
  BY <1>1, <1>2 DEF RowsInv, RowsTypes
<1>5. \A q \in 1..formCount' : q \in 1..formCount \/ q = n
  BY <1>1, <1>2
<1>6. /\ \A q \in 1..formCount : FilesIn(rows[q]) \subseteq 1..fileIds /\ ApartBut(rows[q], shared)
      /\ \A q \in 1..formCount : draftRow.file \in FilesIn(rows[q]) => draftRow.file \in shared
      /\ \A q \in 1..formCount, r \in 1..formCount :
            q # r => FilesIn(rows[q]) \cap FilesIn(rows[r]) \subseteq shared
      /\ \A q \in forms : q \in 1..formCount /\ FilesIn(rows[q]) \ files \subseteq shared
      /\ \A f \in files \ orphans : f = draftRow.file \/ \E q \in 1..formCount : f \in FilesIn(rows[q])
  <2>1. \A q : FilesOf(q) = FilesIn(rows[q])
    BY DEF FilesOf, FilesIn
  <2>2. \A f \in files \ orphans : f = draftRow.file \/ \E q \in 1..formCount : f \in FilesOf(q)
    BY DEF RowsInv, RowsSound, FilesNamed
  <2>3. \A q \in forms : q \in 1..formCount /\ FilesOf(q) \ files \subseteq shared
    BY DEF RowsInv, RowsTypes, RowsSound, FilesFound
  <2>4. QED
    BY <2>1, <2>2, <2>3 DEF RowsInv, IdsGiven, NamedOnce
<1>7. /\ shared' = shared \cup FilesIn(rows[active])
      /\ \A q : FilesOf(q)' = FilesIn(rows'[q])
  BY <1>2 DEF FilesOf, FilesIn
<1>8. IdsGiven'
  <2>1. \A q \in 1..formCount' : FilesIn(rows'[q]) \subseteq 1..fileIds
    BY <1>1, <1>4, <1>5, <1>6
  <2>2. QED
    BY <1>2, <1>7, <2>1 DEF RowsInv, IdsGiven
<1>9. NamedOnce'
  <2>1. \A q \in 1..formCount' : ApartBut(rows'[q], shared')
    BY <1>1, <1>4, <1>5, <1>6, <1>7 DEF ApartBut
  <2>2. \A q \in 1..formCount' : draftRow.file \in FilesIn(rows'[q]) => draftRow.file \in shared'
    BY <1>1, <1>4, <1>5, <1>6, <1>7
  <2>3. \A q \in 1..formCount', r \in 1..formCount' :
           q # r => FilesIn(rows'[q]) \cap FilesIn(rows'[r]) \subseteq shared'
    BY <1>1, <1>4, <1>5, <1>6, <1>7
  <2>4. QED
    BY <1>2, <1>7, <2>1, <2>2, <2>3 DEF NamedOnce
<1>10. FilesFound'
  <2>1. \A q \in forms' : FilesIn(rows'[q]) \ files \subseteq shared'
    BY <1>1, <1>2, <1>4, <1>6, <1>7
  <2>2. ({draftRow.file} \ {0}) \ files \subseteq shared'
    BY <1>7 DEF RowsInv, RowsSound, FilesFound
  <2>3. QED
    BY <1>2, <1>7, <2>1, <2>2 DEF FilesFound
<1>11. FilesNamed'
  <2>1. \A f \in files \ orphans :
           f = draftRow.file \/ \E q \in 1..formCount' : f \in FilesIn(rows'[q])
    BY <1>1, <1>2, <1>4, <1>6
  <2>2. QED
    BY <1>2, <1>7, <2>1 DEF FilesNamed
<1>12. QED
  BY <1>3, <1>8, <1>9, <1>10, <1>11 DEF RowsInv, RowsSound

\* Rows from a document or from the store name no file.
LEMMA TextRowsNameNone ==
    ASSUME NEW n \in Nat
    PROVE  TextRows(n) \in Seq(Rows) /\ FilesIn(TextRows(n)) = {} /\ ApartBut(TextRows(n), shared)
<1>1. TextRows(n) \in [1..n -> Rows]
  BY DEF TextRows, Rows
<1>2. TextRows(n) \in Seq(Rows)
  BY <1>1, SeqDef
<1>3. \A i \in DOMAIN TextRows(n) : TextRows(n)[i].file = 0
  BY DEF TextRows
<1>4. QED
  BY <1>2, <1>3 DEF FilesIn, ApartBut

\* Requests come from a document or from the store: the files of the rows that go stay
\* in the table and are on record.
LEMMA TakenOverKeeps ==
    ASSUME RowsInv, NEW S \in SUBSET Forms, NEW n \in 0..MaxRows, TakenOver(S, n),
           forms' = forms \cup S \/ forms' = S
    PROVE  RowsInv'
<1>1. /\ formCount \in Nat /\ formCount \in Forms /\ 1..formCount \subseteq Forms /\ n \in Nat
      /\ 1..formCount \subseteq 1..formCount' /\ 1 \in 1..formCount
      /\ S \subseteq 1..formCount' /\ 1..formCount' \subseteq (1..formCount) \cup S
      /\ formCount' \in Forms
  <2>1. /\ formCount \in 1..MaxForms /\ MaxForms \in Nat /\ n \in Nat
        /\ S \subseteq 1..MaxForms /\ S \subseteq (1..formCount) \cup {1, formCount + 1}
    BY RowsAssumption DEF RowsInv, RowsTypes, Forms, TakenOver
  <2>2. 1..formCount \subseteq 1..MaxForms /\ 1 \in 1..formCount
    BY <2>1
  <2>3. CASE formCount + 1 \in S
    <3>1. /\ formCount + 1 \in 1..MaxForms /\ 1..(formCount + 1) = (1..formCount) \cup {formCount + 1}
      BY <2>1, <2>3
    <3>2. formCount' = formCount + 1
      BY <2>3 DEF TakenOver
    <3>3. QED
      BY <2>1, <2>2, <2>3, <3>1, <3>2 DEF Forms
  <2>4. CASE formCount + 1 \notin S
    <3>1. formCount' = formCount
      BY <2>4 DEF TakenOver
    <3>2. QED
      BY <2>1, <2>2, <2>4, <3>1 DEF Forms
  <2>5. QED
    BY <2>3, <2>4
<1>2. /\ rows' = [q \in Forms |-> IF q \in S THEN TextRows(n) ELSE rows[q]]
      /\ orphans' = orphans \cup UNION {FilesOf(q) : q \in S}
      /\ active' \in S /\ UNCHANGED <<draftRow, files, fileIds, shared>>
  BY DEF TakenOver
<1>3. /\ TextRows(n) \in Seq(Rows) /\ FilesIn(TextRows(n)) = {} /\ ApartBut(TextRows(n), shared)
  BY <1>1, TextRowsNameNone
<1>4. RowsTypes'
  <2>1. forms \subseteq 1..formCount /\ forms' \subseteq 1..formCount' /\ active' \in forms'
    BY <1>1, <1>2 DEF RowsInv, RowsTypes
  <2>2. rows' \in [Forms -> Seq(Rows)]
    BY <1>2, <1>3 DEF RowsInv, RowsTypes
  <2>3. QED
    BY <1>1, <1>2, <2>1, <2>2 DEF RowsInv, RowsTypes
<1>5. \A q : FilesOf(q) = FilesIn(rows[q]) /\ FilesOf(q)' = FilesIn(rows'[q])
  BY DEF FilesOf, FilesIn
<1>6. \A q \in 1..formCount' :
         \/ FilesOf(q)' = {} /\ ApartBut(rows'[q], shared)
         \/ q \in 1..formCount /\ q \notin S /\ rows'[q] = rows[q] /\ FilesOf(q)' = FilesOf(q)
  <2>1. \A q \in 1..formCount' : q \in Forms /\ (q \in S \/ q \in 1..formCount)
    BY <1>1
  <2>2. \A q \in Forms : rows'[q] = IF q \in S THEN TextRows(n) ELSE rows[q]
    BY <1>2
  <2>3. QED
    BY <1>3, <1>5, <2>1, <2>2
<1>7. IdsGiven'
  BY <1>2, <1>6 DEF RowsInv, IdsGiven
<1>8. NamedOnce'
  <2>1. ASSUME NEW q \in 1..formCount'
        PROVE  /\ ApartBut(rows'[q], shared)
               /\ draftRow.file \in FilesOf(q)' => draftRow.file \in shared
    BY <1>6 DEF RowsInv, NamedOnce
  <2>2. ASSUME NEW q \in 1..formCount', NEW r \in (1..formCount') \ {q}
        PROVE  FilesOf(q)' \cap FilesOf(r)' \subseteq shared
    <3>1. CASE FilesOf(q)' = {} \/ FilesOf(r)' = {}
      BY <3>1
    <3>2. CASE /\ q \in 1..formCount /\ r \in 1..formCount
               /\ FilesOf(q)' = FilesOf(q) /\ FilesOf(r)' = FilesOf(r)
      BY <2>2, <3>2 DEF RowsInv, NamedOnce
    <3>3. QED
      BY <1>6, <2>2, <3>1, <3>2
  <2>3. QED
    BY <1>2, <2>1, <2>2 DEF NamedOnce
<1>9. FilesFound'
  <2>1. ASSUME NEW q \in forms' PROVE FilesOf(q)' \ files \subseteq shared
    <3>1. q \in 1..formCount' /\ (q \in forms \/ q \in S)
      BY <1>4 DEF RowsTypes
    <3>2. FilesOf(q)' = {} \/ (q \in forms /\ FilesOf(q)' = FilesOf(q))
      BY <1>6, <3>1
    <3>3. QED
      BY <3>2 DEF RowsInv, RowsSound, FilesFound
  <2>2. ({draftRow.file} \ {0}) \ files \subseteq shared
    BY DEF RowsInv, RowsSound, FilesFound
  <2>3. QED
    BY <1>2, <2>1, <2>2 DEF FilesFound
<1>10. FilesNamed'
  <2>1. ASSUME NEW f \in files, f # draftRow.file, f \notin orphans, NEW q \in 1..formCount, f \in FilesOf(q)
        PROVE  f \in orphans' \/ (q \in 1..formCount' /\ f \in FilesOf(q)')
    <3>1. CASE q \in S
      BY <1>2, <2>1, <3>1
    <3>2. CASE q \notin S
      <4>1. q \in Forms /\ q \in 1..formCount' /\ rows'[q] = rows[q]
        BY <1>1, <1>2, <3>2
      <4>2. QED
        BY <1>5, <2>1, <4>1
    <3>3. QED
      BY <3>1, <3>2
  <2>2. \A f \in files : f = draftRow.file \/ f \in orphans \/ \E q \in 1..formCount : f \in FilesOf(q)
    BY DEF RowsInv, RowsSound, FilesNamed
  <2>3. \A f \in files' : f = draftRow'.file \/ f \in orphans' \/ \E q \in 1..formCount' : f \in FilesOf(q)'
    BY <1>2, <2>1, <2>2
  <2>4. QED
    BY <2>3 DEF FilesNamed
<1>11. QED
  BY <1>4, <1>7, <1>8, <1>9, <1>10 DEF RowsInv, RowsSound

\* At the start there is one request, without files.
LEMMA RowsStart == RowsInit => RowsInv
<1> SUFFICES ASSUME RowsInit PROVE RowsInv
  OBVIOUS
<1>1. formCount = 1 /\ 1..1 = {1} /\ 1 \in Forms /\ 0 \in 0..0
  BY RowsAssumption DEF RowsInit, Forms
<1>2. /\ rows[1] = <<>> /\ FilesOf(1) = {} /\ draftRow.file = 0 /\ files = {} /\ forms = {1}
      /\ fileIds = 0
  BY <1>1 DEF RowsInit, FilesOf, Blank
<1>3. RowsTypes
  <2>1. Blank \in Rows /\ <<>> \in Seq(Rows)
    BY DEF Blank, Rows
  <2>2. QED
    BY <1>1, <2>1 DEF RowsInit, RowsTypes
<1>4. NamedOnce
  BY <1>1, <1>2 DEF NamedOnce, ApartBut
<1>5. IdsGiven /\ FilesFound /\ FilesNamed
  BY <1>1, <1>2 DEF IdsGiven, FilesFound, FilesNamed
<1>6. QED
  BY <1>3, <1>4, <1>5 DEF RowsInv, RowsSound

\* Every step on rows, files and requests keeps the invariant.
LEMMA RowsStep == RowsInv /\ [RowsNext]_rowVars => RowsInv'
<1> SUFFICES ASSUME RowsInv, [RowsNext]_rowVars PROVE RowsInv'
  OBVIOUS
<1>1. ASSUME UNCHANGED <<rows, draftRow, files, fileIds, formCount, shared, orphans>>,
             forms' \subseteq forms, active' \in forms'
      PROVE  RowsInv'
  <2>1. RowsTypes'
    BY <1>1 DEF RowsInv, RowsTypes
  <2>2. \A q : FilesOf(q)' = FilesOf(q)
    BY <1>1 DEF FilesOf
  <2>3. IdsGiven' /\ NamedOnce' /\ FilesNamed'
    BY <1>1, <2>2 DEF RowsInv, IdsGiven, NamedOnce, ApartBut, RowsSound, FilesNamed
  <2>4. FilesFound'
    BY <1>1, <2>2 DEF RowsInv, RowsSound, FilesFound
  <2>5. QED
    BY <2>1, <2>3, <2>4 DEF RowsInv, RowsSound
<1>2. ASSUME NEW q \in Forms, selectForm(q) \/ deleteForm(q) PROVE RowsInv'
  BY <1>2, <1>1 DEF selectForm, deleteForm, RowsInv, RowsTypes
<1>3. CASE UNCHANGED rowVars
  BY <1>3, <1>1 DEF rowVars, RowsInv, RowsTypes
<1>4. ASSUME NEW S \in SUBSET Forms, NEW n \in 0..MaxRows, importForms(S, n) \/ loadForms(S, n)
      PROVE  RowsInv'
  <2>1. CASE S = {} /\ loadForms(S, n)
    BY <1>1, <2>1 DEF loadForms, RowsInv, RowsTypes
  <2>2. CASE TakenOver(S, n) /\ (forms' = forms \cup S \/ forms' = S)
    BY <2>2, TakenOverKeeps
  <2>3. QED
    BY <1>4, <2>1, <2>2 DEF importForms, loadForms
<1>5. QED
  BY <1>2, <1>3, <1>4, UpdatesKeep, FormKeeps, CommitKeeps, DuplicateKeeps DEF RowsNext

\* However rows are written, moved, copied with their request, removed, imported over
\* and loaded, a row that names a file has it, unless a copy named it too, and a file that
\* is kept is named by a row, or was by one that an import or the load replaced.
THEOREM RowsAreSound == RowsSpec => []RowsSound
<1>1. RowsInv => RowsSound
  BY DEF RowsInv
<1>2. QED
  BY <1>1, RowsStart, RowsStep, PTL DEF RowsSpec

-----------------------------------------------------------------------------
(* Keeping the workspaces on the disk (HttpSaving).                        *)

Works == [version : Nat, of : [Editable -> Nat], bad : SUBSET Editable]
SaveCalls == [get : BOOLEAN, by : Nat, of : Works]
SaveAnswers == [get : BOOLEAN, by : Nat, ok : BOOLEAN, of : Works]

SavingTypes ==
    /\ isOpen \in BOOLEAN /\ canSave \in BOOLEAN /\ saveFailed \in BOOLEAN
    /\ drafts \in Works /\ disk \in Works /\ timer \in Works
    /\ marks \subseteq Editable /\ unmarked \subseteq Editable
    /\ queue \in Seq(SaveCalls) /\ replies \in Seq(SaveAnswers)
    /\ versions \in Nat /\ openings \in Nat

\* No version of a request is yet to come, and no call of an opening.
NothingIsAhead ==
    /\ \A r \in Editable : drafts.of[r] <= versions /\ disk.of[r] <= versions
    /\ \A i \in DOMAIN queue : /\ queue[i].by <= openings
                               /\ \A r \in Editable : queue[i].of.of[r] <= versions
    /\ \A i \in DOMAIN replies : /\ replies[i].by <= openings
                                 /\ \A r \in Editable : replies[i].of.of[r] <= versions

TimerIsCurrent == timer # NoTimer => isOpen /\ canSave /\ timer = drafts

OwnGet(x) == x.get /\ x.by = openings
OwnSave(x) == ~x.get /\ x.by = openings

\* A panel reads the disk once.
ReadsOnce ==
    /\ \A i, j \in DOMAIN queue : OwnGet(queue[i]) /\ OwnGet(queue[j]) => i = j
    /\ \A i, j \in DOMAIN replies : OwnGet(replies[i]) /\ OwnGet(replies[j]) => i = j
    /\ \A i \in DOMAIN queue, j \in DOMAIN replies : ~(OwnGet(queue[i]) /\ OwnGet(replies[j]))

\* Nothing is saved by itself before it has, and it reads nothing after.
ReadBefore ==
    isOpen /\ canSave => /\ \A i \in DOMAIN queue : ~OwnGet(queue[i])
                         /\ \A i \in DOMAIN replies : ~OwnGet(replies[i])

\* Before it has, and if the button was not pressed: its reading is the last call of all,
\* and has been answered with what is on the disk.
ReadIsLast ==
    \/ queue # <<>> /\ OwnGet(queue[Len(queue)])
    \/ /\ queue = <<>> /\ replies # <<>> /\ OwnGet(replies[Len(replies)])
       /\ replies[Len(replies)].ok => replies[Len(replies)].of = disk

BeforeRead ==
    /\ \A r \in Editable : drafts.of[r] # 0 => r \in unmarked
    /\ unmarked # Editable =>
         /\ ReadIsLast
         /\ \A i \in DOMAIN queue : ~OwnSave(queue[i])
         /\ \A i \in DOMAIN replies : ~OwnSave(replies[i])

\* The disk has the request as it is shown, and no save under way changes that.
StaysSaved(r) ==
    /\ disk.of[r] = drafts.of[r]
    /\ \A i \in DOMAIN queue : ~queue[i].get => queue[i].of.of[r] = drafts.of[r]

\* Of a request that is shown: without a mark it stays saved; so it does when a save of it as
\* it is shown was answered, and no save that follows such a one has another version of it.
Tracked(r) ==
    /\ r \notin marks => StaysSaved(r)
    /\ \A i \in DOMAIN replies :
         OwnSave(replies[i]) /\ replies[i].ok /\ replies[i].of.of[r] = drafts.of[r] => StaysSaved(r)
    /\ \A i, j \in DOMAIN queue :
         /\ i < j /\ OwnSave(queue[i]) /\ ~queue[j].get
         /\ queue[i].of.of[r] = drafts.of[r]
         => queue[j].of.of[r] = drafts.of[r]

SavingInv ==
    /\ SavingTypes /\ NothingIsAhead /\ TimerIsCurrent /\ ReadsOnce /\ ReadBefore
    /\ isOpen /\ ~canSave => BeforeRead
    /\ isOpen /\ canSave => \A r \in Editable \ unmarked : drafts.of[r] # 0 => Tracked(r)

ValidInv ==
    /\ timer.bad = {} /\ disk.bad = {}
    /\ \A i \in DOMAIN queue : queue[i].of.bad = {}

\* Where the calls and the answers are, after one was added or taken away.
LEMMA Appended ==
    ASSUME NEW S, NEW s \in Seq(S), NEW x \in S, NEW t, t = Append(s, x)
    PROVE  /\ t \in Seq(S) /\ Len(t) = Len(s) + 1 /\ Len(s) \in Nat /\ t # <<>>
           /\ DOMAIN s = 1..Len(s) /\ DOMAIN t = 1..(Len(s) + 1) /\ t[Len(s) + 1] = x
           /\ \A i \in DOMAIN s : t[i] = s[i]
           /\ \A i \in DOMAIN t : i \in DOMAIN s \/ i = Len(s) + 1
           /\ \A i \in DOMAIN t : t[i] \in S
  OBVIOUS

\* The same for the rest of a sequence.
LEMMA Shortened ==
    ASSUME NEW S, NEW s \in Seq(S), s # <<>>, NEW t, t = Tail(s)
    PROVE  /\ t \in Seq(S) /\ Len(t) = Len(s) - 1 /\ Len(s) \in Nat \ {0}
           /\ DOMAIN s = 1..Len(s) /\ DOMAIN t = 1..(Len(s) - 1)
           /\ Head(s) = s[1] /\ s[1] \in S
           /\ \A i \in DOMAIN t : i + 1 \in DOMAIN s /\ t[i] = s[i + 1]
  OBVIOUS

\* A call or answer under way carries workspaces.
LEMMA CallsAreTyped ==
    ASSUME SavingTypes
    PROVE  /\ \A i \in DOMAIN queue : /\ queue[i] \in SaveCalls
                                      /\ \A r \in Editable : queue[i].of.of[r] \in Nat
           /\ \A i \in DOMAIN replies : /\ replies[i] \in SaveAnswers
                                        /\ \A r \in Editable : replies[i].of.of[r] \in Nat
<1>1. \A i \in DOMAIN queue : queue[i] \in SaveCalls
  BY DEF SavingTypes
<1>2. \A i \in DOMAIN replies : replies[i] \in SaveAnswers
  BY DEF SavingTypes
<1>3. QED
  BY <1>1, <1>2 DEF SaveCalls, SaveAnswers, Works

\* An edit gives the requests it changes a version no one has seen, and marks them.
LEMMA EditsKeep ==
    ASSUME SavingInv, isOpen, drafts' \in Works, versions' = versions + 1,
           Restart(drafts', canSave), marks' \subseteq Editable, unmarked' \subseteq Editable,
           \A q \in Editable :
             \/ drafts'.of[q] = 0
             \/ drafts'.of[q] = drafts.of[q] /\ (q \in marks => q \in marks')
                  /\ (q \in unmarked => q \in unmarked')
             \/ drafts'.of[q] = versions' /\ (q \in unmarked' \/ (canSave /\ q \in marks')),
           ~canSave => unmarked \subseteq unmarked',
           UNCHANGED <<isOpen, canSave, queue, replies, disk, openings, saveFailed>>
    PROVE  SavingInv'
<1>1. SavingTypes'
  BY DEF SavingInv, SavingTypes, Restart, NoTimer, Works
<1>2. \A q \in Editable : drafts'.of[q] \in Nat /\ drafts.of[q] \in Nat /\ disk.of[q] \in Nat
  BY DEF SavingInv, SavingTypes, Works
<1>3. /\ \A i \in DOMAIN queue, q \in Editable : queue[i].of.of[q] \in 0..versions
      /\ \A i \in DOMAIN replies, q \in Editable : replies[i].of.of[q] \in 0..versions
      /\ versions \in Nat
  BY CallsAreTyped DEF SavingInv, NothingIsAhead, SavingTypes
<1>4. NothingIsAhead'
  BY <1>2, <1>3 DEF SavingInv, NothingIsAhead
<1>5. TimerIsCurrent' /\ ReadsOnce' /\ ReadBefore'
  BY DEF SavingInv, TimerIsCurrent, Restart, ReadsOnce, ReadBefore, OwnGet
<1>6. isOpen' /\ ~canSave' => BeforeRead'
  <2> SUFFICES ASSUME ~canSave PROVE BeforeRead'
    OBVIOUS
  <2>1. BeforeRead /\ unmarked \subseteq unmarked'
    BY DEF SavingInv
  <2>2. \A q \in Editable : drafts'.of[q] # 0 => q \in unmarked'
    BY <2>1 DEF BeforeRead
  <2>3. unmarked' # Editable => unmarked # Editable
    BY <2>1
  <2>4. ReadIsLast => ReadIsLast'
    BY DEF ReadIsLast, OwnGet
  <2>5. QED
    BY <2>1, <2>2, <2>3, <2>4 DEF BeforeRead, OwnSave
<1>7. isOpen' /\ canSave' => \A r \in Editable \ unmarked' : drafts'.of[r] # 0 => Tracked(r)'
  <2> SUFFICES ASSUME canSave, NEW r \in Editable \ unmarked', drafts'.of[r] # 0
               PROVE  Tracked(r)'
    OBVIOUS
  <2>1. CASE drafts'.of[r] = versions' /\ r \in marks'
    BY <1>3, <2>1 DEF Tracked
  <2>2. CASE drafts'.of[r] = drafts.of[r] /\ (r \in marks => r \in marks')
                  /\ (r \in unmarked => r \in unmarked')
    <3>1. Tracked(r)
      BY <2>2 DEF SavingInv
    <3>2. QED
      BY <2>2, <3>1 DEF Tracked, StaysSaved, OwnSave
  <2>3. QED
    BY <2>1, <2>2
<1>8. QED
  BY <1>1, <1>4, <1>5, <1>6, <1>7 DEF SavingInv

\* A save of what is shown, after which no other version of a request can come to the disk.
LEMMA SavesKeep ==
    ASSUME SavingInv, isOpen, queue' = Append(queue, SaveOf(drafts)), timer' = NoTimer,
           unmarked' = IF canSave THEN unmarked ELSE Editable,
           UNCHANGED <<isOpen, canSave, drafts, marks, replies, disk, versions, openings, saveFailed>>
    PROVE  SavingInv'
<1> DEFINE x == SaveOf(drafts)
<1>1. x \in SaveCalls /\ queue \in Seq(SaveCalls) /\ ~x.get /\ x.by = openings /\ x.of = drafts
  BY DEF SavingInv, SavingTypes, SaveOf, SaveCalls
<1>2. /\ queue' \in Seq(SaveCalls) /\ Len(queue) \in Nat /\ queue' # <<>>
      /\ DOMAIN queue = 1..Len(queue) /\ DOMAIN queue' = 1..(Len(queue) + 1)
      /\ queue'[Len(queue) + 1] = x
      /\ \A i \in DOMAIN queue : queue'[i] = queue[i]
      /\ \A i \in DOMAIN queue' : i \in DOMAIN queue \/ i = Len(queue) + 1
  BY <1>1, Appended
<1> HIDE DEF x
<1>3. SavingTypes'
  BY <1>2 DEF SavingInv, SavingTypes, NoTimer, Works
<1>4. NothingIsAhead'
  BY <1>1, <1>2 DEF SavingInv, NothingIsAhead, SavingTypes
<1>5. TimerIsCurrent' /\ ReadsOnce' /\ ReadBefore'
  BY <1>1, <1>2 DEF SavingInv, TimerIsCurrent, ReadsOnce, ReadBefore, OwnGet
<1>6. isOpen' /\ ~canSave' => BeforeRead'
  BY DEF SavingInv, SavingTypes, BeforeRead
<1>7. ASSUME canSave, NEW r \in Editable \ unmarked, drafts.of[r] # 0
      PROVE  Tracked(r)'
  <2>1. Tracked(r)
    BY <1>7 DEF SavingInv
  <2>2. StaysSaved(r) => StaysSaved(r)'
    BY <1>1, <1>2 DEF StaysSaved
  <2>3. ASSUME NEW i \in DOMAIN queue', NEW j \in DOMAIN queue', i < j, OwnSave(queue'[i]),
               ~queue'[j].get, queue'[i].of.of[r] = drafts.of[r]
        PROVE  queue'[j].of.of[r] = drafts.of[r]
    <3>1. CASE j = Len(queue) + 1
      BY <1>1, <1>2, <3>1
    <3>2. CASE j \in DOMAIN queue
      BY <1>2, <2>1, <2>3, <3>2 DEF Tracked, OwnSave
    <3>3. QED
      BY <1>2, <3>1, <3>2
  <2>4. QED
    BY <2>1, <2>2, <2>3 DEF Tracked, OwnSave
<1>8. QED
  BY <1>3, <1>4, <1>5, <1>6, <1>7 DEF SavingInv

\* The backend takes the first call and answers last.
LEMMA ServesKeep ==
    ASSUME SavingInv, NEW ok \in BOOLEAN, Serve(ok)
    PROVE  SavingInv'
<1> DEFINE call == queue[1]
<1> DEFINE answer == [get |-> call.get, by |-> call.by, ok |-> ok,
                      of |-> IF call.get THEN disk ELSE call.of]
<1>1. /\ queue' \in Seq(SaveCalls) /\ Len(queue') = Len(queue) - 1 /\ Len(queue) \in Nat \ {0}
      /\ DOMAIN queue = 1..Len(queue) /\ DOMAIN queue' = 1..(Len(queue) - 1)
      /\ Head(queue) = call /\ call \in SaveCalls
      /\ \A i \in DOMAIN queue' : i + 1 \in DOMAIN queue /\ queue'[i] = queue[i + 1]
  BY Shortened DEF Serve, SavingInv, SavingTypes
<1>2. /\ disk' = (IF ok /\ ~call.get THEN call.of ELSE disk)
      /\ saveFailed' = (IF call.get THEN saveFailed ELSE ~ok)
      /\ replies' = Append(replies, answer)
      /\ UNCHANGED <<isOpen, canSave, drafts, marks, timer, versions, openings, unmarked>>
  BY <1>1 DEF Serve
<1>3. call.get \in BOOLEAN /\ call.by \in Nat /\ call.of \in Works /\ disk \in Works
  BY <1>1 DEF SaveCalls, SavingInv, SavingTypes
<1>4. answer \in SaveAnswers /\ disk' \in Works
  BY <1>2, <1>3 DEF SaveAnswers
<1>5. /\ replies' \in Seq(SaveAnswers) /\ Len(replies') = Len(replies) + 1 /\ Len(replies) \in Nat
      /\ DOMAIN replies = 1..Len(replies) /\ DOMAIN replies' = 1..(Len(replies) + 1)
      /\ replies'[Len(replies) + 1] = answer /\ replies' # <<>>
      /\ \A i \in DOMAIN replies : replies'[i] = replies[i]
      /\ \A i \in DOMAIN replies' : i \in DOMAIN replies \/ i = Len(replies) + 1
  BY <1>2, <1>4, Appended DEF SavingInv, SavingTypes
<1>6. /\ answer.get = call.get /\ answer.by = call.by /\ answer.ok = ok
      /\ answer.of = IF call.get THEN disk ELSE call.of
  OBVIOUS
<1>7. 1 \in DOMAIN queue
  BY <1>1
<1> HIDE DEF call, answer
<1> USE DEF call
<1>8. SavingTypes'
  BY <1>1, <1>2, <1>3, <1>4, <1>5 DEF SavingInv, SavingTypes
<1>9. NothingIsAhead'
  BY <1>1, <1>2, <1>5, <1>6, <1>7 DEF SavingInv, NothingIsAhead
<1>10. TimerIsCurrent' /\ ReadsOnce' /\ ReadBefore'
  <2>1. TimerIsCurrent'
    BY <1>2 DEF SavingInv, TimerIsCurrent
  <2>2. OwnGet(answer) <=> OwnGet(call)
    BY <1>6 DEF OwnGet
  <2>3. ReadsOnce /\ openings' = openings
    BY <1>2 DEF SavingInv
  <2>4. \A i, j \in DOMAIN queue' : OwnGet(queue'[i]) /\ OwnGet(queue'[j]) => i = j
    BY <1>1, <2>3 DEF ReadsOnce, OwnGet
  <2>5. \A i, j \in DOMAIN replies' : OwnGet(replies'[i]) /\ OwnGet(replies'[j]) => i = j
    BY <1>5, <1>7, <2>2, <2>3 DEF ReadsOnce, OwnGet
  <2>6. \A i \in DOMAIN queue', j \in DOMAIN replies' : ~(OwnGet(queue'[i]) /\ OwnGet(replies'[j]))
    <3> SUFFICES ASSUME NEW i \in DOMAIN queue', NEW j \in DOMAIN replies',
                        OwnGet(queue'[i]), OwnGet(replies'[j])
                 PROVE  FALSE
      OBVIOUS
    <3>1. i + 1 \in DOMAIN queue /\ OwnGet(queue[i + 1]) /\ i + 1 # 1
      BY <1>1
    <3>2. CASE j \in DOMAIN replies
      BY <1>5, <2>3, <3>1, <3>2 DEF ReadsOnce
    <3>3. CASE j = Len(replies) + 1
      BY <1>5, <1>7, <2>2, <2>3, <3>1, <3>3 DEF ReadsOnce
    <3>4. QED
      BY <1>5, <3>2, <3>3
  <2>7. ReadBefore'
    <3>1. ReadBefore
      BY DEF SavingInv
    <3>2. isOpen /\ canSave => /\ \A i \in DOMAIN queue' : ~OwnGet(queue'[i])
                               /\ \A i \in DOMAIN replies' : ~OwnGet(replies'[i])
      BY <1>1, <1>5, <1>7, <2>2, <3>1 DEF ReadBefore
    <3>3. QED
      BY <1>2, <3>2 DEF ReadBefore, OwnGet
  <2>8. QED
    BY <2>1, <2>3, <2>4, <2>5, <2>6, <2>7 DEF ReadsOnce, OwnGet
<1>11. ASSUME isOpen, ~canSave
       PROVE  BeforeRead'
  <2>1. BeforeRead
    BY <1>11 DEF SavingInv
  <2>2. ASSUME unmarked # Editable
        PROVE  /\ \A i \in DOMAIN queue' : ~OwnSave(queue'[i])
               /\ \A i \in DOMAIN replies' : ~OwnSave(replies'[i])
    BY <1>1, <1>5, <1>6, <1>7, <2>1, <2>2 DEF BeforeRead, OwnSave
  <2>3. ASSUME unmarked # Editable
        PROVE  ReadIsLast'
    <3>1. OwnGet(queue[Len(queue)])
      BY <1>1, <2>1, <2>3 DEF BeforeRead, ReadIsLast
    <3>2. CASE Len(queue) = 1
      <4>1. queue' = <<>> /\ OwnGet(answer) /\ answer.of = disk /\ disk' = disk
        BY <1>1, <1>2, <1>6, <3>1, <3>2 DEF OwnGet
      <4>2. Len(replies') = Len(replies) + 1 /\ openings' = openings
        BY <1>2, <1>5
      <4>3. QED
        BY <1>5, <4>1, <4>2 DEF ReadIsLast, OwnGet
    <3>3. CASE Len(queue) # 1
      <4>1. Len(queue') \in DOMAIN queue' /\ Len(queue') + 1 = Len(queue) /\ queue' # <<>>
        BY <1>1, <3>3
      <4>2. queue'[Len(queue')] = queue[Len(queue)]
        BY <1>1, <4>1
      <4>3. QED
        BY <1>2, <3>1, <4>1, <4>2 DEF ReadIsLast, OwnGet
    <3>4. QED
      BY <3>2, <3>3
  <2>4. QED
    BY <1>2, <2>1, <2>2, <2>3 DEF BeforeRead, OwnSave
<1>12. ASSUME isOpen, canSave, NEW r \in Editable \ unmarked, drafts.of[r] # 0
       PROVE  Tracked(r)'
  <2>1. Tracked(r)
    BY <1>12 DEF SavingInv
  <2>2. StaysSaved(r) => StaysSaved(r)'
    BY <1>1, <1>2, <1>7 DEF StaysSaved
  <2>3. ASSUME OwnSave(answer), ok, answer.of.of[r] = drafts.of[r]
        PROVE  StaysSaved(r)'
    <3>1. OwnSave(call) /\ call.of.of[r] = drafts.of[r] /\ disk'.of[r] = drafts.of[r]
      BY <1>2, <1>6, <2>3 DEF OwnSave
    <3>2. ASSUME NEW i \in DOMAIN queue', ~queue'[i].get
          PROVE  queue'[i].of.of[r] = drafts.of[r]
      <4>1. i + 1 \in DOMAIN queue /\ 1 < i + 1 /\ queue'[i] = queue[i + 1]
        BY <1>1, <3>2
      <4>2. QED
        BY <1>7, <2>1, <3>1, <3>2, <4>1 DEF Tracked
    <3>3. QED
      BY <1>2, <3>1, <3>2 DEF StaysSaved
  <2>4. ASSUME NEW i \in DOMAIN replies', OwnSave(replies'[i]), replies'[i].ok,
               replies'[i].of.of[r] = drafts.of[r]
        PROVE  StaysSaved(r)'
    BY <1>5, <1>6, <2>1, <2>2, <2>3, <2>4 DEF Tracked
  <2>5. ASSUME NEW i \in DOMAIN queue', NEW j \in DOMAIN queue', i < j, OwnSave(queue'[i]),
               ~queue'[j].get, queue'[i].of.of[r] = drafts.of[r]
        PROVE  queue'[j].of.of[r] = drafts.of[r]
    <3>1. i + 1 \in DOMAIN queue /\ j + 1 \in DOMAIN queue /\ i + 1 < j + 1
      BY <1>1, <2>5
    <3>2. QED
      BY <1>1, <2>1, <2>5, <3>1 DEF Tracked
  <2>6. QED
    BY <1>2, <2>1, <2>2, <2>4, <2>5 DEF Tracked, OwnSave
<1>13. QED
  BY <1>2, <1>8, <1>9, <1>10, <1>11, <1>12 DEF SavingInv

\* The first answer is taken.
LEMMA AnswersTaken ==
    ASSUME SavingInv, replies # <<>>, replies' = Tail(replies)
    PROVE  /\ replies' \in Seq(SaveAnswers) /\ Len(replies') = Len(replies) - 1
           /\ Len(replies) \in Nat \ {0}
           /\ DOMAIN replies = 1..Len(replies) /\ DOMAIN replies' = 1..(Len(replies) - 1)
           /\ Head(replies) = replies[1] /\ replies[1] \in SaveAnswers /\ 1 \in DOMAIN replies
           /\ \A i \in DOMAIN replies' : i + 1 \in DOMAIN replies /\ replies'[i] = replies[i + 1]
<1>1. replies \in Seq(SaveAnswers)
  BY DEF SavingInv, SavingTypes
<1>2. /\ replies' \in Seq(SaveAnswers) /\ Len(replies') = Len(replies) - 1
      /\ Len(replies) \in Nat \ {0}
      /\ DOMAIN replies = 1..Len(replies) /\ DOMAIN replies' = 1..(Len(replies) - 1)
      /\ Head(replies) = replies[1] /\ replies[1] \in SaveAnswers
      /\ \A i \in DOMAIN replies' : i + 1 \in DOMAIN replies /\ replies'[i] = replies[i + 1]
  BY <1>1, Shortened
<1>3. QED
  BY <1>2

\* Without an answer the rest stays sound, and the reading that has not come is still the last.
LEMMA FewerAnswers ==
    ASSUME SavingInv, replies # <<>>, replies' = Tail(replies),
           UNCHANGED <<queue, disk, versions, openings>>
    PROVE  /\ \A i \in DOMAIN replies' : /\ replies'[i].by <= openings
                                         /\ \A r \in Editable : replies'[i].of.of[r] <= versions
           /\ ReadsOnce'
           /\ UNCHANGED <<isOpen, canSave>> => ReadBefore'
           /\ ReadIsLast /\ ~OwnGet(replies[1]) => ReadIsLast'
<1>1. \A i \in DOMAIN replies' : /\ replies'[i].by <= openings
                                 /\ \A r \in Editable : replies'[i].of.of[r] <= versions
  BY AnswersTaken DEF SavingInv, NothingIsAhead
<1>2. ReadsOnce' /\ (UNCHANGED <<isOpen, canSave>> => ReadBefore')
  BY AnswersTaken DEF SavingInv, ReadsOnce, ReadBefore, OwnGet
<1>3. ASSUME ReadIsLast, ~OwnGet(replies[1])
      PROVE  ReadIsLast'
  <2>1. CASE queue # <<>> /\ OwnGet(queue[Len(queue)])
    BY <2>1 DEF ReadIsLast, OwnGet
  <2>2. CASE /\ queue = <<>> /\ OwnGet(replies[Len(replies)])
             /\ replies[Len(replies)].ok => replies[Len(replies)].of = disk
    <3>1. Len(replies) # 1
      BY <1>3, <2>2
    <3>2. Len(replies') \in DOMAIN replies' /\ Len(replies') + 1 = Len(replies) /\ replies' # <<>>
      <4>1. /\ Len(replies') = Len(replies) - 1 /\ Len(replies) \in Nat \ {0}
            /\ DOMAIN replies' = 1..(Len(replies) - 1)
        BY AnswersTaken
      <4>2. Len(replies') \in 1..(Len(replies) - 1) /\ Len(replies') # 0
        BY <3>1, <4>1
      <4>3. QED
        BY <4>1, <4>2
    <3>3. replies'[Len(replies')] = replies[Len(replies)]
      BY <3>2, AnswersTaken
    <3>4. QED
      BY <2>2, <3>2, <3>3 DEF ReadIsLast, OwnGet
  <2>3. QED
    BY <1>3, <2>1, <2>2 DEF ReadIsLast
<1>4. QED
  BY <1>1, <1>2, <1>3

\* An answer to a save takes marks, and keeps those of what was changed since in mind.
LEMMA RepliesKeep ==
    ASSUME SavingInv, Reply
    PROVE  SavingInv'
<1> DEFINE a == replies[1]
<1>1. /\ replies # <<>> /\ replies' = Tail(replies) /\ Head(replies) = a /\ ~a.get
      /\ UNCHANGED <<isOpen, canSave, drafts, timer, queue, disk, versions, openings, saveFailed>>
  BY AnswersTaken DEF Reply
<1>2. marks' \subseteq marks /\ unmarked \subseteq unmarked' /\ unmarked' \subseteq Editable
  BY <1>1 DEF Reply, SavingInv, SavingTypes
<1>3. SavingTypes'
  BY <1>1, <1>2, AnswersTaken DEF SavingInv, SavingTypes
<1>4. NothingIsAhead' /\ TimerIsCurrent' /\ ReadsOnce' /\ ReadBefore'
  BY <1>1, FewerAnswers DEF SavingInv, NothingIsAhead, TimerIsCurrent
<1>5. ASSUME isOpen, ~canSave
      PROVE  BeforeRead'
  <2>1. BeforeRead
    BY <1>5 DEF SavingInv
  <2>2. \A q \in Editable : drafts'.of[q] # 0 => q \in unmarked'
    BY <1>1, <1>2, <2>1 DEF BeforeRead
  <2>3. ASSUME unmarked' # Editable
        PROVE  /\ ReadIsLast'
               /\ \A i \in DOMAIN queue : ~OwnSave(queue[i])
               /\ \A i \in DOMAIN replies' : ~OwnSave(replies'[i])
    <3>1. unmarked # Editable
      BY <1>2, <2>3
    <3>2. ReadIsLast'
      BY <1>1, <2>1, <3>1, FewerAnswers DEF BeforeRead, OwnGet
    <3>3. QED
      BY <1>1, <2>1, <3>1, <3>2, AnswersTaken DEF BeforeRead
  <2>4. QED
    BY <1>1, <2>2, <2>3 DEF BeforeRead, OwnSave
<1>6. ASSUME isOpen, canSave, NEW r \in Editable \ unmarked', drafts.of[r] # 0
      PROVE  Tracked(r)'
  <2>1. Tracked(r)
    BY <1>2, <1>6 DEF SavingInv
  <2>2. StaysSaved(r)' <=> StaysSaved(r)
    BY <1>1 DEF StaysSaved
  <2>3. r \notin marks' => StaysSaved(r)
    <3>1. CASE r \notin marks
      BY <2>1, <3>1 DEF Tracked
    <3>2. CASE r \in marks /\ r \notin marks'
      <4>1. Mine(a) /\ a.ok /\ unmarked' = unmarked \cup {q \in marks : drafts.of[q] # a.of.of[q]}
        BY <1>1, <3>2 DEF Reply
      <4>2. a.of.of[r] = drafts.of[r] /\ OwnSave(a)
        BY <1>1, <1>6, <3>2, <4>1 DEF Mine, OwnSave
      <4>3. QED
        BY <1>1, <2>1, <4>1, <4>2, AnswersTaken DEF Tracked
    <3>3. QED
      BY <3>1, <3>2
  <2>4. ASSUME NEW i \in DOMAIN replies', OwnSave(replies'[i]), replies'[i].ok,
               replies'[i].of.of[r] = drafts.of[r]
        PROVE  StaysSaved(r)
    BY <1>1, <2>1, <2>4, AnswersTaken DEF Tracked
  <2>5. QED
    BY <1>1, <2>1, <2>2, <2>3, <2>4 DEF Tracked, OwnSave
<1>7. QED
  BY <1>1, <1>3, <1>4, <1>5, <1>6 DEF SavingInv

\* What was read is on the disk and no save is under way, unless the button was pressed.
LEMMA ReadsKeep ==
    ASSUME SavingInv, Read
    PROVE  SavingInv'
<1> DEFINE a == replies[1]
<1>1. /\ replies # <<>> /\ replies' = Tail(replies) /\ Head(replies) = a /\ a.get
      /\ UNCHANGED <<isOpen, queue, disk, versions, openings, saveFailed, unmarked>>
  BY AnswersTaken DEF Read
<1>2. a.of \in Works /\ \A q \in Editable : a.of.of[q] <= versions
  BY <1>1, AnswersTaken DEF SaveAnswers, SavingInv, NothingIsAhead
<1>3. CASE ~Mine(a)
  <2>1. UNCHANGED <<canSave, drafts, marks, timer>>
    BY <1>1, <1>3 DEF Read
  <2>2. SavingTypes'
    BY <1>1, <2>1, AnswersTaken DEF SavingInv, SavingTypes
  <2>3. NothingIsAhead' /\ TimerIsCurrent' /\ ReadsOnce' /\ ReadBefore'
    BY <1>1, <2>1, FewerAnswers DEF SavingInv, NothingIsAhead, TimerIsCurrent
  <2>4. ASSUME isOpen, ~canSave
        PROVE  BeforeRead'
    <3>1. BeforeRead /\ ~OwnGet(a)
      BY <1>3, <2>4 DEF SavingInv, Mine, OwnGet
    <3>2. QED
      BY <1>1, <2>1, <3>1, AnswersTaken, FewerAnswers DEF BeforeRead, OwnSave
  <2>5. ASSUME isOpen, canSave, NEW r \in Editable \ unmarked, drafts.of[r] # 0
        PROVE  Tracked(r)'
    <3>1. Tracked(r)
      BY <2>5 DEF SavingInv
    <3>2. QED
      BY <1>1, <2>1, <3>1, AnswersTaken DEF Tracked, StaysSaved, OwnSave
  <2>6. QED
    BY <1>1, <2>1, <2>2, <2>3, <2>4, <2>5 DEF SavingInv
<1>4. CASE Mine(a)
  <2>1. /\ canSave' = TRUE /\ drafts' = (IF a.ok THEN a.of ELSE drafts)
        /\ marks' = (IF a.ok THEN {} ELSE marks) /\ Restart(drafts', TRUE) /\ isOpen
        /\ OwnGet(a)
    BY <1>1, <1>4 DEF Read, Mine, OwnGet
  <2>2. SavingTypes'
    BY <1>1, <1>2, <2>1, AnswersTaken DEF SavingInv, SavingTypes, Restart, NoTimer, Works
  <2>3. NothingIsAhead' /\ TimerIsCurrent' /\ ReadsOnce' /\ ReadBefore'
    <3>1. NothingIsAhead'
      BY <1>1, <1>2, <2>1, FewerAnswers DEF SavingInv, NothingIsAhead
    <3>2. TimerIsCurrent'
      BY <1>1, <2>1 DEF Restart, TimerIsCurrent
    <3>3. ReadBefore'
      <4>1. \A i \in DOMAIN queue : ~OwnGet(queue[i])
        BY <1>1, <2>1, AnswersTaken DEF SavingInv, ReadsOnce
      <4>2. \A i \in DOMAIN replies' : ~OwnGet(replies'[i])
        <5>1. \A i \in DOMAIN replies' : i + 1 \in DOMAIN replies /\ i + 1 # 1
          BY <1>1, AnswersTaken
        <5>2. QED
          BY <1>1, <2>1, <5>1, AnswersTaken DEF SavingInv, ReadsOnce
      <4>3. QED
        BY <1>1, <4>1, <4>2 DEF ReadBefore, OwnGet
    <3>4. QED
      BY <1>1, <3>1, <3>2, <3>3, FewerAnswers
  <2>4. ASSUME NEW r \in Editable \ unmarked, drafts'.of[r] # 0
        PROVE  Tracked(r)'
    <3>1. ~canSave
      BY <1>1, <2>1, AnswersTaken DEF SavingInv, ReadBefore
    <3>2. BeforeRead /\ unmarked # Editable
      BY <2>1, <2>4, <3>1 DEF SavingInv
    <3>3. a.ok
      BY <2>1, <2>4, <3>2 DEF BeforeRead
    <3>4. queue = <<>> /\ a = replies[Len(replies)]
      <4>1. ~(queue # <<>> /\ OwnGet(queue[Len(queue)]))
        <5>1. queue # <<>> => Len(queue) \in DOMAIN queue
          BY DEF SavingInv, SavingTypes
        <5>2. QED
          BY <1>1, <2>1, <5>1, AnswersTaken DEF SavingInv, ReadsOnce
      <4>2. QED
        BY <1>1, <2>1, <3>2, <4>1, AnswersTaken DEF BeforeRead, ReadIsLast, SavingInv, ReadsOnce
    <3>5. a.of = disk
      BY <2>1, <3>2, <3>3, <3>4 DEF BeforeRead, ReadIsLast
    <3>6. StaysSaved(r)'
      BY <1>1, <2>1, <3>3, <3>4, <3>5 DEF StaysSaved
    <3>7. \A i \in DOMAIN queue : FALSE
      BY <3>4
    <3>8. QED
      BY <1>1, <3>6, <3>7 DEF Tracked
  <2>5. QED
    BY <1>1, <2>1, <2>2, <2>3, <2>4 DEF SavingInv
<1>5. QED
  BY <1>3, <1>4

\* Closing forgets the timer, and what is under way is of an earlier opening from then on.
LEMMA ClosesKeep ==
    ASSUME SavingInv, Close \/ Open
    PROVE  SavingInv'
<1>1. CASE Close
  BY <1>1 DEF Close, SavingInv, SavingTypes, NothingIsAhead, TimerIsCurrent, ReadsOnce, ReadBefore,
     OwnGet, NoTimer, Works
<1>2. CASE Open
  <2> DEFINE x == [get |-> TRUE, by |-> openings', of |-> Default]
  <2>1. /\ ~isOpen /\ openings' = openings + 1 /\ isOpen' = TRUE /\ canSave' = FALSE
        /\ drafts' = Default /\ marks' = {} /\ unmarked' = {} /\ queue' = Append(queue, x)
        /\ UNCHANGED <<timer, replies, disk, versions, saveFailed>>
    BY <1>2 DEF Open, Opened
  <2>2. /\ Default \in Works /\ Default.of = [r \in Editable |-> 0]
        /\ openings \in Nat /\ openings' \in Nat
    <3>1. Default \in Works /\ Default.of = [r \in Editable |-> 0]
      BY DEF Default, NoTimer, Works
    <3>2. QED
      BY <2>1, <3>1 DEF SavingInv, SavingTypes
  <2>3. x \in SaveCalls /\ x.get /\ x.by = openings + 1 /\ x.of = Default /\ queue \in Seq(SaveCalls)
    BY <2>1, <2>2 DEF SaveCalls, SavingInv, SavingTypes
  <2>4. /\ queue' \in Seq(SaveCalls) /\ Len(queue) \in Nat /\ queue' # <<>>
        /\ Len(queue') = Len(queue) + 1
        /\ DOMAIN queue = 1..Len(queue) /\ DOMAIN queue' = 1..(Len(queue) + 1)
        /\ queue'[Len(queue) + 1] = x
        /\ \A i \in DOMAIN queue : queue'[i] = queue[i]
        /\ \A i \in DOMAIN queue' : i \in DOMAIN queue \/ i = Len(queue) + 1
    BY <2>1, <2>3, Appended
  <2> HIDE DEF x
  <2>5. /\ \A i \in DOMAIN queue : queue[i].by <= openings /\ queue[i].by \in Nat
        /\ \A i \in DOMAIN replies : replies[i].by <= openings /\ replies[i].by \in Nat
    BY CallsAreTyped DEF SavingInv, NothingIsAhead, SaveCalls, SaveAnswers
  <2>6. /\ \A i \in DOMAIN queue : queue[i].by # openings'
        /\ \A i \in DOMAIN replies : replies[i].by # openings'
    BY <2>1, <2>2, <2>5
  <2>7. SavingTypes'
    BY <2>1, <2>2, <2>4 DEF SavingInv, SavingTypes
  <2>8. NothingIsAhead'
    <3>1. versions \in Nat /\ \A r \in Editable : Default.of[r] = 0 /\ disk.of[r] <= versions
      BY <2>2 DEF SavingInv, SavingTypes, NothingIsAhead
    <3>2. /\ \A i \in DOMAIN queue, r \in Editable : queue[i].of.of[r] <= versions
          /\ \A i \in DOMAIN replies, r \in Editable : replies[i].of.of[r] <= versions
      BY DEF SavingInv, NothingIsAhead
    <3>3. QED
      BY <2>1, <2>2, <2>3, <2>4, <2>5, <3>1, <3>2 DEF NothingIsAhead
  <2>9. TimerIsCurrent' /\ ReadsOnce' /\ ReadBefore'
    BY <2>1, <2>4, <2>6 DEF SavingInv, TimerIsCurrent, ReadsOnce, ReadBefore, OwnGet, NoTimer
  <2>10. BeforeRead'
    <3>1. ReadIsLast'
      BY <2>1, <2>3, <2>4 DEF ReadIsLast, OwnGet
    <3>2. QED
      BY <2>1, <2>2, <2>3, <2>4, <2>6, <3>1 DEF BeforeRead, OwnSave
  <2>11. QED
    BY <2>1, <2>7, <2>8, <2>9, <2>10 DEF SavingInv
<1>3. QED
  BY <1>1, <1>2

\* The first opening reads the disk.
LEMMA SavingStarts ==
    ASSUME SavingInit
    PROVE  SavingInv
<1> DEFINE x == [get |-> TRUE, by |-> 1, of |-> Default]
<1>1. /\ Default \in Works /\ Stored \in Works /\ NoTimer \in Works
      /\ \A r \in Editable : Default.of[r] = 0 /\ Stored.of[r] = 0
  BY DEF Default, Stored, NoTimer, Works
<1>2. x \in SaveCalls /\ OwnGet(x)
  BY <1>1 DEF SavingInit, SaveCalls, OwnGet
<1>3. /\ queue = <<x>> /\ DOMAIN queue = {1} /\ queue[1] = x /\ Len(queue) = 1 /\ replies = <<>>
      /\ DOMAIN replies = {} /\ queue \in Seq(SaveCalls) /\ replies \in Seq(SaveAnswers)
  BY <1>2 DEF SavingInit
<1>4. SavingTypes
  BY <1>1, <1>3 DEF SavingInit, SavingTypes
<1>5. NothingIsAhead
  BY <1>1, <1>3 DEF SavingInit, NothingIsAhead
<1>6. TimerIsCurrent /\ ReadsOnce /\ ReadBefore
  BY <1>3 DEF SavingInit, TimerIsCurrent, ReadsOnce, ReadBefore
<1>7. BeforeRead
  BY <1>1, <1>2, <1>3 DEF SavingInit, BeforeRead, ReadIsLast, OwnSave, OwnGet
<1>8. QED
  BY <1>4, <1>5, <1>6, <1>7 DEF SavingInit, SavingInv

\* No edit, save, answer or opening breaks it.
LEMMA SavingStep ==
    ASSUME SavingInv, [SavingNext]_savingVars
    PROVE  SavingInv'
<1>1. /\ drafts \in Works /\ drafts.of \in [Editable -> Nat] /\ versions \in Nat
      /\ drafts.bad \subseteq Editable /\ marks \subseteq Editable /\ unmarked \subseteq Editable
      /\ DOMAIN drafts = {"version", "of", "bad"}
  BY DEF SavingInv, SavingTypes, Works
<1>2. ASSUME NEW r \in Editable, NEW d, Make(d), Mark(r), d.of = [drafts.of EXCEPT ![r] = versions + 1],
             d.bad \subseteq Editable, d \in Works,
             UNCHANGED <<isOpen, canSave, queue, replies, disk, openings, saveFailed>>
      PROVE  SavingInv'
  <2>1. /\ isOpen /\ versions' = versions + 1 /\ drafts' = [d EXCEPT !.version = versions + 1]
        /\ Restart(drafts', canSave)
    BY <1>2 DEF Make
  <2>2. drafts' \in Works /\ drafts'.of = [drafts.of EXCEPT ![r] = versions + 1]
    BY <1>1, <1>2, <2>1 DEF Works
  <2>3. /\ marks \subseteq marks' /\ marks' \subseteq Editable /\ unmarked' \subseteq Editable
        /\ \A q \in unmarked : q # r => q \in unmarked'
        /\ IF canSave THEN r \in marks' ELSE r \in unmarked'
        /\ ~canSave => unmarked \subseteq unmarked'
    BY <1>1, <1>2 DEF Mark
  <2>4. ASSUME NEW q \in Editable
        PROVE  \/ drafts'.of[q] = 0
               \/ drafts'.of[q] = drafts.of[q] /\ (q \in marks => q \in marks')
                    /\ (q \in unmarked => q \in unmarked')
               \/ drafts'.of[q] = versions' /\ (q \in unmarked' \/ (canSave /\ q \in marks'))
    BY <1>1, <2>1, <2>2, <2>3
  <2>5. QED
    BY <1>2, <2>1, <2>2, <2>3, <2>4, EditsKeep
<1>3. ASSUME NEW r \in Editable, NEW valid \in BOOLEAN, EditRequest(r, valid)
      PROVE  SavingInv'
  <2> DEFINE d == [drafts EXCEPT !.of[r] = versions + 1,
                                 !.bad = IF valid THEN @ \ {r} ELSE @ \cup {r}]
  <2>1. /\ d.of = [drafts.of EXCEPT ![r] = versions + 1] /\ d.bad \subseteq Editable /\ d \in Works
    <3>1. d.of = [drafts.of EXCEPT ![r] = versions + 1] /\ d.version = drafts.version
      BY <1>1
    <3>2. d.bad = IF valid THEN drafts.bad \ {r} ELSE drafts.bad \cup {r}
      BY <1>1
    <3>3. [drafts.of EXCEPT ![r] = versions + 1] \in [Editable -> Nat]
      BY <1>1
    <3>4. d.bad \subseteq Editable
      BY <1>1, <3>2
    <3>5. QED
      BY <1>1, <3>1, <3>3, <3>4 DEF Works
  <2>2. QED
    BY <1>2, <1>3, <2>1 DEF EditRequest
<1>4. ASSUME NEW r \in Editable, RenameRequest(r)
      PROVE  SavingInv'
  <2> DEFINE d == [drafts EXCEPT !.of[r] = versions + 1]
  <2>1. /\ d.of = [drafts.of EXCEPT ![r] = versions + 1] /\ d.bad \subseteq Editable /\ d \in Works
    BY <1>1 DEF Works
  <2>2. QED
    BY <1>2, <1>4, <2>1 DEF RenameRequest
<1>5. ASSUME NEW r \in Editable, DeleteRequest(r)
      PROVE  SavingInv'
  <2> DEFINE d == [drafts EXCEPT !.of[r] = 0, !.bad = @ \ {r}]
  <2>1. /\ isOpen /\ versions' = versions + 1 /\ drafts' = [d EXCEPT !.version = versions + 1]
        /\ Restart(drafts', canSave) /\ marks' = marks \ {r} /\ unmarked' = unmarked
        /\ UNCHANGED <<isOpen, canSave, queue, replies, disk, openings, saveFailed>>
    BY <1>5 DEF DeleteRequest, Make
  <2>2. drafts' \in Works /\ drafts'.of = [drafts.of EXCEPT ![r] = 0]
    <3>1. d.of = [drafts.of EXCEPT ![r] = 0] /\ d.version = drafts.version /\ d.bad = drafts.bad \ {r}
      BY <1>1
    <3>2. [drafts.of EXCEPT ![r] = 0] \in [Editable -> Nat]
      BY <1>1
    <3>3. d \in Works
      BY <1>1, <3>1, <3>2 DEF Works
    <3> HIDE DEF d
    <3>4. QED
      BY <1>1, <2>1, <3>1, <3>3 DEF Works
  <2>3. QED
    BY <1>1, <2>1, <2>2, EditsKeep
<1>6. CASE EditRest
  <2>1. /\ isOpen /\ versions' = versions + 1 /\ drafts' = [drafts EXCEPT !.version = versions + 1]
        /\ Restart(drafts', canSave)
        /\ UNCHANGED <<isOpen, canSave, marks, unmarked, queue, replies, disk, openings, saveFailed>>
    BY <1>6 DEF EditRest, Make
  <2>2. drafts' \in Works /\ drafts'.of = drafts.of
    BY <1>1, <2>1 DEF Works
  <2>3. QED
    BY <1>1, <2>1, <2>2, EditsKeep
<1>a. ASSUME NEW changed \in SUBSET Editable, NEW invalid \in SUBSET changed,
             ImportRequests(changed, invalid)
      PROVE  SavingInv'
  <2> DEFINE new == [r \in Editable |-> IF r \in changed THEN versions + 1 ELSE drafts.of[r]]
             bad == (drafts.bad \ changed) \cup invalid
             d == [drafts EXCEPT !.of = new, !.bad = bad]
  <2>1. /\ isOpen /\ versions' = versions + 1 /\ drafts' = [d EXCEPT !.version = versions + 1]
        /\ Restart(drafts', canSave) /\ marks' = marks /\ unmarked' = unmarked \cup changed
        /\ UNCHANGED <<isOpen, canSave, queue, replies, disk, openings, saveFailed>>
    BY <1>a DEF ImportRequests, Make
  <2>2. drafts' \in Works /\ drafts'.of = new
    <3>1. new \in [Editable -> Nat] /\ bad \subseteq Editable
      BY <1>1
    <3> HIDE DEF new, bad
    <3>2. d \in Works /\ d.of = new
      BY <1>1, <3>1 DEF Works
    <3> HIDE DEF d
    <3>3. QED
      BY <1>1, <2>1, <3>2 DEF Works
  <2>3. \A q \in Editable :
           \/ drafts'.of[q] = drafts.of[q]
           \/ drafts'.of[q] = versions' /\ q \in unmarked'
    BY <2>1, <2>2
  <2> HIDE DEF new, bad, d
  <2>4. unmarked' \subseteq Editable /\ marks' \subseteq Editable
    BY <1>1, <2>1 DEF SavingInv, SavingTypes
  <2>5. QED
    BY <2>1, <2>2, <2>3, <2>4, EditsKeep
<1>7. CASE TimerFires
  <2>1. timer = drafts /\ canSave
    BY <1>7 DEF TimerFires, SavingInv, TimerIsCurrent
  <2>2. QED
    BY <1>7, <2>1, SavesKeep DEF TimerFires
<1>8. CASE saveWorkspacesNow
  <2>1. CASE Invalid(drafts)
    <3>1. /\ timer' = NoTimer /\ NoTimer \in Works
          /\ unmarked' = IF canSave THEN unmarked ELSE Editable
          /\ UNCHANGED <<isOpen, canSave, drafts, marks, queue, replies, disk, versions, openings, saveFailed>>
      BY <1>8, <2>1 DEF saveWorkspacesNow, SaveNow, NoTimer, Works
    <3>2. SavingTypes' /\ NothingIsAhead' /\ TimerIsCurrent' /\ ReadsOnce' /\ ReadBefore'
      BY <1>1, <3>1 DEF SavingInv, SavingTypes, NothingIsAhead, TimerIsCurrent, ReadsOnce, ReadBefore, OwnGet
    <3>3. ~canSave => BeforeRead'
      BY <1>1, <3>1 DEF BeforeRead
    <3>4. \A r \in Editable : Tracked(r)' <=> Tracked(r)
      BY <3>1 DEF Tracked, StaysSaved, OwnSave
    <3>5. QED
      BY <3>1, <3>2, <3>3, <3>4 DEF SavingInv
  <2>2. CASE ~Invalid(drafts)
    BY <1>8, <2>2, SavesKeep DEF saveWorkspacesNow, SaveNow
  <2>3. QED
    BY <2>1, <2>2
<1>9. CASE UNCHANGED savingVars
  <2>1. BeforeRead' <=> BeforeRead
    BY <1>9 DEF savingVars, BeforeRead, ReadIsLast, OwnGet, OwnSave
  <2>2. \A r \in Editable : Tracked(r)' <=> Tracked(r)
    BY <1>9 DEF savingVars, Tracked, StaysSaved, OwnSave
  <2>3. QED
    BY <1>9, <2>1, <2>2 DEF savingVars, SavingInv, SavingTypes, NothingIsAhead, TimerIsCurrent,
       ReadsOnce, ReadBefore, OwnGet
<1>10. QED
  BY <1>3, <1>4, <1>5, <1>6, <1>a, <1>7, <1>8, <1>9, ServesKeep, ReadsKeep, RepliesKeep, ClosesKeep
     DEF SavingNext

\* An address that is invalid is in no timer, and so in no call that saves.
LEMMA ValidStep ==
    ASSUME SavingInv, ValidInv, [SavingNext]_savingVars
    PROVE  ValidInv'
<1>1. /\ Default.bad = {} /\ NoTimer.bad = {} /\ queue \in Seq(SaveCalls)
  BY DEF Default, NoTimer, SavingInv, SavingTypes
<1>2. ASSUME NEW d, NEW allowed, Restart(d, allowed)
      PROVE  timer'.bad = {}
  BY <1>1, <1>2 DEF Restart, Invalid
<1>3. ASSUME NEW x \in SaveCalls, x.of.bad = {}, queue' = Append(queue, x)
      PROVE  \A i \in DOMAIN queue' : queue'[i].of.bad = {}
  <2>1. \A i \in DOMAIN queue' : \/ i \in DOMAIN queue /\ queue'[i] = queue[i]
                                \/ queue'[i] = x
    BY <1>1, <1>3, Appended
  <2>2. QED
    BY <1>3, <2>1 DEF ValidInv
<1>4. ASSUME NEW ok \in BOOLEAN, Serve(ok)
      PROVE  ValidInv'
  <2>1. /\ Head(queue) = queue[1] /\ 1 \in DOMAIN queue
        /\ \A i \in DOMAIN queue' : i + 1 \in DOMAIN queue /\ queue'[i] = queue[i + 1]
    BY <1>1, <1>4, Shortened DEF Serve
  <2>2. disk' \in {disk, queue[1].of} /\ timer' = timer
    BY <1>4, <2>1 DEF Serve
  <2>3. QED
    BY <2>1, <2>2 DEF ValidInv
<1>5. ASSUME (\E d : Make(d)) \/ Read, UNCHANGED <<queue, disk>>
      PROVE  ValidInv'
  BY <1>2, <1>5 DEF Make, Read, ValidInv
<1>6. ASSUME NEW r \in Editable,
             (\E valid \in BOOLEAN : EditRequest(r, valid)) \/ RenameRequest(r) \/ DeleteRequest(r)
      PROVE  ValidInv'
  BY <1>5, <1>6 DEF EditRequest, RenameRequest, DeleteRequest
<1>7. CASE \/ EditRest \/ Read
           \/ \E changed \in SUBSET Editable : \E invalid \in SUBSET changed :
                 ImportRequests(changed, invalid)
  BY <1>5, <1>7 DEF EditRest, Read, ImportRequests
<1>8. CASE TimerFires \/ saveWorkspacesNow
  <2>1. timer' = NoTimer /\ disk' = disk
    BY <1>8 DEF TimerFires, saveWorkspacesNow, SaveNow
  <2>2. queue' = queue \/ \E d \in {timer, drafts} : d.bad = {} /\ queue' = Append(queue, SaveOf(d))
    BY <1>8 DEF TimerFires, saveWorkspacesNow, SaveNow, Invalid, ValidInv
  <2>3. \A d \in {timer, drafts} : SaveOf(d) \in SaveCalls /\ SaveOf(d).of = d
    BY DEF SaveOf, SaveCalls, SavingInv, SavingTypes
  <2>4. QED
    BY <1>1, <1>3, <2>1, <2>2, <2>3 DEF ValidInv
<1>9. CASE Open
  <2> DEFINE x == [get |-> TRUE, by |-> openings', of |-> Default]
  <2>1. x \in SaveCalls /\ x.of.bad = {}
    <3>1. Default \in Works
      BY DEF Works, Default, NoTimer
    <3>2. openings' \in Nat
      BY <1>9 DEF Open, SavingInv, SavingTypes
    <3>3. QED
      BY <1>1, <3>1, <3>2 DEF SaveCalls
  <2>2. queue' = Append(queue, x) /\ UNCHANGED <<timer, disk>>
    BY <1>9 DEF Open, Opened
  <2>3. QED
    BY <1>3, <2>1, <2>2 DEF ValidInv
<1>10. CASE Close \/ Reply \/ UNCHANGED savingVars
  BY <1>1, <1>10 DEF Close, Reply, savingVars, ValidInv
<1>11. QED
  BY <1>4, <1>6, <1>7, <1>8, <1>9, <1>10 DEF SavingNext

\* However the panel is closed and opened and however calls and answers cross: what it shows
\* of a request without a mark is on the disk, but for requests whose mark an older answer
\* took or that were changed before the disk was read; and no invalid address comes there.
THEOREM WhatIsSavedIsSound == SavingSpec => [](UnmarkedIsSaved /\ NeverSavesInvalid)
<1>1. SavingInit => SavingInv /\ ValidInv
  <2>1. ASSUME SavingInit
        PROVE  ValidInv
    BY <2>1 DEF SavingInit, ValidInv, NoTimer, Stored, Default
  <2>2. QED
    BY <2>1, SavingStarts
<1>2. (SavingInv /\ ValidInv) /\ [SavingNext]_savingVars => (SavingInv /\ ValidInv)'
  BY SavingStep, ValidStep
<1>3. SavingInv /\ ValidInv => UnmarkedIsSaved /\ NeverSavesInvalid
  <2>1. ASSUME SavingInv, isOpen, canSave, NEW r \in Editable \ (marks \cup unmarked)
        PROVE  drafts.of[r] \in {0, disk.of[r]}
    BY <2>1 DEF SavingInv, Tracked, StaysSaved
  <2>2. QED
    BY <2>1 DEF UnmarkedIsSaved, NeverSavesInvalid, ValidInv, Invalid
<1>4. QED
  BY <1>1, <1>2, <1>3, PTL DEF SavingSpec

-----------------------------------------------------------------------------
(* The message that is sent (HttpMessage).                                 *)

\* All texts a draft and its message can hold.
Texts == {Empty, Word, ContentType, Ref, "authorization", "json", "text", "urlencoded"}
AnyRow == [enabled : BOOLEAN, key : Texts, value : Texts, kind : {"text", "file"}]

DraftTypeOK ==
    /\ draft.mode \in {"none", "json", "form"} /\ draft.url = Word /\ draft.body \in Texts
    /\ draft.headers \in Seq(AnyRow) /\ draft.params \in Seq(AnyRow) /\ draft.form \in Seq(AnyRow)
    /\ draft.auth.name \in Texts /\ draft.auth.secret \in Texts
    /\ Variable \in Texts

MessageInv ==
    /\ DraftTypeOK
    /\ payload = <<>> \/ (payload = <<buildHttpPayload(draft)>> /\ missingRequestVariables(draft) = {})

\* The texts the code itself puts into a message.
LEMMA SomeTexts ==
    Empty \in Texts /\ Word \in Texts /\ ContentType \in Texts /\ "authorization" \in Texts
BY DEF Texts

\* A row the code makes for a text is an enabled row with that key and value.
LEMMA ATextRow ==
    ASSUME NEW key \in Texts, NEW value \in Texts
    PROVE  /\ Row(TRUE, key, value, "text") \in AnyRow /\ Row(TRUE, key, value, "text").enabled
           /\ Row(TRUE, key, value, "text").key = key /\ Row(TRUE, key, value, "text").value = value
BY DEF Row, AnyRow

\* Replacing a reference by its value gives one of the texts.
LEMMA TextsResolve ==
    ASSUME DraftTypeOK, NEW t \in Texts
    PROVE  Resolve(t) \in Texts
BY DEF DraftTypeOK, Resolve

\* What is looked at has no reference without a definition.
LEMMA LookedAtResolves ==
    ASSUME missingRequestVariables(draft) = {}, NEW t \in TextsOf(draft)
    PROVE  Resolve(t) # Ref
BY DEF missingRequestVariables, Missing, Resolve

\* The enabled rows are those rows of s that are enabled and have a key.
LEMMA EnabledRows ==
    ASSUME NEW s \in Seq(AnyRow)
    PROVE  /\ Enabled(s) \in Seq(AnyRow)
           /\ \A i \in 1 .. Len(Enabled(s)) :
                /\ Enabled(s)[i].enabled /\ Enabled(s)[i].key # Empty
                /\ \E p \in 1 .. Len(s) : Enabled(s)[i] = s[p]
           /\ \A p \in 1 .. Len(s) : s[p].enabled /\ s[p].key # Empty =>
                \E i \in 1 .. Len(Enabled(s)) : Enabled(s)[i] = s[p]
<1> DEFINE P == {i \in DOMAIN s : s[i].enabled /\ s[i].key # Empty}
<1>1. Enabled(s) = Kept(s, P)
  BY DEF Enabled
<1> HIDE DEF P
<1>2. Kept(s, P) \in Seq(AnyRow) /\ IsPartOf(Kept(s, P), s, P)
  BY KeptElements
<1>3. DOMAIN s = 1 .. Len(s)
  OBVIOUS
<1>4. \A p : p \in P <=> p \in 1 .. Len(s) /\ s[p].enabled /\ s[p].key # Empty
  BY <1>3, Zenon DEF P
<1>5. ASSUME NEW i \in 1 .. Len(Kept(s, P))
      PROVE  /\ Kept(s, P)[i].enabled /\ Kept(s, P)[i].key # Empty
             /\ \E p \in 1 .. Len(s) : Kept(s, P)[i] = s[p]
  <2>1. PICK p \in P \cap (1 .. Len(s)) : Kept(s, P)[i] = s[p]
    BY <1>2 DEF IsPartOf
  <2>2. QED
    BY <1>4, <2>1
<1>6. ASSUME NEW p \in 1 .. Len(s), s[p].enabled, s[p].key # Empty
      PROVE  \E i \in 1 .. Len(Kept(s, P)) : Kept(s, P)[i] = s[p]
  <2>1. p \in P \cap (1 .. Len(s))
    BY <1>4, <1>6
  <2>2. QED
    BY <1>2, <2>1 DEF IsPartOf
<1>7. QED
  BY <1>1, <1>2, <1>5, <1>6

\* Resolving a row resolves its key and its value and nothing else.
LEMMA ResolvedRow ==
    ASSUME DraftTypeOK, NEW r \in AnyRow
    PROVE  /\ ResolveRow(r) \in AnyRow /\ ResolveRow(r).key = Resolve(r.key)
           /\ ResolveRow(r).value = Resolve(r.value) /\ ResolveRow(r).enabled = r.enabled
<1>1. Resolve(r.key) \in Texts /\ Resolve(r.value) \in Texts
  BY TextsResolve DEF AnyRow
<1>2. QED
  BY <1>1 DEF ResolveRow, AnyRow

\* Resolving rows resolves each of them in its place.
LEMMA ResolvedRows ==
    ASSUME DraftTypeOK, NEW s \in Seq(AnyRow)
    PROVE  /\ ResolveAll(s) \in Seq(AnyRow) /\ Len(ResolveAll(s)) = Len(s)
           /\ \A i \in 1 .. Len(s) : ResolveAll(s)[i] = ResolveRow(s[i])
<1>1. DOMAIN s = 1 .. Len(s) /\ Len(s) \in Nat /\ \A i \in 1 .. Len(s) : s[i] \in AnyRow
  OBVIOUS
<1>2. \A i \in 1 .. Len(s) : ResolveRow(s[i]) \in AnyRow
  BY <1>1, ResolvedRow
<1>3. ResolveAll(s) = [i \in 1 .. Len(s) |-> ResolveRow(s[i])]
  BY <1>1 DEF ResolveAll
<1>4. QED
  BY <1>1, <1>2, <1>3

\* The list of the authentication: at most one.
LEMMA AuthRow ==
    ASSUME DraftTypeOK
    PROVE  LET list == authHeaderRows(draft.auth) IN
           /\ list \in Seq(AnyRow) /\ Len(list) <= 1
           /\ \A i \in 1 .. Len(list) :
                /\ list[i].enabled /\ list[i].value = Resolve(draft.auth.secret)
                /\ \/ list[i].key = "authorization"
                   \/ draft.auth.type = "api-key" /\ list[i].key = Resolve(draft.auth.name)
<1> DEFINE a == draft.auth
           list == authHeaderRows(a)
           Is(key) == Row(TRUE, key, Resolve(a.secret), "text")
<1>1. Resolve(a.name) \in Texts /\ Resolve(a.secret) \in Texts
  BY TextsResolve DEF DraftTypeOK
<1>2. \A key \in Texts : /\ Is(key) \in AnyRow /\ Is(key).enabled /\ Is(key).key = key
                          /\ Is(key).value = Resolve(a.secret)
  BY <1>1, ATextRow
<1> HIDE DEF Is
<1>3. \/ list = <<>> \/ list = <<Is("authorization")>>
      \/ a.type = "api-key" /\ list = <<Is(Resolve(a.name))>>
  BY DEF authHeaderRows, Is
<1> HIDE DEF list, a
<1>4. CASE list = <<>>
  BY <1>4 DEF a, list
<1>5. ASSUME NEW key \in Texts, list = <<Is(key)>>
      PROVE  /\ list \in Seq(AnyRow) /\ Len(list) <= 1
             /\ \A i \in 1 .. Len(list) : list[i] = Is(key)
  BY <1>2, <1>5
<1>6. QED
  BY <1>1, <1>2, <1>3, <1>4, <1>5, SomeTexts DEF list, a

\* The headers before those of a form of parts are taken out: the user's, the
\* authentication's, and the type if none of these gives it.
LEMMA HeaderRows ==
    ASSUME DraftTypeOK
    PROVE  LET own  == ResolveAll(Enabled(draft.headers))
               auth == authHeaderRows(draft.auth)
               type == bodyContentType(draft)
               list == HeadersWith(draft, type, auth)
           IN  /\ list \in Seq(AnyRow)
               /\ Len(own) \in Nat /\ Len(auth) \in Nat
               /\ \A i \in 1 .. Len(list) :
                    \/ i \in 1 .. Len(own) /\ list[i] = own[i]
                    \/ i - Len(own) \in 1 .. Len(auth) /\ list[i] = auth[i - Len(own)]
                    \/ /\ i = Len(own) + Len(auth) + 1 /\ type # Empty
                       /\ list[i] = Row(TRUE, ContentType, type, "text")
                       /\ \A j \in 1 .. (Len(own) + Len(auth)) : list[j].key # ContentType
               /\ Len(list) >= Len(own) + Len(auth)
               /\ type # Empty => \E i \in 1 .. Len(list) : list[i].key = ContentType
<1> DEFINE own   == ResolveAll(Enabled(draft.headers))
           auth  == authHeaderRows(draft.auth)
           type  == bodyContentType(draft)
           given == own \o auth
           added == IF type # Empty /\ ~HasHeader(given, ContentType)
                    THEN <<Row(TRUE, ContentType, type, "text")>> ELSE <<>>
           list  == HeadersWith(draft, type, auth)
<1>1. /\ own \in Seq(AnyRow) /\ Len(own) = Len(Enabled(draft.headers))
      /\ \A i \in 1 .. Len(own) : own[i].enabled
  <2>1. draft.headers \in Seq(AnyRow)
    BY DEF DraftTypeOK
  <2>2. Enabled(draft.headers) \in Seq(AnyRow) /\ \A i \in 1 .. Len(Enabled(draft.headers)) :
          Enabled(draft.headers)[i] \in AnyRow /\ Enabled(draft.headers)[i].enabled
    BY <2>1, EnabledRows
  <2>3. QED
    BY <2>2, ResolvedRows, ResolvedRow
<1>2. auth \in Seq(AnyRow) /\ \A i \in 1 .. Len(auth) : auth[i].enabled
  BY AuthRow
<1>3. type \in Texts
  BY DEF bodyContentType, DraftTypeOK, Texts
<1> HIDE DEF own, auth, type
<1>4. /\ given \in Seq(AnyRow) /\ Len(given) = Len(own) + Len(auth)
      /\ Len(own) \in Nat /\ Len(auth) \in Nat
      /\ \A i \in 1 .. Len(given) : \/ i \in 1 .. Len(own) /\ given[i] = own[i]
                                    \/ i - Len(own) \in 1 .. Len(auth) /\ given[i] = auth[i - Len(own)]
  <2>1. /\ given \in Seq(AnyRow) /\ Len(given) = Len(own) + Len(auth)
        /\ \A i \in 1 .. Len(own) + Len(auth) : given[i] = IF i <= Len(own) THEN own[i] ELSE auth[i - Len(own)]
    <3>1. own \in Seq(AnyRow) /\ auth \in Seq(AnyRow)
      BY <1>1, <1>2
    <3>2. QED
      BY <3>1, ConcatProperties, Zenon
  <2>2. Len(own) \in Nat /\ Len(auth) \in Nat
    BY <1>1, <1>2
  <2> HIDE DEF given
  <2>3. QED
    BY <2>1, <2>2
<1>5. \A i \in 1 .. Len(given) : given[i].enabled
  BY <1>1, <1>2, <1>4
<1> HIDE DEF given
<1>6. HasHeader(given, ContentType) <=> \E i \in 1 .. Len(given) : given[i].key = ContentType
  <2>1. Enabled(given) \in Seq(AnyRow) /\ ToSet(Enabled(given)) = {Enabled(given)[i] : i \in 1 .. Len(Enabled(given))}
    BY <1>4, EnabledRows DEF ToSet
  <2>2. \A i \in 1 .. Len(Enabled(given)) : \E p \in 1 .. Len(given) : Enabled(given)[i] = given[p]
    BY <1>4, EnabledRows
  <2>3. \A p \in 1 .. Len(given) : given[p].key # Empty =>
           \E i \in 1 .. Len(Enabled(given)) : Enabled(given)[i] = given[p]
    BY <1>4, <1>5, EnabledRows
  <2>4. ContentType # Empty
    BY DEF ContentType, Empty
  <2>5. QED
    BY <2>1, <2>2, <2>3, <2>4 DEF HasHeader
<1>7. list = given \o added
  BY DEF HeadersWith, given, own
<1> DEFINE last == Row(TRUE, ContentType, type, "text")
<1>8. last \in AnyRow /\ last.key = ContentType
  BY <1>3, ATextRow, SomeTexts
<1>9. CASE type # Empty /\ ~HasHeader(given, ContentType)
  <2> HIDE DEF last
  <2>1. added = <<last>>
    BY <1>9 DEF last
  <2> HIDE DEF added, list
  <2>2. /\ list \in Seq(AnyRow) /\ Len(list) = Len(given) + 1 /\ list[Len(given) + 1] = last
        /\ \A i \in 1 .. Len(given) : list[i] = given[i]
    <3>1. added \in Seq(AnyRow) /\ Len(added) = 1 /\ added[1] = last
      BY <1>8, <2>1
    <3>2. /\ list \in Seq(AnyRow) /\ Len(list) = Len(given) + 1 /\ Len(given) \in Nat
          /\ \A i \in 1 .. Len(given) + 1 :
               list[i] = IF i <= Len(given) THEN given[i] ELSE added[i - Len(given)]
      <4>1. \A s, u \in Seq(AnyRow) :
              /\ s \o u \in Seq(AnyRow) /\ Len(s \o u) = Len(s) + Len(u) /\ Len(s) \in Nat
              /\ \A i \in 1 .. Len(s) + Len(u) :
                   (s \o u)[i] = IF i <= Len(s) THEN s[i] ELSE u[i - Len(s)]
        OBVIOUS
      <4> HIDE DEF given
      <4>2. QED
        BY <1>4, <1>7, <3>1, <4>1, ZenonT(30)
    <3>3. (Len(given) + 1) - Len(given) = 1
      BY <3>2
    <3>4. QED
      BY <3>1, <3>2, <3>3
  <2>3. \A j \in 1 .. Len(given) : list[j].key # ContentType
    BY <1>6, <1>9, <2>2
  <2>4. \A i \in 1 .. Len(list) : i \in 1 .. Len(given) \/ i = Len(given) + 1
    BY <1>4, <2>2
  <2>5. Len(given) + 1 \in 1 .. Len(list)
    BY <1>4, <2>2
  <2>6. \E i \in 1 .. Len(list) : list[i].key = ContentType
    BY <1>8, <2>2, <2>5
  <2>7. Len(list) >= Len(own) + Len(auth)
    BY <1>4, <2>2
  <2>8. ASSUME NEW i \in 1 .. Len(list)
        PROVE  \/ i \in 1 .. Len(own) /\ list[i] = own[i]
               \/ i - Len(own) \in 1 .. Len(auth) /\ list[i] = auth[i - Len(own)]
               \/ /\ i = Len(own) + Len(auth) + 1 /\ type # Empty
                  /\ list[i] = Row(TRUE, ContentType, type, "text")
                  /\ \A j \in 1 .. (Len(own) + Len(auth)) : list[j].key # ContentType
    BY <1>4, <1>9, <2>2, <2>3, <2>4 DEF last
  <2>9. QED
    BY <1>4, <2>2, <2>6, <2>7, <2>8 DEF list, own, auth, type
<1>10. CASE ~(type # Empty /\ ~HasHeader(given, ContentType))
  <2>1. list = given
    BY <1>4, <1>7, <1>10
  <2> HIDE DEF list, added
  <2>2. type # Empty => \E i \in 1 .. Len(list) : list[i].key = ContentType
    BY <1>6, <1>10, <2>1
  <2>3. Len(list) >= Len(own) + Len(auth)
    BY <1>4, <2>1
  <2>4. QED
    BY <1>4, <2>1, <2>2, <2>3 DEF list, own, auth, type
<1>11. QED
  BY <1>9, <1>10

\* The list that are sent as headers.
LEMMA SentHeaders ==
    ASSUME DraftTypeOK
    PROVE  LET list == HeadersWith(draft, bodyContentType(draft), authHeaderRows(draft.auth))
               sent == requestHeaderRows(draft)
           IN  /\ sent \in Seq(AnyRow)
               /\ \A i \in 1 .. Len(sent) : \E p \in 1 .. Len(list) :
                    sent[i] = list[p] /\ ~(requestUsesMultipart(draft) /\ list[p].key = ContentType)
               /\ ~requestUsesMultipart(draft) =>
                    \A p \in 1 .. Len(list) : \E i \in 1 .. Len(sent) : sent[i] = list[p]
               /\ \A i, j \in 1 .. Len(sent) : i < j =>
                    \E p, q \in 1 .. Len(list) : p < q /\ sent[i] = list[p] /\ sent[j] = list[q]
<1> DEFINE list == HeadersWith(draft, bodyContentType(draft), authHeaderRows(draft.auth))
           P    == {i \in DOMAIN list : ~(requestUsesMultipart(draft) /\ list[i].key = ContentType)}
           sent == requestHeaderRows(draft)
<1>1. list \in Seq(AnyRow)
  BY HeaderRows
<1>2. sent = Kept(list, P)
  BY DEF requestHeaderRows
<1>3. DOMAIN list = 1 .. Len(list)
  BY <1>1
<1> HIDE DEF list, P, sent
<1>4. sent \in Seq(AnyRow) /\ IsPartOf(sent, list, P)
  BY <1>1, <1>2, KeptElements
<1>5. /\ \A p \in P : p \in 1 .. Len(list) /\ ~(requestUsesMultipart(draft) /\ list[p].key = ContentType)
      /\ ~requestUsesMultipart(draft) => \A p \in 1 .. Len(list) : p \in P
  BY <1>3 DEF P
<1>6. /\ \A i \in 1 .. Len(sent) : \E p \in 1 .. Len(list) :
           sent[i] = list[p] /\ ~(requestUsesMultipart(draft) /\ list[p].key = ContentType)
      /\ ~requestUsesMultipart(draft) =>
           \A p \in 1 .. Len(list) : \E i \in 1 .. Len(sent) : sent[i] = list[p]
      /\ \A i, j \in 1 .. Len(sent) : i < j =>
           \E p, q \in 1 .. Len(list) : p < q /\ sent[i] = list[p] /\ sent[j] = list[q]
  <2>1. \A i \in 1 .. Len(sent) : \E p \in P \cap (1 .. Len(list)) : sent[i] = list[p]
    BY <1>4 DEF IsPartOf
  <2>2. \A p \in P \cap (1 .. Len(list)) : \E i \in 1 .. Len(sent) : sent[i] = list[p]
    BY <1>4 DEF IsPartOf
  <2>3. \A i, j \in 1 .. Len(sent) : i < j =>
          \E p, q \in P \cap (1 .. Len(list)) : p < q /\ sent[i] = list[p] /\ sent[j] = list[q]
    BY <1>4 DEF IsPartOf
  <2>4. \A i \in 1 .. Len(sent) : \E p \in 1 .. Len(list) :
           sent[i] = list[p] /\ ~(requestUsesMultipart(draft) /\ list[p].key = ContentType)
    BY <1>5, <2>1, Zenon
  <2>5. ~requestUsesMultipart(draft) =>
           \A p \in 1 .. Len(list) : \E i \in 1 .. Len(sent) : sent[i] = list[p]
    BY <1>5, <2>2, Zenon
  <2>6. \A i, j \in 1 .. Len(sent) : i < j =>
           \E p, q \in 1 .. Len(list) : p < q /\ sent[i] = list[p] /\ sent[j] = list[q]
    BY <2>3, Zenon
  <2>7. QED
    BY <2>4, <2>5, <2>6
<1>7. QED
  BY <1>4, <1>6 DEF list, sent

\* Parts, body and type: which there are.
LEMMA BodyHasType ==
    ASSUME DraftTypeOK
    PROVE  /\ requestBodyFor(draft) # <<>> => ~requestUsesMultipart(draft) /\ bodyContentType(draft) # Empty
           /\ requestMultipartFor(draft) # <<>> => requestUsesMultipart(draft)
BY DEF requestBodyFor, requestMultipartFor, bodyContentType, DraftTypeOK, Empty

\* A message with a body names its content type, and names it once.
LEMMA SaidOnce ==
    ASSUME DraftTypeOK, payload = <<buildHttpPayload(draft)>>
    PROVE  TypeSaidOnce
<1> DEFINE own     == Enabled(draft.headers)
           mine    == ResolveAll(own)
           auth    == authHeaderRows(draft.auth)
           type    == bodyContentType(draft)
           list    == HeadersWith(draft, type, auth)
           sent    == requestHeaderRows(draft)
           p       == buildHttpPayload(draft)
           Written == {i \in DOMAIN own : Resolve(own[i].key) = ContentType}
<1>1. /\ p.headers = sent /\ p.parts = requestMultipartFor(draft)
      /\ p.parts # <<>> => p.body = <<>>
      /\ p.body # <<>> => p.body = requestBodyFor(draft)
  BY DEF buildHttpPayload
<1>2. own \in Seq(AnyRow) /\ DOMAIN own = 1 .. Len(own)
  BY EnabledRows DEF DraftTypeOK
<1>3. /\ Len(mine) = Len(own) /\ \A i \in 1 .. Len(own) : mine[i].key = Resolve(own[i].key)
  BY <1>2, ResolvedRows, ResolvedRow
<1>4. /\ list \in Seq(AnyRow) /\ Len(mine) \in Nat /\ Len(auth) \in Nat
      /\ \A i \in 1 .. Len(list) :
           \/ i \in 1 .. Len(mine) /\ list[i] = mine[i]
           \/ i - Len(mine) \in 1 .. Len(auth) /\ list[i] = auth[i - Len(mine)]
           \/ /\ i = Len(mine) + Len(auth) + 1 /\ type # Empty
              /\ list[i] = Row(TRUE, ContentType, type, "text")
              /\ \A j \in 1 .. (Len(mine) + Len(auth)) : list[j].key # ContentType
      /\ Len(list) >= Len(mine) + Len(auth)
      /\ type # Empty => \E i \in 1 .. Len(list) : list[i].key = ContentType
  BY HeaderRows, Zenon
<1>5. /\ sent \in Seq(AnyRow)
      /\ \A i \in 1 .. Len(sent) : \E q \in 1 .. Len(list) :
           sent[i] = list[q] /\ ~(requestUsesMultipart(draft) /\ list[q].key = ContentType)
      /\ ~requestUsesMultipart(draft) =>
           \A q \in 1 .. Len(list) : \E i \in 1 .. Len(sent) : sent[i] = list[q]
      /\ \A i, j \in 1 .. Len(sent) : i < j =>
           \E q, r \in 1 .. Len(list) : q < r /\ sent[i] = list[q] /\ sent[j] = list[r]
  BY SentHeaders, Zenon
<1>6. /\ Len(auth) <= 1
      /\ \A i \in 1 .. Len(auth) :
           \/ auth[i].key = "authorization"
           \/ draft.auth.type = "api-key" /\ auth[i].key = Resolve(draft.auth.name)
  BY AuthRow, Zenon
<1> HIDE DEF mine, auth, type, list, sent
<1>7. ContentTypes(p) = {i \in 1 .. Len(sent) : sent[i].key = ContentType}
  BY <1>1, <1>5 DEF ContentTypes
<1> HIDE DEF p
<1>8. p.body # <<>> => ContentTypes(p) # {}
  <2>1. HAVE p.body # <<>>
  <2>2. ~requestUsesMultipart(draft) /\ type # Empty
    BY <1>1, <2>1, BodyHasType DEF type
  <2>3. PICK q \in 1 .. Len(list) : list[q].key = ContentType
    BY <1>4, <2>2
  <2>4. \E i \in 1 .. Len(sent) : sent[i] = list[q]
    BY <1>5, <2>2
  <2>5. QED
    BY <1>7, <2>3, <2>4
<1>9. p.parts # <<>> => ContentTypes(p) = {} /\ p.body = <<>>
  BY <1>1, <1>5, <1>7, BodyHasType
<1>10. ASSUME NEW i \in ContentTypes(p), NEW j \in ContentTypes(p), i < j
       PROVE  \/ \E m, n \in Written : m < n
              \/ Written # {} /\ draft.auth.type = "api-key" /\ Resolve(draft.auth.name) = ContentType
  <2>1. PICK q \in 1 .. Len(list), r \in 1 .. Len(list) :
          q < r /\ list[q].key = ContentType /\ list[r].key = ContentType
    <3>1. i \in 1 .. Len(sent) /\ j \in 1 .. Len(sent) /\ sent[i].key = ContentType /\ sent[j].key = ContentType
      BY <1>7, <1>10
    <3>2. PICK q \in 1 .. Len(list), r \in 1 .. Len(list) : q < r /\ sent[i] = list[q] /\ sent[j] = list[r]
      BY <1>5, <1>10, <3>1, Zenon
    <3>3. QED
      BY <3>1, <3>2
  <2>2. q \in Nat /\ r \in Nat /\ q < r
    BY <1>4, <2>1
  <2>3. ASSUME NEW k \in 1 .. Len(list), list[k].key = ContentType, k \in 1 .. Len(mine), list[k] = mine[k]
        PROVE  k \in Written
    BY <1>2, <1>3, <2>3
  <2>4. ASSUME NEW k \in 1 .. Len(list), list[k].key = ContentType,
               k - Len(mine) \in 1 .. Len(auth), list[k] = auth[k - Len(mine)]
        PROVE  k = Len(mine) + 1 /\ draft.auth.type = "api-key" /\ Resolve(draft.auth.name) = ContentType
    <3>1. "authorization" # ContentType
      BY DEF ContentType
    <3>2. k = Len(mine) + 1
      BY <1>4, <1>6, <2>4
    <3>3. QED
      BY <1>6, <2>4, <3>1, <3>2
  <2> HIDE DEF Written
  <2>5. ~(q = Len(mine) + Len(auth) + 1)
    <3>1. r <= Len(mine) + Len(auth) + 1
      <4>1. \/ r \in 1 .. Len(mine) \/ r - Len(mine) \in 1 .. Len(auth) \/ r = Len(mine) + Len(auth) + 1
        BY <1>4, <2>1
      <4>2. Len(mine) \in Nat /\ Len(auth) \in Nat
        BY <1>4
      <4>3. QED
        BY <2>2, <4>1, <4>2
    <3>2. QED
      BY <1>4, <2>2, <3>1
  <2>6. q \in 1 .. (Len(mine) + Len(auth))
    <3>1. q \in 1 .. Len(mine) \/ q - Len(mine) \in 1 .. Len(auth)
      BY <1>4, <2>1, <2>5
    <3>2. Len(mine) \in Nat /\ Len(auth) \in Nat
      BY <1>4
    <3>3. QED
      BY <2>2, <3>1, <3>2
  <2>7. ~(r = Len(mine) + Len(auth) + 1)
         \/ ~(\A k \in 1 .. (Len(mine) + Len(auth)) : list[k].key # ContentType)
    BY <2>1, <2>6
  <2>8. \/ r \in 1 .. Len(mine) /\ list[r] = mine[r]
        \/ r - Len(mine) \in 1 .. Len(auth) /\ list[r] = auth[r - Len(mine)]
    BY <1>4, <2>1, <2>7
  <2>9. \/ q \in 1 .. Len(mine) /\ list[q] = mine[q]
        \/ q - Len(mine) \in 1 .. Len(auth) /\ list[q] = auth[q - Len(mine)]
    BY <1>4, <2>1, <2>5
  <2>10. CASE r \in 1 .. Len(mine) /\ list[r] = mine[r]
    <3>1. q \in 1 .. Len(mine) /\ list[q] = mine[q]
      BY <1>4, <2>2, <2>9, <2>10
    <3>2. QED
      BY <2>1, <2>2, <2>3, <2>10, <3>1
  <2>11. CASE r - Len(mine) \in 1 .. Len(auth) /\ list[r] = auth[r - Len(mine)]
    <3>1. r = Len(mine) + 1 /\ draft.auth.type = "api-key" /\ Resolve(draft.auth.name) = ContentType
      BY <2>1, <2>4, <2>11
    <3>2. q \in 1 .. Len(mine) /\ list[q] = mine[q]
      BY <1>4, <2>2, <2>9, <3>1
    <3>3. q \in Written
      BY <2>1, <2>3, <3>2
    <3>4. QED
      BY <3>1, <3>3
  <2>12. QED
    BY <2>8, <2>10, <2>11
<1>11. ToSet(payload) = {p}
  BY DEF ToSet, p
<1>12. QED
  BY <1>8, <1>9, <1>10, <1>11, Zenon DEF TypeSaidOnce

\* A row with no reference left in it, and a list of them.
NoRef(r) == r.key # Ref /\ r.value # Ref
NoRefs(s) == \A i \in 1 .. Len(s) : NoRef(s[i])

\* The list of the request: each text of theirs that is sent is looked at.
LEMMA RowsResolve ==
    ASSUME DraftTypeOK, missingRequestVariables(draft) = {}
    PROVE  /\ Resolve(draft.body) # Ref /\ Resolve(draft.url) # Ref
           /\ Resolve(draft.auth.name) # Ref /\ Resolve(draft.auth.secret) # Ref
           /\ \A i \in 1 .. Len(draft.headers) : NoRef(ResolveRow(draft.headers[i]))
           /\ \A i \in 1 .. Len(draft.params) : NoRef(ResolveRow(draft.params[i]))
           /\ \A i \in 1 .. Len(draft.form) :
                /\ Resolve(draft.form[i].key) # Ref
                /\ draft.form[i].kind # "file" => NoRef(ResolveRow(draft.form[i]))
<1>1. {draft.url, draft.body, draft.auth.name, draft.auth.secret} \subseteq TextsOf(draft)
  BY DEF TextsOf
<1>2. /\ draft.headers \in Seq(AnyRow) /\ draft.params \in Seq(AnyRow) /\ draft.form \in Seq(AnyRow)
  BY DEF DraftTypeOK
<1>3. ASSUME NEW s \in Seq(AnyRow), NEW i \in 1 .. Len(s)
      PROVE  s[i] \in ToSet(s) /\ s[i] \in AnyRow
  BY <1>3 DEF ToSet
<1>4. ASSUME NEW r \in ToSet(draft.headers) \cup ToSet(draft.params)
      PROVE  r.key \in TextsOf(draft) /\ r.value \in TextsOf(draft)
  <2> DEFINE S == {{x.key, x.value} : x \in ToSet(draft.params) \cup ToSet(draft.headers)}
  <2>1. {r.key, r.value} \in S
    OBVIOUS
  <2>2. UNION S \subseteq TextsOf(draft)
    BY DEF TextsOf
  <2> HIDE DEF S
  <2>3. QED
    BY <2>1, <2>2
<1>5. ASSUME NEW r \in ToSet(draft.form)
      PROVE  r.key \in TextsOf(draft) /\ (r.kind # "file" => r.value \in TextsOf(draft))
  <2> DEFINE S == {PartTexts(x) : x \in ToSet(draft.form)}
  <2>1. PartTexts(r) \in S
    OBVIOUS
  <2>2. UNION S \subseteq TextsOf(draft)
    BY DEF TextsOf
  <2>3. r.key \in PartTexts(r) /\ (r.kind # "file" => r.value \in PartTexts(r))
    BY DEF PartTexts
  <2> HIDE DEF S
  <2>4. QED
    BY <2>1, <2>2, <2>3
<1>6. ASSUME NEW r \in AnyRow, r.key \in TextsOf(draft), r.value \in TextsOf(draft)
      PROVE  NoRef(ResolveRow(r))
  BY <1>6, ResolvedRow, LookedAtResolves DEF NoRef
<1>7. QED
  BY <1>1, <1>2, <1>3, <1>4, <1>5, <1>6, LookedAtResolves

\* With nothing missing, no header keeps a reference.
LEMMA HeadersResolve ==
    ASSUME DraftTypeOK, missingRequestVariables(draft) = {}
    PROVE  NoRefs(requestHeaderRows(draft))
<1> DEFINE own     == Enabled(draft.headers)
           mine    == ResolveAll(own)
           auth    == authHeaderRows(draft.auth)
           type    == bodyContentType(draft)
           list    == HeadersWith(draft, type, auth)
           sent    == requestHeaderRows(draft)
<1>1. ASSUME NEW i \in 1 .. Len(mine)
      PROVE  NoRef(mine[i])
  <2>1. draft.headers \in Seq(AnyRow)
    BY DEF DraftTypeOK
  <2>2. own \in Seq(AnyRow) /\ Len(mine) = Len(own)
    BY <2>1, EnabledRows, ResolvedRows
  <2>3. PICK p \in 1 .. Len(draft.headers) : own[i] = draft.headers[p]
    BY <2>1, <2>2, EnabledRows
  <2>4. mine[i] = ResolveRow(own[i])
    BY <2>2, ResolvedRows
  <2>5. QED
    BY <2>3, <2>4, RowsResolve
<1>2. ASSUME NEW i \in 1 .. Len(auth)
      PROVE  NoRef(auth[i])
  <2>1. /\ auth[i].value = Resolve(draft.auth.secret)
        /\ auth[i].key = "authorization" \/ auth[i].key = Resolve(draft.auth.name)
    BY AuthRow
  <2>2. "authorization" # Ref
    BY DEF Ref
  <2>3. QED
    BY <2>1, <2>2, RowsResolve DEF NoRef
<1>3. NoRef(Row(TRUE, ContentType, type, "text"))
  <2>1. type # Ref /\ ContentType # Ref
    BY DEF bodyContentType, DraftTypeOK, Ref, Empty, ContentType
  <2>2. QED
    BY <2>1 DEF NoRef, Row
<1>4. \A i \in 1 .. Len(list) :
           \/ i \in 1 .. Len(mine) /\ list[i] = mine[i]
           \/ i - Len(mine) \in 1 .. Len(auth) /\ list[i] = auth[i - Len(mine)]
           \/ list[i] = Row(TRUE, ContentType, type, "text")
  BY HeaderRows, Zenon
<1>5. \A i \in 1 .. Len(sent) : \E q \in 1 .. Len(list) : sent[i] = list[q]
  BY SentHeaders, Zenon
<1> HIDE DEF mine, auth, type, list, sent
<1>6. \A q \in 1 .. Len(list) : NoRef(list[q])
  BY <1>1, <1>2, <1>3, <1>4
<1>7. \A i \in 1 .. Len(sent) : NoRef(sent[i])
  BY <1>5, <1>6
<1>8. QED
  BY <1>7 DEF NoRefs, sent

\* With nothing missing, no field of a form that is sent as a body keeps a reference.
LEMMA BodyResolves ==
    ASSUME DraftTypeOK, missingRequestVariables(draft) = {}
    PROVE  requestBodyFor(draft) = <<>>
             \/ (DOMAIN requestBodyFor(draft) = 1 .. Len(requestBodyFor(draft)) /\ NoRefs(requestBodyFor(draft)))
<1> DEFINE list == Enabled(draft.form)
           P    == {i \in DOMAIN list : list[i].kind = "text"}
           part == Kept(list, P)
           body == requestBodyFor(draft)
<1>1. draft.form \in Seq(AnyRow)
  BY DEF DraftTypeOK
<1>2. list \in Seq(AnyRow) /\ DOMAIN list = 1 .. Len(list)
  BY <1>1, EnabledRows
<1>3. \A i \in 1 .. Len(list) : \E p \in 1 .. Len(draft.form) : list[i] = draft.form[p]
  BY <1>1, EnabledRows
<1>4. \A p \in P : list[p].kind = "text" /\ p \in 1 .. Len(list)
  BY <1>2
<1> HIDE DEF list, P
<1>5. part \in Seq(AnyRow) /\ IsPartOf(part, list, P)
  BY <1>2, KeptElements
<1> HIDE DEF part
<1>6. ResolveAll(part) \in Seq(AnyRow) /\ Len(ResolveAll(part)) = Len(part)
      /\ \A i \in 1 .. Len(part) : ResolveAll(part)[i] = ResolveRow(part[i])
  BY <1>5, ResolvedRows
<1>7. ASSUME NEW i \in 1 .. Len(part)
      PROVE  NoRef(ResolveRow(part[i]))
  <2>1. PICK q \in P \cap (1 .. Len(list)) : part[i] = list[q]
    BY <1>5 DEF IsPartOf
  <2>2. PICK p \in 1 .. Len(draft.form) : list[q] = draft.form[p]
    BY <1>3, <2>1
  <2>3. draft.form[p].kind # "file"
    BY <1>4, <2>1, <2>2
  <2>4. QED
    BY <2>1, <2>2, <2>3, RowsResolve
<1>8. DOMAIN ResolveAll(part) = 1 .. Len(ResolveAll(part)) /\ NoRefs(ResolveAll(part))
  BY <1>6, <1>7 DEF NoRefs
<1> DEFINE one == Row(TRUE, Word, Resolve(draft.body), "text")
<1>9. NoRef(one)
  BY RowsResolve DEF NoRef, Row, Word, Ref
<1> HIDE DEF one
<1>10. DOMAIN <<one>> = 1 .. Len(<<one>>) /\ NoRefs(<<one>>)
  BY <1>9 DEF NoRefs
<1>11. body = <<>> \/ body = ResolveAll(part) \/ body = <<one>>
  BY DEF requestBodyFor, part, P, list, one
<1> HIDE DEF body
<1>12. QED
  BY <1>8, <1>10, <1>11 DEF body

\* With nothing missing, no part of a multipart body keeps a reference.
LEMMA PartsResolve ==
    ASSUME DraftTypeOK, missingRequestVariables(draft) = {}
    PROVE  requestMultipartFor(draft) = <<>>
             \/ (/\ DOMAIN requestMultipartFor(draft) = 1 .. Len(requestMultipartFor(draft))
                 /\ NoRefs(requestMultipartFor(draft)))
<1> DEFINE list  == Enabled(draft.form)
           parts == [i \in DOMAIN list |-> PartOf(list[i])]
           P     == {i \in DOMAIN parts : parts[i].key # Empty}
           stays  == Kept(parts, P)
<1>1. draft.form \in Seq(AnyRow)
  BY DEF DraftTypeOK
<1>2. list \in Seq(AnyRow) /\ DOMAIN list = 1 .. Len(list) /\ Len(list) \in Nat
  BY <1>1, EnabledRows
<1>3. \A i \in 1 .. Len(list) : \E p \in 1 .. Len(draft.form) : list[i] = draft.form[p]
  BY <1>1, EnabledRows
<1> HIDE DEF list
<1>4. ASSUME NEW i \in 1 .. Len(list)
      PROVE  PartOf(list[i]) \in AnyRow /\ NoRef(PartOf(list[i]))
  <2>1. PICK p \in 1 .. Len(draft.form) : list[i] = draft.form[p]
    BY <1>3
  <2>2. draft.form[p] \in AnyRow /\ Resolve(draft.form[p].key) # Ref
    BY <1>1, RowsResolve
  <2>3. CASE draft.form[p].kind = "file"
    <3>1. Resolve(draft.form[p].key) \in Texts /\ Word \in Texts /\ Word # Ref
      BY <2>2, TextsResolve, SomeTexts DEF AnyRow, Word, Ref
    <3>2. PartOf(draft.form[p]) = [draft.form[p] EXCEPT !.key = Resolve(draft.form[p].key), !.value = Word]
      BY <2>3 DEF PartOf
    <3>3. QED
      BY <2>1, <2>2, <3>1, <3>2 DEF AnyRow, NoRef
  <2>4. CASE draft.form[p].kind # "file"
    <3>1. PartOf(draft.form[p]) = ResolveRow(draft.form[p])
      BY <2>4 DEF PartOf
    <3>2. QED
      BY <2>1, <2>2, <2>4, <3>1, ResolvedRow, RowsResolve
  <2>5. QED
    BY <2>3, <2>4
<1>5. parts \in Seq(AnyRow) /\ Len(parts) = Len(list) /\ \A i \in 1 .. Len(parts) : NoRef(parts[i])
  BY <1>2, <1>4
<1> HIDE DEF parts, P
<1>6. stays \in Seq(AnyRow) /\ IsPartOf(stays, parts, P)
  BY <1>5, KeptElements
<1> HIDE DEF stays
<1>7. ASSUME NEW i \in 1 .. Len(stays)
      PROVE  NoRef(stays[i])
  BY <1>5, <1>6 DEF IsPartOf
<1>8. DOMAIN stays = 1 .. Len(stays) /\ NoRefs(stays)
  BY <1>6, <1>7 DEF NoRefs
<1>9. requestMultipartFor(draft) = <<>> \/ requestMultipartFor(draft) = stays
  BY DEF requestMultipartFor, stays, P, parts, list
<1>10. QED
  BY <1>8, <1>9

\* With nothing missing, no parameter of the query keeps a reference.
LEMMA QueryResolves ==
    ASSUME DraftTypeOK, missingRequestVariables(draft) = {}
    PROVE  requestQueryFor(draft) = <<>>
             \/ (DOMAIN requestQueryFor(draft) = 1 .. Len(requestQueryFor(draft)) /\ NoRefs(requestQueryFor(draft)))
<1> DEFINE mine == ResolveAll(draft.params)
           one  == Row(TRUE, Resolve(draft.auth.name), Resolve(draft.auth.secret), "text")
           key  == IF draft.auth.type = "api-key" /\ draft.auth.in = "query" /\ draft.auth.name # Empty
                   THEN <<one>> ELSE <<>>
           all  == mine \o key
<1>1. draft.params \in Seq(AnyRow)
  BY DEF DraftTypeOK
<1>2. mine \in Seq(AnyRow) /\ \A i \in 1 .. Len(mine) : NoRef(mine[i])
  BY <1>1, ResolvedRows, RowsResolve
<1>3. one \in AnyRow /\ NoRef(one)
  <2>1. Resolve(draft.auth.name) \in Texts /\ Resolve(draft.auth.secret) \in Texts
    BY TextsResolve DEF DraftTypeOK
  <2>2. QED
    BY <2>1, ATextRow, RowsResolve DEF NoRef
<1> HIDE DEF mine, one
<1>4. key \in Seq(AnyRow) /\ \A i \in 1 .. Len(key) : NoRef(key[i])
  BY <1>3
<1> HIDE DEF key
<1>5. all \in Seq(AnyRow) /\ \A i \in 1 .. Len(all) : NoRef(all[i])
  <2>1. /\ all \in Seq(AnyRow) /\ Len(all) = Len(mine) + Len(key)
        /\ \A i \in 1 .. Len(mine) + Len(key) : all[i] = IF i <= Len(mine) THEN mine[i] ELSE key[i - Len(mine)]
    BY <1>2, <1>4, ConcatProperties, Zenon
  <2>2. Len(mine) \in Nat /\ Len(key) \in Nat
    BY <1>2, <1>4
  <2> HIDE DEF all
  <2>3. ASSUME NEW i \in 1 .. Len(all)
        PROVE  NoRef(all[i])
    <3>1. CASE i <= Len(mine)
      BY <1>2, <2>1, <2>2, <3>1
    <3>2. CASE i > Len(mine)
      <4>1. i - Len(mine) \in 1 .. Len(key) /\ all[i] = key[i - Len(mine)]
        BY <2>1, <2>2, <3>2
      <4>2. QED
        BY <1>4, <4>1
    <3>3. QED
      BY <2>1, <2>2, <3>1, <3>2
  <2>4. QED
    BY <2>1, <2>3
<1> HIDE DEF all
<1>6. Enabled(all) \in Seq(AnyRow) /\ \A i \in 1 .. Len(Enabled(all)) : NoRef(Enabled(all)[i])
  BY <1>5, EnabledRows
<1>7. DOMAIN Enabled(all) = 1 .. Len(Enabled(all)) /\ NoRefs(Enabled(all))
  BY <1>6 DEF NoRefs
<1>8. requestQueryFor(draft) = <<>> \/ requestQueryFor(draft) = Enabled(all)
  BY DEF requestQueryFor, all, mine, key, one
<1>9. QED
  BY <1>7, <1>8

\* With nothing missing, no reference is left in what is sent.
LEMMA SentResolves ==
    ASSUME DraftTypeOK, missingRequestVariables(draft) = {}, payload = <<buildHttpPayload(draft)>>
    PROVE  SentIsResolved
<1> DEFINE p == buildHttpPayload(draft)
<1>1. /\ p.headers = requestHeaderRows(draft) /\ p.parts = requestMultipartFor(draft)
      /\ p.url = Resolve(draft.url) /\ p.query = requestQueryFor(draft)
      /\ p.body = <<>> \/ p.body = requestBodyFor(draft)
  BY DEF buildHttpPayload
<1>2. ToSet(payload) = {p}
  BY DEF ToSet
<1> HIDE DEF p
<1>3. ASSUME NEW s, s = <<>> \/ (DOMAIN s = 1 .. Len(s) /\ NoRefs(s)), NEW r \in ToSet(s)
      PROVE  r.key # Ref /\ r.value # Ref
  BY <1>3 DEF ToSet, NoRefs, NoRef
<1>4. DOMAIN p.headers = 1 .. Len(p.headers) /\ NoRefs(p.headers)
  <2>1. requestHeaderRows(draft) \in Seq(AnyRow)
    BY SentHeaders
  <2>2. QED
    BY <1>1, <2>1, HeadersResolve
<1>5. \A r \in ToSet(p.headers) \cup ToSet(p.body) \cup ToSet(p.parts) \cup ToSet(p.query) :
        r.key # Ref /\ r.value # Ref
  BY <1>1, <1>3, <1>4, BodyResolves, PartsResolve, QueryResolves
<1>6. p.url # Ref
  BY <1>1, RowsResolve
<1>7. QED
  BY <1>2, <1>5, <1>6 DEF SentIsResolved

\* The rows a draft can have at first have the types of rows.
LEMMA RowsAtFirst ==
    ASSUME NEW keys \in SUBSET Texts, NEW kinds \in SUBSET {"text", "file"}, NEW most \in Nat
    PROVE  Given(keys, kinds, most) \subseteq Seq(AnyRow)
<1>1. RowsOf(keys, kinds) \subseteq AnyRow
  <2>1. SUFFICES ASSUME NEW r \in RowsOf(keys, kinds) PROVE r \in AnyRow
    OBVIOUS
  <2>2. PICK e \in BOOLEAN, k \in keys, v \in {Word, Ref}, kind \in kinds : r = Row(e, k, v, kind)
    BY <2>1 DEF RowsOf
  <2>3. k \in Texts /\ v \in Texts /\ kind \in {"text", "file"}
    BY <2>2 DEF Texts
  <2>4. QED
    BY <2>2, <2>3 DEF Row, AnyRow
<1>2. QED
  BY <1>1 DEF Given, BoundedSeq, SeqOf

\* A draft made of such rows has the types of a draft.
LEMMA DraftsFit ==
    ASSUME NEW modes \in SUBSET {"none", "json", "form"}, NEW bodies \in SUBSET Texts,
           NEW headers \in SUBSET Seq(AnyRow), NEW params \in SUBSET Seq(AnyRow),
           NEW fields \in SUBSET Seq(AnyRow), draft \in Drafts(modes, headers, params, fields, bodies)
    PROVE  /\ draft.mode \in {"none", "json", "form"} /\ draft.url = Word /\ draft.body \in Texts
           /\ draft.headers \in Seq(AnyRow) /\ draft.params \in Seq(AnyRow) /\ draft.form \in Seq(AnyRow)
           /\ draft.auth.name \in Texts /\ draft.auth.secret \in Texts
<1>1. /\ draft.mode \in modes /\ draft.url = Word /\ draft.body \in bodies /\ draft.headers \in headers
      /\ draft.params \in params /\ draft.form \in fields /\ draft.auth \in Auths
  BY DEF Drafts
<1>2. draft.auth.name \in Texts /\ draft.auth.secret \in Texts
  <2>1. PICK t \in {"none", "bearer", "basic", "api-key"}, l \in {"header", "query"},
             n \in {Empty, ContentType, Ref}, s \in {Empty, Ref} :
               draft.auth = [type |-> t, in |-> l, name |-> n, secret |-> s]
    BY <1>1 DEF Auths
  <2>2. QED
    BY <2>1 DEF Texts
<1>3. QED
  BY <1>1, <1>2

\* Of the scopes that define the variable there is a last one.
LEMMA VariableAtFirst ==
    ASSUME MessageInit
    PROVE  Variable \in Texts
<1>1. CASE Defined = {}
  BY <1>1 DEF Variable, Texts
<1>2. CASE Defined # {}
  <2>1. DOMAIN scoped = 1 .. Scopes /\ Scopes \in Nat
    BY MessageAssumption DEF MessageInit
  <2>2. Defined \subseteq Nat /\ \A n \in Defined : n <= Scopes
    BY <2>1 DEF Defined
  <2>3. \E i \in Defined : \A j \in Defined : j <= i
    BY <1>2, <2>1, <2>2, GreatestNumber
  <2> DEFINE last == CHOOSE i \in Defined : \A j \in Defined : j <= i
  <2>4. last \in Defined
    BY <2>3
  <2> HIDE DEF last
  <2>5. Variable = scoped[last][1].value
    BY <1>2 DEF Variable, last
  <2>6. last \in 1 .. Scopes /\ scoped[last] # <<>>
    BY <2>1, <2>4 DEF Defined
  <2>7. scoped[last] \in {<<>>, <<[enabled |-> FALSE, value |-> Word]>>, <<[enabled |-> TRUE, value |-> Empty]>>,
                          <<[enabled |-> TRUE, value |-> ContentType]>>}
    BY <2>6 DEF MessageInit
  <2>8. scoped[last][1].value \in {Word, Empty, ContentType}
    BY <2>6, <2>7
  <2>9. QED
    BY <2>5, <2>8, SomeTexts
<1>3. QED
  BY <1>1, <1>2

\* So has every draft there is at first.
LEMMA DraftAtFirst ==
    ASSUME MessageInit
    PROVE  DraftTypeOK
<1>1. PICK most \in 0 .. MaxGiven :
        LET headers == Given({ContentType, Ref}, {"text"}, most)
            rest    == MaxGiven - most
        IN  \/ draft \in Drafts({"none", "json"}, headers, {<<>>}, {<<>>}, {Word, Ref})
            \/ draft \in Drafts({"none"}, headers, Given({Word, Ref}, {"text"}, rest), {<<>>}, {Word})
            \/ draft \in Drafts({"form"}, headers, {<<>>}, Given({Word, Ref}, {"text", "file"}, rest), {Word})
  BY DEF MessageInit
<1> DEFINE headers == Given({ContentType, Ref}, {"text"}, most)
           params  == Given({Word, Ref}, {"text"}, MaxGiven - most)
           fields   == Given({Word, Ref}, {"text", "file"}, MaxGiven - most)
           none    == {<<>>}
<1>2. most \in Nat /\ MaxGiven - most \in Nat
  BY <1>1, MessageAssumption
<1>3. /\ {ContentType, Ref} \in SUBSET Texts /\ {Word, Ref} \in SUBSET Texts /\ {Word} \in SUBSET Texts
      /\ {"text"} \in SUBSET {"text", "file"} /\ {"text", "file"} \in SUBSET {"text", "file"}
      /\ {"none", "json"} \in SUBSET {"none", "json", "form"} /\ {"none"} \in SUBSET {"none", "json", "form"}
      /\ {"form"} \in SUBSET {"none", "json", "form"}
  BY DEF Texts
<1>4. headers \in SUBSET Seq(AnyRow) /\ params \in SUBSET Seq(AnyRow) /\ fields \in SUBSET Seq(AnyRow)
  BY <1>2, <1>3, RowsAtFirst
<1>5. none \in SUBSET Seq(AnyRow)
  OBVIOUS
<1>6. \/ draft \in Drafts({"none", "json"}, headers, none, none, {Word, Ref})
      \/ draft \in Drafts({"none"}, headers, params, none, {Word})
      \/ draft \in Drafts({"form"}, headers, none, fields, {Word})
  BY <1>1
<1> HIDE DEF headers, params, fields, none
<1>7. /\ draft.mode \in {"none", "json", "form"} /\ draft.url = Word /\ draft.body \in Texts
      /\ draft.headers \in Seq(AnyRow) /\ draft.params \in Seq(AnyRow) /\ draft.form \in Seq(AnyRow)
      /\ draft.auth.name \in Texts /\ draft.auth.secret \in Texts
  <2>1. CASE draft \in Drafts({"none", "json"}, headers, none, none, {Word, Ref})
    BY <1>3, <1>4, <1>5, <2>1, DraftsFit
  <2>2. CASE draft \in Drafts({"none"}, headers, params, none, {Word})
    BY <1>3, <1>4, <1>5, <2>2, DraftsFit
  <2>3. CASE draft \in Drafts({"form"}, headers, none, fields, {Word})
    BY <1>3, <1>4, <1>5, <2>3, DraftsFit
  <2>4. QED
    BY <1>6, <2>1, <2>2, <2>3
<1>8. QED
  BY <1>7, VariableAtFirst DEF DraftTypeOK

\* The request and what its variables stand for stay as they are.
LEMMA DraftStays ==
    ASSUME MessageInv, [MessageNext]_messageVars
    PROVE  /\ DraftTypeOK' /\ buildHttpPayload(draft)' = buildHttpPayload(draft)
           /\ missingRequestVariables(draft)' = missingRequestVariables(draft)
           /\ \/ payload' = payload
              \/ payload' = <<buildHttpPayload(draft)>> /\ missingRequestVariables(draft) = {}
<1>1. draft' = draft /\ scoped' = scoped
  BY DEF MessageNext, Build, messageVars
<1>2. Variable' = Variable
  BY <1>1 DEF Variable, Defined
<1>3. DraftTypeOK'
  BY <1>1, <1>2 DEF DraftTypeOK, MessageInv
<1>4. \A t : Resolve(t)' = Resolve(t)
  BY <1>2 DEF Resolve
<1>5. missingRequestVariables(draft)' = missingRequestVariables(draft)
  BY <1>1, <1>2 DEF missingRequestVariables, Missing, TextsOf, PartTexts
<1>6. buildHttpPayload(draft)' = buildHttpPayload(draft)
  BY <1>1, <1>2 DEF buildHttpPayload, requestMultipartFor, requestBodyFor, requestHeaderRows, requestQueryFor,
     PartOf, HeadersWith, authHeaderRows, ResolveAll, ResolveRow, Resolve, bodyContentType
<1>7. QED
  BY <1>3, <1>5, <1>6 DEF MessageNext, Build, messageVars

\* For every draft with any of the rows, bodies and kinds of authorisation: the message that
\* is sent names its content type once, and has no reference that was not replaced by its
\* value (buildHttpPayload, requestHeaderRows, missingRequestVariables).
THEOREM MessageIsSound == MessageSpec => []MessageSound
<1>1. MessageInit => MessageInv
  BY DraftAtFirst DEF MessageInit, MessageInv
<1>2. MessageInv /\ [MessageNext]_messageVars => MessageInv'
  BY DraftStays DEF MessageInv
<1>3. MessageInv => MessageSound
  <2>1. CASE payload = <<>>
    BY <2>1 DEF MessageSound, TypeSaidOnce, SentIsResolved, ToSet
  <2>2. QED
    BY <2>1, SaidOnce, SentResolves DEF MessageInv, MessageSound
<1>4. QED
  BY <1>1, <1>2, <1>3, PTL DEF MessageSpec

(* The tree of the console (HttpTree).                                     *)

\* Every two elements of s are related by B.
Pairwise(s, B) == \A j, m \in 1 .. Len(s) : j # m => <<s[j], s[m]>> \in B

\* e is related by B to the elements of X, and they to it.
Fits(e, X, B) == \A x \in X : <<x, e>> \in B /\ <<e, x>> \in B

\* s with e at place i.
Put(s, i, e) == [k \in DOMAIN s |-> IF k = i THEN e ELSE s[k]]

\* The elements of s at the other places than i.
Others(s, i) == {s[k] : k \in (1 .. Len(s)) \ {i}}

\* The elements of a sequence are those at its places.
LEMMA SetOfList ==
    ASSUME NEW S, NEW s \in Seq(S)
    PROVE  /\ DOMAIN s = 1 .. Len(s) /\ Len(s) \in Nat
           /\ ToSet(s) = {s[i] : i \in 1 .. Len(s)} /\ ToSet(s) \subseteq S
  BY DEF ToSet

\* An element put into a list leaves the others there, in pairs as before.
LEMMA InsertedElement ==
    ASSUME NEW S, NEW s \in Seq(S), NEW e \in S, NEW i \in 1 .. Len(s) + 1, NEW B
    PROVE  /\ InsertAt(s, i, e) \in Seq(S) /\ ToSet(InsertAt(s, i, e)) = ToSet(s) \cup {e}
           /\ Pairwise(s, B) /\ Fits(e, ToSet(s), B) => Pairwise(InsertAt(s, i, e), B)
<1> DEFINE n == Len(s)
           q == InsertAt(s, i, e)
<1>1. n \in Nat /\ i \in Nat /\ 1 <= i /\ i <= n + 1
  OBVIOUS
<1>2. /\ q \in Seq(S) /\ Len(q) = n + 1
      /\ \A k \in 1 .. n + 1 : q[k] = IF k < i THEN s[k] ELSE IF k = i THEN e ELSE s[k - 1]
  <2> DEFINE a == SubSeq(s, 1, i - 1)
             c == SubSeq(s, i, n)
             b == a \o <<e>>
  <2>1. a \in Seq(S) /\ Len(a) = i - 1 /\ \A k \in 1 .. i - 1 : a[k] = s[k]
    <3>1. \A k \in 1 .. i - 1 : s[k] \in S
      BY <1>1
    <3>2. /\ a \in Seq(S) /\ Len(a) = IF 1 <= i - 1 THEN i - 1 - 1 + 1 ELSE 0
          /\ \A k \in 1 .. (i - 1 - 1 + 1) : a[k] = s[1 + k - 1]
      BY <1>1, <3>1, SubSeqProperties
    <3>3. QED
      BY <1>1, <3>2
  <2>2. c \in Seq(S) /\ Len(c) = n + 1 - i /\ \A k \in 1 .. n + 1 - i : c[k] = s[i + k - 1]
    <3>1. \A k \in i .. n : s[k] \in S
      BY <1>1
    <3>2. /\ c \in Seq(S) /\ Len(c) = IF i <= n THEN n - i + 1 ELSE 0
          /\ \A k \in 1 .. (n - i + 1) : c[k] = s[i + k - 1]
      BY <1>1, <3>1, SubSeqProperties
    <3>3. QED
      BY <1>1, <3>2
  <2>3. \A u, v \in Seq(S) :
          /\ u \o v \in Seq(S) /\ Len(u \o v) = Len(u) + Len(v)
          /\ \A k \in 1 .. Len(u) + Len(v) : (u \o v)[k] = IF k <= Len(u) THEN u[k] ELSE v[k - Len(u)]
    OBVIOUS
  <2> HIDE DEF a, c
  <2>4. <<e>> \in Seq(S) /\ Len(<<e>>) = 1 /\ <<e>>[1] = e
    OBVIOUS
  <2>5. b \in Seq(S) /\ Len(b) = i /\ \A k \in 1 .. i : b[k] = IF k < i THEN s[k] ELSE e
    <3>1. /\ b \in Seq(S) /\ Len(b) = i - 1 + 1
          /\ \A k \in 1 .. i - 1 + 1 : b[k] = IF k <= i - 1 THEN a[k] ELSE <<e>>[k - (i - 1)]
      BY <2>1, <2>3, <2>4
    <3>2. QED
      BY <1>1, <2>1, <2>4, <3>1
  <2> HIDE DEF b
  <2>6. q = b \o c
    BY DEF InsertAt, a, b, c
  <2>7. /\ b \o c \in Seq(S) /\ Len(b \o c) = i + (n + 1 - i)
        /\ \A k \in 1 .. i + (n + 1 - i) : (b \o c)[k] = IF k <= i THEN b[k] ELSE c[k - i]
    <3>1. b \in Seq(S) /\ c \in Seq(S) /\ Len(b) = i /\ Len(c) = n + 1 - i
      BY <2>2, <2>5
    <3>2. /\ b \o c \in Seq(S) /\ Len(b \o c) = Len(b) + Len(c)
          /\ \A k \in 1 .. Len(b) + Len(c) :
               (b \o c)[k] = IF k <= Len(b) THEN b[k] ELSE c[k - Len(b)]
      BY <2>3, <3>1, Zenon
    <3>3. QED
      BY <3>1, <3>2
  <2> HIDE DEF q
  <2>8. ASSUME NEW k \in 1 .. n + 1
        PROVE  q[k] = IF k < i THEN s[k] ELSE IF k = i THEN e ELSE s[k - 1]
    <3>1. k \in 1 .. i + (n + 1 - i)
      BY <1>1
    <3>2. q[k] = IF k <= i THEN b[k] ELSE c[k - i]
      BY <2>6, <2>7, <3>1, Zenon
    <3>3. CASE k <= i
      BY <1>1, <2>5, <3>2, <3>3
    <3>4. CASE k > i
      <4>1. k - i \in 1 .. n + 1 - i /\ i + (k - i) - 1 = k - 1 /\ ~(k <= i) /\ k # i /\ ~(k < i)
        BY <1>1, <3>4
      <4>2. QED
        BY <2>2, <3>2, <4>1
    <3>5. QED
      BY <1>1, <3>3, <3>4
  <2>9. QED
    BY <1>1, <2>6, <2>7, <2>8
<1> HIDE DEF q
<1>3. ToSet(q) = {q[k] : k \in 1 .. n + 1} /\ ToSet(s) = {s[k] : k \in 1 .. n}
  BY <1>2, SetOfList
<1>4. \A k \in 1 .. n + 1 : q[k] \in ToSet(s) \cup {e}
  <2>1. \A k \in 1 .. n + 1 : k = i \/ (k < i /\ k \in 1 .. n) \/ (k > i /\ k - 1 \in 1 .. n)
    BY <1>1
  <2>2. QED
    BY <1>2, <1>3, <2>1
<1>5. e \in ToSet(q) /\ \A k \in 1 .. n : s[k] \in ToSet(q)
  <2>1. e \in ToSet(q)
    BY <1>1, <1>2, <1>3
  <2>2. ASSUME NEW k \in 1 .. n PROVE s[k] \in ToSet(q)
    <3>1. CASE k < i
      BY <1>1, <1>2, <1>3, <3>1
    <3>2. CASE ~(k < i)
      <4>1. k + 1 \in 1 .. n + 1 /\ ~(k + 1 < i) /\ k + 1 # i /\ k + 1 - 1 = k
        BY <1>1, <3>2
      <4>2. QED
        <5>1. q[k + 1] = s[k]
          BY <1>2, <4>1
        <5>2. QED
          BY <1>3, <4>1, <5>1
    <3>3. QED
      BY <3>1, <3>2
  <2>3. QED
    BY <2>1, <2>2
<1>6. ToSet(q) = ToSet(s) \cup {e}
  BY <1>3, <1>4, <1>5
<1>7. ASSUME Pairwise(s, B), Fits(e, ToSet(s), B) PROVE Pairwise(q, B)
  <2>1. ASSUME NEW k \in 1 .. n + 1, NEW m \in 1 .. n + 1, k # m PROVE <<q[k], q[m]>> \in B
    <3>1. PICK f \in [1 .. n + 1 -> Nat] :
            \A j \in 1 .. n + 1 : f[j] = IF j < i THEN j ELSE j - 1
      <4>1. [j \in 1 .. n + 1 |-> IF j < i THEN j ELSE j - 1] \in [1 .. n + 1 -> Nat]
        OBVIOUS
      <4>2. QED
        BY <4>1
    <3>2. \A j \in 1 .. n + 1 : j # i => f[j] \in 1 .. n /\ q[j] = s[f[j]]
      BY <1>1, <1>2, <3>1
    <3>3. CASE k = i
      <4>1. q[m] \in ToSet(s) /\ q[k] = e
        BY <1>1, <1>2, <1>3, <2>1, <3>2, <3>3
      <4>2. QED
        BY <1>7, <4>1 DEF Fits
    <3>4. CASE m = i
      <4>1. q[k] \in ToSet(s) /\ q[m] = e
        BY <1>1, <1>2, <1>3, <2>1, <3>2, <3>4
      <4>2. QED
        BY <1>7, <4>1 DEF Fits
    <3>5. CASE k # i /\ m # i
      <4>1. f[k] # f[m]
        BY <1>1, <2>1, <3>1, <3>5
      <4>2. QED
        BY <1>7, <3>2, <3>5, <4>1 DEF Pairwise
    <3>6. QED
      BY <3>3, <3>4, <3>5
  <2>2. QED
    BY <1>2, <2>1 DEF Pairwise
<1>8. QED
  BY <1>2, <1>6, <1>7 DEF q

\* InsertedElement, for what is known of the list and of the element.
LEMMA InsertedPairs ==
    ASSUME NEW S, NEW s \in Seq(S), NEW e \in S, NEW i \in 1 .. Len(s) + 1, NEW B,
           Pairwise(s, B), Fits(e, ToSet(s), B)
    PROVE  Pairwise(InsertAt(s, i, e), B)
  BY InsertedElement

\* So does an element put at the end.
LEMMA AppendedElement ==
    ASSUME NEW S, NEW s \in Seq(S), NEW e \in S, NEW B
    PROVE  /\ Append(s, e) \in Seq(S) /\ ToSet(Append(s, e)) = ToSet(s) \cup {e}
           /\ Pairwise(s, B) /\ Fits(e, ToSet(s), B) => Pairwise(Append(s, e), B)
<1> DEFINE n == Len(s)
           q == Append(s, e)
<1>1. /\ n \in Nat /\ q \in Seq(S) /\ Len(q) = n + 1 /\ q[n + 1] = e
      /\ \A k \in 1 .. n : q[k] = s[k]
      /\ \A k \in 1 .. n + 1 : k = n + 1 \/ k \in 1 .. n
  OBVIOUS
<1> HIDE DEF q
<1>2. ToSet(q) = {q[k] : k \in 1 .. n + 1} /\ ToSet(s) = {s[k] : k \in 1 .. n}
  BY <1>1, SetOfList
<1>3. n + 1 \in 1 .. n + 1 /\ n + 1 \notin 1 .. n /\ 1 .. n \subseteq 1 .. n + 1
  BY <1>1
<1>4. ToSet(q) = ToSet(s) \cup {e}
  BY <1>1, <1>2, <1>3
<1>5. ASSUME Pairwise(s, B), Fits(e, ToSet(s), B) PROVE Pairwise(q, B)
  <2>1. ASSUME NEW k \in 1 .. n + 1, NEW m \in 1 .. n + 1, k # m PROVE <<q[k], q[m]>> \in B
    <3>1. CASE k \in 1 .. n /\ m \in 1 .. n
      BY <1>1, <1>5, <2>1, <3>1 DEF Pairwise
    <3>2. CASE k = n + 1
      BY <1>1, <1>2, <1>5, <2>1, <3>2 DEF Fits
    <3>3. CASE m = n + 1
      BY <1>1, <1>2, <1>5, <2>1, <3>3 DEF Fits
    <3>4. QED
      BY <1>1, <3>1, <3>2, <3>3
  <2>2. QED
    BY <1>1, <2>1 DEF Pairwise
<1>6. QED
  BY <1>1, <1>4, <1>5 DEF q

\* What is kept of a list stays in pairs as before.
LEMMA KeptPairs ==
    ASSUME NEW S, NEW s \in Seq(S), NEW P, NEW B
    PROVE  /\ Kept(s, P) \in Seq(S) /\ ToSet(Kept(s, P)) = {s[i] : i \in P \cap (1 .. Len(s))}
           /\ Pairwise(s, B) => Pairwise(Kept(s, P), B)
<1> DEFINE q == Kept(s, P)
<1>1. q \in Seq(S) /\ IsPartOf(q, s, P)
  BY KeptElements
<1> HIDE DEF q
<1>2. ToSet(q) = {q[k] : k \in 1 .. Len(q)}
  BY <1>1, SetOfList
<1>3. ToSet(q) = {s[i] : i \in P \cap (1 .. Len(s))}
  <2>1. \A k \in 1 .. Len(q) : \E i \in P \cap (1 .. Len(s)) : q[k] = s[i]
    BY <1>1 DEF IsPartOf
  <2>2. \A i \in P \cap (1 .. Len(s)) : \E k \in 1 .. Len(q) : q[k] = s[i]
    BY <1>1 DEF IsPartOf
  <2>3. ToSet(q) \subseteq {s[i] : i \in P \cap (1 .. Len(s))}
    BY <1>2, <2>1, Zenon
  <2>4. {s[i] : i \in P \cap (1 .. Len(s))} \subseteq ToSet(q)
    BY <1>2, <2>2, Zenon
  <2>5. QED
    BY <2>3, <2>4
<1>4. ASSUME Pairwise(s, B) PROVE Pairwise(q, B)
  <2>1. ASSUME NEW k \in 1 .. Len(q), NEW m \in 1 .. Len(q), k # m PROVE <<q[k], q[m]>> \in B
    <3>1. \E a, b \in P \cap (1 .. Len(s)) : a # b /\ q[k] = s[a] /\ q[m] = s[b]
      <4>1. k < m \/ m < k
        BY <1>1, <2>1
      <4>2. CASE k < m
        <5>1. PICK a, b \in P \cap (1 .. Len(s)) : a < b /\ q[k] = s[a] /\ q[m] = s[b]
          BY <1>1, <4>2 DEF IsPartOf
        <5>2. a # b
          BY <5>1
        <5>3. QED
          BY <5>1, <5>2
      <4>3. CASE m < k
        <5>1. PICK a, b \in P \cap (1 .. Len(s)) : a < b /\ q[m] = s[a] /\ q[k] = s[b]
          BY <1>1, <4>3 DEF IsPartOf
        <5>2. a # b
          BY <5>1
        <5>3. QED
          BY <5>1, <5>2
      <4>4. QED
        BY <4>1, <4>2, <4>3
    <3>2. QED
      BY <1>4, <3>1 DEF Pairwise
  <2>2. QED
    BY <2>1 DEF Pairwise
<1>5. QED
  BY <1>1, <1>3, <1>4 DEF q

\* An element that replaces another does so too.
LEMMA ReplacedElement ==
    ASSUME NEW S, NEW s \in Seq(S), NEW e \in S, NEW i \in 1 .. Len(s), NEW B
    PROVE  /\ Put(s, i, e) \in Seq(S) /\ Len(Put(s, i, e)) = Len(s)
           /\ ToSet(Put(s, i, e)) = Others(s, i) \cup {e}
           /\ Pairwise(s, B) /\ Fits(e, Others(s, i), B) => Pairwise(Put(s, i, e), B)
<1> DEFINE n == Len(s)
           q == Put(s, i, e)
<1>1. /\ n \in Nat /\ q \in Seq(S) /\ Len(q) = n /\ q[i] = e
      /\ \A k \in 1 .. n : k # i => q[k] = s[k]
  BY DEF Put
<1> HIDE DEF q
<1>2. ToSet(q) = {q[k] : k \in 1 .. n}
  BY <1>1, SetOfList
<1>3. ToSet(q) = Others(s, i) \cup {e} /\ Others(s, i) = {s[k] : k \in (1 .. n) \ {i}}
  BY <1>1, <1>2 DEF Others
<1>4. ASSUME Pairwise(s, B), Fits(e, Others(s, i), B) PROVE Pairwise(q, B)
  <2>1. ASSUME NEW k \in 1 .. n, NEW m \in 1 .. n, k # m PROVE <<q[k], q[m]>> \in B
    <3>1. CASE k # i /\ m # i
      BY <1>1, <1>4, <2>1, <3>1 DEF Pairwise
    <3>2. CASE k = i
      BY <1>1, <1>3, <1>4, <2>1, <3>2 DEF Fits
    <3>3. CASE m = i
      BY <1>1, <1>3, <1>4, <2>1, <3>3 DEF Fits
    <3>4. QED
      BY <3>1, <3>2, <3>3
  <2>2. QED
    BY <1>1, <2>1 DEF Pairwise
<1>5. QED
  BY <1>1, <1>3, <1>4 DEF q

\* Two requests of a list, projects of a workspace and workspaces of a tree.
Differ == {b \in Nat \X Nat : b[1] # b[2]}
ProjectPairs == {b \in Projects \X Projects :
    b[1].id # b[2].id /\ ToSet(b[1].requests) \cap ToSet(b[2].requests) = {}}
WorkspacePairs == {b \in Workspaces \X Workspaces :
    b[1].id # b[2].id /\ WorkspaceRequests(b[1]) \cap WorkspaceRequests(b[2]) = {}}

\* A project and a workspace whose requests are each at one place, and a tree of such.
GoodProjects == {p \in Projects : p.id # None /\ Pairwise(p.requests, Differ)}
GoodWorkspaces == {ws \in Workspaces :
    /\ Pairwise(ws.requests, Differ)
    /\ ws.projects \in Seq(GoodProjects) /\ Pairwise(ws.projects, ProjectPairs)
    /\ \A p \in ToSet(ws.projects) : ToSet(ws.requests) \cap ToSet(p.requests) = {}}
Forest(t) == t \in Seq(GoodWorkspaces) /\ Pairwise(t, WorkspacePairs)

\* The ids of a workspace and its projects.
Names(ws) == {ws.id} \cup {p.id : p \in ToSet(ws.projects)}

\* ws with q in place of its list p.
WithList(ws, p, q) ==
    IF p = None THEN [ws EXCEPT !.requests = q]
    ELSE [ws EXCEPT !.projects =
            [i \in DOMAIN ws.projects |->
                IF ws.projects[i].id = p
                THEN [ws.projects[i] EXCEPT !.requests = q] ELSE ws.projects[i]]]

\* The item with an id is at one place, if ids differ.
LEMMA ItemPlace ==
    ASSUME NEW S, NEW s \in Seq(S), NEW id, HasItem(s, id),
           \A j, m \in 1 .. Len(s) : s[j].id = s[m].id => j = m
    PROVE  \E i \in 1 .. Len(s) :
              /\ ItemAt(s, id) = s[i] /\ s[i].id = id
              /\ \A k \in 1 .. Len(s) : s[k].id = id <=> k = i
<1>1. ToSet(s) = {s[k] : k \in 1 .. Len(s)}
  BY SetOfList
<1>2. ItemAt(s, id) \in ToSet(s) /\ ItemAt(s, id).id = id
  BY DEF HasItem, ItemAt
<1>3. PICK i \in 1 .. Len(s) : ItemAt(s, id) = s[i]
  BY <1>1, <1>2
<1>4. QED
  BY <1>2, <1>3

\* The parts of a good workspace.
LEMMA GoodParts ==
    ASSUME NEW ws \in GoodWorkspaces
    PROVE  /\ ws \in Workspaces /\ ws.id \in Nat /\ ws.requests \in Seq(Nat)
           /\ ws.projects \in Seq(GoodProjects) /\ ws.projects \in Seq(Projects)
           /\ \A j, m \in 1 .. Len(ws.projects) : ws.projects[j].id = ws.projects[m].id => j = m
<1>1. ws \in Workspaces /\ ws.projects \in Seq(GoodProjects) /\ Pairwise(ws.projects, ProjectPairs)
  BY DEF GoodWorkspaces
<1>2. ws.id \in Nat /\ ws.requests \in Seq(Nat) /\ ws.projects \in Seq(Projects)
  BY <1>1 DEF Workspaces
<1>3. \A j, m \in 1 .. Len(ws.projects) : ws.projects[j].id = ws.projects[m].id => j = m
  BY <1>1 DEF Pairwise, ProjectPairs
<1>4. QED
  BY <1>1, <1>2, <1>3

\* A list of a workspace is its own or that of one of its projects.
LEMMA ListPlace ==
    ASSUME NEW ws \in GoodWorkspaces, NEW p, HasList(ws, p)
    PROVE  /\ ListOf(ws, p) \in Seq(Nat) /\ Pairwise(ListOf(ws, p), Differ)
           /\ ToSet(ListOf(ws, p)) \subseteq WorkspaceRequests(ws)
           /\ p # None => \E i \in 1 .. Len(ws.projects) :
                 /\ ListOf(ws, p) = ws.projects[i].requests /\ ws.projects[i].id = p
                 /\ \A k \in 1 .. Len(ws.projects) : ws.projects[k].id = p <=> k = i
<1>1. CASE p = None
  BY <1>1, GoodParts DEF ListOf, WorkspaceRequests, GoodWorkspaces
<1>2. CASE p # None
  <2>1. HasItem(ws.projects, p)
    BY <1>2 DEF HasList
  <2>2. PICK i \in 1 .. Len(ws.projects) :
          /\ ItemAt(ws.projects, p) = ws.projects[i] /\ ws.projects[i].id = p
          /\ \A k \in 1 .. Len(ws.projects) : ws.projects[k].id = p <=> k = i
    BY <2>1, GoodParts, ItemPlace
  <2>3. ListOf(ws, p) = ws.projects[i].requests
    BY <1>2, <2>2 DEF ListOf
  <2>4. ws.projects[i] \in GoodProjects /\ ws.projects[i] \in ToSet(ws.projects)
    BY GoodParts, SetOfList
  <2>5. ws.projects[i].requests \in Seq(Nat) /\ Pairwise(ws.projects[i].requests, Differ)
    BY <2>4 DEF GoodProjects, Projects
  <2>6. ToSet(ws.projects[i].requests) \subseteq WorkspaceRequests(ws)
    BY <2>4 DEF WorkspaceRequests
  <2>7. QED
    BY <2>2, <2>3, <2>5, <2>6
<1>3. QED
  BY <1>1, <1>2

\* What the panel does to a list of a workspace puts another in its place.
LEMMA ListAppended ==
    ASSUME NEW ws \in GoodWorkspaces, NEW p, HasList(ws, p), NEW x
    PROVE  OnList(ws, p, LAMBDA q : Append(q, x)) = WithList(ws, p, Append(ListOf(ws, p), x))
<1>1. CASE p = None
  BY <1>1 DEF OnList, WithList, ListOf
<1>2. CASE p # None
  <2>1. \A i \in DOMAIN ws.projects : ws.projects[i].id = p => ListOf(ws, p) = ws.projects[i].requests
    BY <1>2, ListPlace, GoodParts
  <2>2. \A i \in DOMAIN ws.projects :
          (IF ws.projects[i].id = p
           THEN [ws.projects[i] EXCEPT !.requests = Append(ws.projects[i].requests, x)]
           ELSE ws.projects[i])
          = (IF ws.projects[i].id = p
             THEN [ws.projects[i] EXCEPT !.requests = Append(ListOf(ws, p), x)] ELSE ws.projects[i])
    BY <2>1
  <2>3. QED
    BY <1>2, <2>2 DEF OnList, WithList
<1>3. QED
  BY <1>1, <1>2

\* A list of a workspace without some of its requests.
LEMMA ListDropped ==
    ASSUME NEW ws \in GoodWorkspaces, NEW p, HasList(ws, p), NEW x
    PROVE  OnList(ws, p, LAMBDA q : Drop(q, x)) = WithList(ws, p, Drop(ListOf(ws, p), x))
<1>1. CASE p = None
  BY <1>1 DEF OnList, WithList, ListOf
<1>2. CASE p # None
  <2>1. \A i \in DOMAIN ws.projects : ws.projects[i].id = p => ListOf(ws, p) = ws.projects[i].requests
    BY <1>2, ListPlace, GoodParts
  <2>2. \A i \in DOMAIN ws.projects :
          (IF ws.projects[i].id = p
           THEN [ws.projects[i] EXCEPT !.requests = Drop(ws.projects[i].requests, x)]
           ELSE ws.projects[i])
          = (IF ws.projects[i].id = p
             THEN [ws.projects[i] EXCEPT !.requests = Drop(ListOf(ws, p), x)] ELSE ws.projects[i])
    BY <2>1
  <2>3. QED
    BY <1>2, <2>2 DEF OnList, WithList
<1>3. QED
  BY <1>1, <1>2

\* A list of a workspace with a request put into it.
LEMMA ListInserted ==
    ASSUME NEW ws \in GoodWorkspaces, NEW p, HasList(ws, p), NEW x, NEW at
    PROVE  OnList(ws, p, LAMBDA q : InsertAt(q, at, x)) = WithList(ws, p, InsertAt(ListOf(ws, p), at, x))
<1>1. CASE p = None
  BY <1>1 DEF OnList, WithList, ListOf
<1>2. CASE p # None
  <2>1. \A i \in DOMAIN ws.projects : ws.projects[i].id = p => ListOf(ws, p) = ws.projects[i].requests
    BY <1>2, ListPlace, GoodParts
  <2>2. \A i \in DOMAIN ws.projects :
          (IF ws.projects[i].id = p
           THEN [ws.projects[i] EXCEPT !.requests = InsertAt(ws.projects[i].requests, at, x)]
           ELSE ws.projects[i])
          = (IF ws.projects[i].id = p
             THEN [ws.projects[i] EXCEPT !.requests = InsertAt(ListOf(ws, p), at, x)]
             ELSE ws.projects[i])
    BY <2>1
  <2>3. QED
    BY <1>2, <2>2 DEF OnList, WithList
<1>3. QED
  BY <1>1, <1>2

\* A list with the copy of a request after it.
LEMMA CopyInserted ==
    ASSUME NEW ws \in GoodWorkspaces, NEW p, HasList(ws, p), NEW x, NEW r
    PROVE  OnList(ws, p, LAMBDA q : InsertAt(q, IndexIn(q, r) + 1, x))
             = WithList(ws, p, InsertAt(ListOf(ws, p), IndexIn(ListOf(ws, p), r) + 1, x))
<1>1. CASE p = None
  BY <1>1 DEF OnList, WithList, ListOf
<1>2. CASE p # None
  <2>1. \A i \in DOMAIN ws.projects : ws.projects[i].id = p => ListOf(ws, p) = ws.projects[i].requests
    BY <1>2, ListPlace, GoodParts
  <2>2. \A i \in DOMAIN ws.projects :
          (IF ws.projects[i].id = p
           THEN [ws.projects[i] EXCEPT !.requests =
                   InsertAt(ws.projects[i].requests, IndexIn(ws.projects[i].requests, r) + 1, x)]
           ELSE ws.projects[i])
          = (IF ws.projects[i].id = p
             THEN [ws.projects[i] EXCEPT !.requests =
                     InsertAt(ListOf(ws, p), IndexIn(ListOf(ws, p), r) + 1, x)]
             ELSE ws.projects[i])
    BY <2>1
  <2>3. QED
    BY <1>2, <2>2 DEF OnList, WithList
<1>3. QED
  BY <1>1, <1>2

\* Any list may take the place of one of a workspace, if its requests are in no other of
\* that workspace: the others stay where they are.
LEMMA ListReplaced ==
    ASSUME NEW ws \in GoodWorkspaces, NEW p, HasList(ws, p), NEW q \in Seq(Nat), Pairwise(q, Differ),
           ToSet(q) \cap (WorkspaceRequests(ws) \ ToSet(ListOf(ws, p))) = {}
    PROVE  LET new == WithList(ws, p, q) IN
             /\ new \in GoodWorkspaces /\ new.id = ws.id /\ Names(new) = Names(ws)
             /\ WorkspaceRequests(new) = (WorkspaceRequests(ws) \ ToSet(ListOf(ws, p))) \cup ToSet(q)
             /\ ListOf(new, p) = q
             /\ \A to : HasList(new, to) <=> HasList(ws, to)
             /\ \A to : to # p /\ HasList(ws, to) => ListOf(new, to) = ListOf(ws, to)
<1> DEFINE new == WithList(ws, p, q)
           ps == ws.projects
           n == Len(ps)
<1>1. /\ ws \in Workspaces /\ ws.id \in Nat /\ ws.requests \in Seq(Nat) /\ ps \in Seq(GoodProjects)
      /\ ps \in Seq(Projects) /\ Pairwise(ws.requests, Differ) /\ Pairwise(ps, ProjectPairs)
      /\ \A x \in ToSet(ps) : ToSet(ws.requests) \cap ToSet(x.requests) = {}
      /\ \A j, m \in 1 .. n : ps[j].id = ps[m].id => j = m
  BY GoodParts DEF GoodWorkspaces
<1>2. ToSet(ps) = {ps[k] : k \in 1 .. n} /\ DOMAIN ps = 1 .. n /\ n \in Nat
  BY <1>1, SetOfList
<1>3. CASE p = None
  <2>1. ListOf(ws, p) = ws.requests
    BY <1>3 DEF ListOf
  <2>2. /\ new \in Workspaces /\ new.id = ws.id /\ new.requests = q /\ new.projects = ps
    BY <1>1, <1>3 DEF WithList, Workspaces
  <2>3. \A x \in ToSet(ps) : ToSet(q) \cap ToSet(x.requests) = {}
    <3>1. ASSUME NEW x \in ToSet(ps) PROVE ToSet(q) \cap ToSet(x.requests) = {}
      <4>1. ToSet(x.requests) \subseteq WorkspaceRequests(ws) /\ ToSet(ws.requests) \cap ToSet(x.requests) = {}
        BY <1>1 DEF WorkspaceRequests
      <4>2. QED
        BY <2>1, <4>1
    <3>2. QED
      BY <3>1
  <2>4. new \in GoodWorkspaces
    BY <1>1, <2>2, <2>3 DEF GoodWorkspaces
  <2>5. Names(new) = Names(ws)
    BY <2>2 DEF Names
  <2>6. WorkspaceRequests(new) = (WorkspaceRequests(ws) \ ToSet(ws.requests)) \cup ToSet(q)
    <3>1. \A r \in UNION {ToSet(x.requests) : x \in ToSet(ps)} : r \notin ToSet(ws.requests)
      BY <1>1
    <3>2. QED
      BY <2>2, <3>1 DEF WorkspaceRequests
  <2>7. /\ ListOf(new, p) = q /\ \A to : HasList(new, to) <=> HasList(ws, to)
        /\ \A to : to # p => ListOf(new, to) = ListOf(ws, to)
    BY <1>3, <2>2 DEF ListOf, HasList
  <2>8. QED
    BY <2>1, <2>2, <2>4, <2>5, <2>6, <2>7
<1>4. CASE p # None
  <2>1. PICK i \in 1 .. n : /\ ListOf(ws, p) = ps[i].requests /\ ps[i].id = p
                            /\ \A k \in 1 .. n : ps[k].id = p <=> k = i
    BY <1>4, ListPlace
  <2> DEFINE e == [ps[i] EXCEPT !.requests = q]
             new_ps == Put(ps, i, e)
             others == {ps[k] : k \in (1 .. n) \ {i}}
  <2>2. ps[i] \in GoodProjects /\ ps[i] \in Projects /\ p # None
    BY <1>1, <1>4
  <2>3. e \in Projects /\ e.id = p /\ e.requests = q /\ e \in GoodProjects
    <3>1. e \in Projects /\ e.id = p /\ e.requests = q
      BY <2>1, <2>2 DEF Projects
    <3>2. QED
      BY <2>2, <3>1 DEF GoodProjects
  <2>4. new.id = ws.id /\ new.requests = ws.requests /\ new.projects = new_ps
    <3>1. [k \in DOMAIN ps |-> IF ps[k].id = p THEN [ps[k] EXCEPT !.requests = q] ELSE ps[k]] = new_ps
      BY <1>2, <2>1 DEF Put
    <3>2. new = [ws EXCEPT !.projects = new_ps]
      BY <1>4, <3>1 DEF WithList
    <3> HIDE DEF new, new_ps
    <3>3. QED
      BY <1>1, <3>2 DEF Workspaces
  <2> HIDE DEF e
  <2>5. \A x \in others : /\ x \in Projects /\ x.id # p /\ x \in ToSet(ps)
                          /\ ToSet(x.requests) \cap ToSet(ps[i].requests) = {}
    <3>1. ASSUME NEW k \in (1 .. n) \ {i}
          PROVE  /\ ps[k] \in Projects /\ ps[k].id # p /\ ps[k] \in ToSet(ps)
                 /\ ToSet(ps[k].requests) \cap ToSet(ps[i].requests) = {}
      <4>1. <<ps[k], ps[i]>> \in ProjectPairs
        BY <1>1, <3>1 DEF Pairwise
      <4>2. QED
        BY <1>1, <1>2, <2>1, <4>1 DEF ProjectPairs
    <3>2. QED
      BY <3>1
  <2>6. \A x \in others : ToSet(x.requests) \cap ToSet(q) = {}
    <3>1. ASSUME NEW x \in others PROVE ToSet(x.requests) \cap ToSet(q) = {}
      <4>1. ToSet(x.requests) \subseteq WorkspaceRequests(ws)
        BY <2>5 DEF WorkspaceRequests
      <4>2. QED
        BY <2>1, <2>5, <4>1
    <3>2. QED
      BY <3>1
  <2>7. Fits(e, others, ProjectPairs)
    <3>1. ASSUME NEW x \in others PROVE <<x, e>> \in ProjectPairs /\ <<e, x>> \in ProjectPairs
      <4>1. /\ x \in Projects /\ x.id # e.id /\ ToSet(x.requests) \cap ToSet(e.requests) = {}
        BY <2>3, <2>5, <2>6
      <4>2. QED
        BY <2>3, <4>1 DEF ProjectPairs
    <3>2. QED
      BY <3>1 DEF Fits
  <2>8. /\ new_ps \in Seq(GoodProjects) /\ ToSet(new_ps) = others \cup {e}
        /\ Pairwise(new_ps, ProjectPairs)
    <3>1. i \in 1 .. Len(ps)
      OBVIOUS
    <3> HIDE DEF n, ps, others
    <3>2. /\ Put(ps, i, e) \in Seq(GoodProjects) /\ ToSet(Put(ps, i, e)) = Others(ps, i) \cup {e}
          /\ Pairwise(ps, ProjectPairs) /\ Fits(e, Others(ps, i), ProjectPairs)
               => Pairwise(Put(ps, i, e), ProjectPairs)
      BY <1>1, <2>3, <3>1, ReplacedElement
    <3>3. others = Others(ps, i)
      BY DEF others, Others, n
    <3>4. QED
      BY <1>1, <2>7, <3>2, <3>3
  <2> HIDE DEF new_ps, others
  <2>9. \A x \in ToSet(new_ps) : ToSet(ws.requests) \cap ToSet(x.requests) = {}
    <3>1. ToSet(ws.requests) \cap ToSet(q) = {}
      <4>1. ToSet(ws.requests) \subseteq WorkspaceRequests(ws)
        BY DEF WorkspaceRequests
      <4>2. ToSet(ws.requests) \cap ToSet(ps[i].requests) = {}
        BY <1>1, <1>2
      <4>3. QED
        BY <2>1, <4>1, <4>2
    <3>2. QED
      BY <1>1, <2>3, <2>5, <2>8, <3>1
  <2>10. new \in Workspaces
    <3>1. new_ps \in Seq(Projects)
      BY <2>8 DEF GoodProjects
    <3>2. new = [ws EXCEPT !.projects = new.projects]
      BY <1>4 DEF WithList
    <3> HIDE DEF new
    <3>3. QED
      BY <1>1, <2>4, <3>1, <3>2 DEF Workspaces
  <2>11. new \in GoodWorkspaces
    BY <1>1, <2>4, <2>8, <2>9, <2>10 DEF GoodWorkspaces
  <2>12. ToSet(ps) = others \cup {ps[i]}
    BY <1>2 DEF others
  <2>13. Names(new) = Names(ws)
    BY <2>1, <2>3, <2>4, <2>8, <2>12 DEF Names
  <2>14. WorkspaceRequests(new) = (WorkspaceRequests(ws) \ ToSet(ps[i].requests)) \cup ToSet(q)
    <3>1. /\ UNION {ToSet(x.requests) : x \in ToSet(ps)}
               = ToSet(ps[i].requests) \cup UNION {ToSet(x.requests) : x \in others}
          /\ UNION {ToSet(x.requests) : x \in ToSet(new_ps)}
               = ToSet(q) \cup UNION {ToSet(x.requests) : x \in others}
      BY <2>3, <2>8, <2>12
    <3>2. \A r \in UNION {ToSet(x.requests) : x \in others} : r \notin ToSet(ps[i].requests)
      BY <2>5
    <3>3. \A r \in ToSet(ws.requests) : r \notin ToSet(ps[i].requests)
      BY <1>1, <1>2
    <3>4. QED
      BY <2>4, <3>1, <3>2, <3>3 DEF WorkspaceRequests
  <2>15. /\ \A to : HasItem(new_ps, to) <=> HasItem(ps, to)
         /\ \A to : HasList(new, to) <=> HasList(ws, to)
    <3>1. \A to : HasItem(new_ps, to) <=> HasItem(ps, to)
      BY <2>1, <2>3, <2>8, <2>12 DEF HasItem
    <3>2. QED
      BY <2>4, <3>1 DEF HasList
  <2>16. ASSUME NEW to, HasList(ws, to)
         PROVE  ListOf(new, to) = IF to = p THEN q ELSE ListOf(ws, to)
    <3>1. CASE to = None
      BY <1>4, <2>4, <3>1 DEF ListOf
    <3>2. CASE to # None
      <4>1. PICK j \in 1 .. n : ListOf(ws, to) = ps[j].requests /\ ps[j].id = to
        BY <2>16, <3>2, ListPlace, SMTT(30)
      <4>2. PICK k \in 1 .. Len(new.projects) : ListOf(new, to) = new.projects[k].requests
                                                /\ new.projects[k].id = to
        BY <2>11, <2>15, <2>16, <3>2, ListPlace
      <4>3. k \in 1 .. n /\ new.projects[k] = IF k = i THEN e ELSE ps[k]
        BY <1>1, <1>2, <2>3, <2>4, <4>2, ReplacedElement DEF new_ps, Put
      <4>4. CASE to = p
        BY <2>1, <2>3, <4>2, <4>3, <4>4
      <4>5. CASE to # p
        BY <1>1, <2>1, <2>3, <4>1, <4>2, <4>3, <4>5
      <4>6. QED
        BY <4>4, <4>5
    <3>3. QED
      BY <3>1, <3>2
  <2>17. HasList(ws, p)
    OBVIOUS
  <2>18. QED
    BY <2>1, <2>4, <2>11, <2>13, <2>14, <2>15, <2>16, <2>17
<1>5. QED
  BY <1>3, <1>4

\* Other projects may take the place of those of a workspace.
LEMMA ProjectsReplaced ==
    ASSUME NEW ws \in GoodWorkspaces, NEW qs \in Seq(GoodProjects), Pairwise(qs, ProjectPairs),
           \A x \in ToSet(qs) : ToSet(ws.requests) \cap ToSet(x.requests) = {}
    PROVE  LET new == [ws EXCEPT !.projects = qs] IN
             /\ new \in GoodWorkspaces /\ new.id = ws.id
             /\ WorkspaceRequests(new) = ToSet(ws.requests) \cup UNION {ToSet(x.requests) : x \in ToSet(qs)}
             /\ Names(new) = {ws.id} \cup {x.id : x \in ToSet(qs)}
<1> DEFINE new == [ws EXCEPT !.projects = qs]
<1>1. ws \in Workspaces /\ ws.id \in Nat /\ ws.requests \in Seq(Nat) /\ Pairwise(ws.requests, Differ)
  BY GoodParts DEF GoodWorkspaces
<1>2. qs \in Seq(Projects)
  BY DEF GoodProjects
<1>3. new \in Workspaces /\ new.id = ws.id /\ new.requests = ws.requests /\ new.projects = qs
  BY <1>1, <1>2 DEF Workspaces
<1> HIDE DEF new
<1>4. new \in GoodWorkspaces
  BY <1>1, <1>3 DEF GoodWorkspaces
<1>5. WorkspaceRequests(new) = ToSet(ws.requests) \cup UNION {ToSet(x.requests) : x \in ToSet(qs)}
  BY <1>3 DEF WorkspaceRequests
<1>6. Names(new) = {ws.id} \cup {x.id : x \in ToSet(qs)}
  BY <1>3 DEF Names
<1>7. QED
  BY <1>3, <1>4, <1>5, <1>6 DEF new

\* A project without requests may be added to a workspace.
LEMMA ProjectAdded ==
    ASSUME NEW ws \in GoodWorkspaces, NEW x \in Nat \ {None}, x \notin Names(ws)
    PROVE  LET new == [ws EXCEPT !.projects = Append(@, [id |-> x, requests |-> <<>>])] IN
             /\ new \in GoodWorkspaces /\ new.id = ws.id
             /\ WorkspaceRequests(new) = WorkspaceRequests(ws) /\ Names(new) = Names(ws) \cup {x}
<1> DEFINE e == [id |-> x, requests |-> <<>>]
           qs == Append(ws.projects, e)
<1>1. /\ ws.projects \in Seq(GoodProjects) /\ Pairwise(ws.projects, ProjectPairs)
      /\ \A p \in ToSet(ws.projects) : ToSet(ws.requests) \cap ToSet(p.requests) = {}
      /\ ToSet(ws.projects) \subseteq GoodProjects
  BY GoodParts, SetOfList DEF GoodWorkspaces
<1>2. e \in GoodProjects /\ e.id = x /\ e.requests = <<>>
  BY DEF GoodProjects, Projects, Pairwise
<1>3. ToSet(<<>>) = {}
  BY DEF ToSet
<1> HIDE DEF e
<1>4. Fits(e, ToSet(ws.projects), ProjectPairs)
  <2>1. ASSUME NEW p \in ToSet(ws.projects)
        PROVE  <<p, e>> \in ProjectPairs /\ <<e, p>> \in ProjectPairs
    <3>1. p \in Projects /\ e \in Projects /\ p.id # e.id
      BY <1>1, <1>2, <2>1 DEF GoodProjects, Names
    <3>2. ToSet(p.requests) \cap ToSet(e.requests) = {}
      BY <1>2, <1>3
    <3>3. QED
      BY <3>1, <3>2 DEF ProjectPairs
  <2>2. QED
    BY <2>1 DEF Fits
<1>5. qs \in Seq(GoodProjects) /\ ToSet(qs) = ToSet(ws.projects) \cup {e} /\ Pairwise(qs, ProjectPairs)
  BY <1>1, <1>2, <1>4, AppendedElement
<1>6. [ws EXCEPT !.projects = Append(@, [id |-> x, requests |-> <<>>])] = [ws EXCEPT !.projects = qs]
  BY DEF e
<1> HIDE DEF qs
<1>7. \A p \in ToSet(qs) : ToSet(ws.requests) \cap ToSet(p.requests) = {}
  BY <1>1, <1>2, <1>3, <1>5
<1> DEFINE new == [ws EXCEPT !.projects = qs]
<1>8. /\ new \in GoodWorkspaces /\ new.id = ws.id
      /\ WorkspaceRequests(new) = ToSet(ws.requests) \cup UNION {ToSet(p.requests) : p \in ToSet(qs)}
      /\ Names(new) = {ws.id} \cup {p.id : p \in ToSet(qs)}
  BY <1>5, <1>7, ProjectsReplaced
<1> HIDE DEF new
<1>9. WorkspaceRequests(new) = WorkspaceRequests(ws)
  BY <1>2, <1>3, <1>5, <1>8 DEF WorkspaceRequests
<1>10. Names(new) = Names(ws) \cup {x}
  BY <1>2, <1>5, <1>8 DEF Names
<1>11. QED
  BY <1>6, <1>8, <1>9, <1>10 DEF new

\* The projects that are left when one is taken out.
LEMMA ProjectsLeft ==
    ASSUME NEW ws \in GoodWorkspaces, NEW p
    PROVE  /\ DropId(ws.projects, p) \in Seq(GoodProjects)
           /\ Pairwise(DropId(ws.projects, p), ProjectPairs)
           /\ ToSet(DropId(ws.projects, p)) = {x \in ToSet(ws.projects) : x.id # p}
           /\ ToSet(ws.projects) \subseteq GoodProjects
           /\ \A x \in ToSet(ws.projects) : ToSet(ws.requests) \cap ToSet(x.requests) = {}
           /\ \A x, y \in ToSet(ws.projects) :
                x # y => x.id # y.id /\ ToSet(x.requests) \cap ToSet(y.requests) = {}
<1> DEFINE ps == ws.projects
           P == {i \in DOMAIN ps : ps[i].id # p}
<1>1. ps \in Seq(GoodProjects) /\ Pairwise(ps, ProjectPairs)
      /\ \A x \in ToSet(ps) : ToSet(ws.requests) \cap ToSet(x.requests) = {}
  BY GoodParts DEF GoodWorkspaces
<1> HIDE DEF ps
<1>2. /\ DOMAIN ps = 1 .. Len(ps) /\ ToSet(ps) = {ps[i] : i \in 1 .. Len(ps)}
      /\ ToSet(ps) \subseteq GoodProjects
  BY <1>1, SetOfList
<1>3. /\ Kept(ps, P) \in Seq(GoodProjects) /\ ToSet(Kept(ps, P)) = {ps[i] : i \in P \cap (1 .. Len(ps))}
      /\ Pairwise(Kept(ps, P), ProjectPairs)
  <2> HIDE DEF P
  <2>1. QED
    BY <1>1, KeptPairs
<1>4. {ps[i] : i \in P \cap (1 .. Len(ps))} = {x \in ToSet(ps) : x.id # p}
  BY <1>2
<1>5. DropId(ps, p) = Kept(ps, P)
  BY DEF DropId
<1> HIDE DEF P
<1>6. ASSUME NEW x \in ToSet(ps), NEW y \in ToSet(ps), x # y
      PROVE  x.id # y.id /\ ToSet(x.requests) \cap ToSet(y.requests) = {}
  <2>1. PICK j, m \in 1 .. Len(ps) : x = ps[j] /\ y = ps[m] /\ j # m
    BY <1>2, <1>6
  <2>2. <<x, y>> \in ProjectPairs
    BY <1>1, <2>1 DEF Pairwise
  <2>3. QED
    BY <2>2 DEF ProjectPairs
<1>7. QED
  BY <1>1, <1>2, <1>3, <1>4, <1>5, <1>6 DEF ps

\* A project that is deleted takes its requests along, and nothing else.
LEMMA ProjectRemoved ==
    ASSUME NEW ws \in GoodWorkspaces, NEW p, HasItem(ws.projects, p)
    PROVE  LET new == [ws EXCEPT !.projects = DropId(@, p)] IN
             /\ new \in GoodWorkspaces /\ new.id = ws.id
             /\ WorkspaceRequests(new) = WorkspaceRequests(ws) \ ToSet(ListOf(ws, p))
             /\ Names(new) \subseteq Names(ws) /\ Names(ws) \subseteq Names(new) \cup {p}
<1> DEFINE qs == DropId(ws.projects, p)
           new == [ws EXCEPT !.projects = qs]
<1>1. /\ qs \in Seq(GoodProjects) /\ Pairwise(qs, ProjectPairs)
      /\ ToSet(qs) = {x \in ToSet(ws.projects) : x.id # p}
      /\ \A x \in ToSet(ws.projects) : ToSet(ws.requests) \cap ToSet(x.requests) = {}
      /\ \A x, y \in ToSet(ws.projects) :
            x # y => x.id # y.id /\ ToSet(x.requests) \cap ToSet(y.requests) = {}
      /\ ToSet(ws.projects) \subseteq GoodProjects
  BY ProjectsLeft
<1>2. PICK e \in ToSet(ws.projects) : e.id = p /\ ItemAt(ws.projects, p) = e
  BY DEF HasItem, ItemAt
<1>3. p # None /\ ListOf(ws, p) = e.requests
  BY <1>1, <1>2 DEF GoodProjects, ListOf
<1> HIDE DEF qs
<1>4. \A x \in ToSet(qs) : ToSet(ws.requests) \cap ToSet(x.requests) = {}
  BY <1>1
<1>5. /\ new \in GoodWorkspaces /\ new.id = ws.id
      /\ WorkspaceRequests(new) = ToSet(ws.requests) \cup UNION {ToSet(x.requests) : x \in ToSet(qs)}
      /\ Names(new) = {ws.id} \cup {x.id : x \in ToSet(qs)}
  BY <1>1, <1>4, ProjectsReplaced
<1> HIDE DEF new
<1>6. ToSet(ws.projects) = ToSet(qs) \cup {e} /\ e \notin ToSet(qs)
  BY <1>1, <1>2
<1>7. WorkspaceRequests(new) = WorkspaceRequests(ws) \ ToSet(e.requests)
  <2>1. \A x \in ToSet(qs) : ToSet(x.requests) \cap ToSet(e.requests) = {}
    BY <1>1, <1>6
  <2>2. ToSet(ws.requests) \cap ToSet(e.requests) = {}
    BY <1>1
  <2>3. UNION {ToSet(x.requests) : x \in ToSet(ws.projects)}
          = ToSet(e.requests) \cup UNION {ToSet(x.requests) : x \in ToSet(qs)}
    BY <1>6
  <2>4. QED
    BY <1>5, <2>1, <2>2, <2>3 DEF WorkspaceRequests
<1>8. Names(new) \subseteq Names(ws) /\ Names(ws) \subseteq Names(new) \cup {p}
  BY <1>2, <1>5, <1>6 DEF Names
<1>9. QED
  BY <1>3, <1>5, <1>7, <1>8 DEF new, qs

\* A project that is dragged keeps its requests.
LEMMA ProjectMoved ==
    ASSUME NEW ws \in GoodWorkspaces, NEW d, NEW t, NEW after \in {0, 1}
    PROVE  LET new == MovedProject(ws, d, t, after) IN
             /\ new \in GoodWorkspaces /\ new.id = ws.id
             /\ WorkspaceRequests(new) = WorkspaceRequests(ws) /\ Names(new) = Names(ws)
<1> DEFINE rest == DropId(ws.projects, d.node)
           at == IF t.type = "project"
                 THEN (CHOOSE i \in DOMAIN rest : rest[i].id = t.p) + after ELSE Len(rest) + 1
           e == ItemAt(ws.projects, d.node)
           Moves == HasItem(ws.projects, d.node) /\ (t.type = "project" => HasItem(rest, t.p))
           qs == InsertAt(rest, at, e)
<1>1. CASE ~Moves
  BY <1>1 DEF MovedProject
<1>2. CASE Moves
  <2>1. MovedProject(ws, d, t, after) = [ws EXCEPT !.projects = qs]
    BY <1>2 DEF MovedProject
  <2>2. /\ rest \in Seq(GoodProjects) /\ Pairwise(rest, ProjectPairs)
        /\ ToSet(rest) = {x \in ToSet(ws.projects) : x.id # d.node}
        /\ \A x \in ToSet(ws.projects) : ToSet(ws.requests) \cap ToSet(x.requests) = {}
        /\ \A x, y \in ToSet(ws.projects) :
              x # y => x.id # y.id /\ ToSet(x.requests) \cap ToSet(y.requests) = {}
        /\ ToSet(ws.projects) \subseteq GoodProjects
    BY ProjectsLeft
  <2>3. e \in ToSet(ws.projects) /\ e.id = d.node
    BY <1>2 DEF HasItem, ItemAt
  <2>4. ToSet(ws.projects) = ToSet(rest) \cup {e} /\ e \in GoodProjects
    BY <2>2, <2>3
  <2> HIDE DEF e, rest
  <2>5. Fits(e, ToSet(rest), ProjectPairs)
    BY <2>2, <2>3, <2>4 DEF Fits, ProjectPairs, GoodProjects
  <2>6. at \in 1 .. Len(rest) + 1
    <3>1. CASE t.type = "project"
      <4>1. DOMAIN rest = 1 .. Len(rest) /\ ToSet(rest) = {rest[i] : i \in 1 .. Len(rest)} /\ Len(rest) \in Nat
        BY <2>2, SetOfList
      <4>2. \E i \in DOMAIN rest : rest[i].id = t.p
        BY <1>2, <3>1, <4>1 DEF HasItem
      <4>3. (CHOOSE i \in DOMAIN rest : rest[i].id = t.p) \in 1 .. Len(rest)
        BY <4>1, <4>2
      <4>4. QED
        BY <3>1, <4>1, <4>3
    <3>2. CASE t.type # "project"
      <4>1. Len(rest) \in Nat
        BY <2>2
      <4>2. QED
        BY <3>2, <4>1
    <3>3. QED
      BY <3>1, <3>2
  <2> HIDE DEF at
  <2>7. qs \in Seq(GoodProjects) /\ ToSet(qs) = ToSet(ws.projects) /\ Pairwise(qs, ProjectPairs)
    <3>1. rest \in Seq(GoodProjects) /\ Pairwise(rest, ProjectPairs) /\ e \in GoodProjects
      BY <2>2, <2>4
    <3>2. /\ qs \in Seq(GoodProjects) /\ ToSet(qs) = ToSet(rest) \cup {e}
          /\ Pairwise(rest, ProjectPairs) /\ Fits(e, ToSet(rest), ProjectPairs)
               => Pairwise(qs, ProjectPairs)
      BY <2>6, <3>1, InsertedElement
    <3>3. QED
      BY <2>4, <2>5, <3>1, <3>2
  <2> DEFINE new == [ws EXCEPT !.projects = qs]
  <2> HIDE DEF qs
  <2>8. /\ new \in GoodWorkspaces /\ new.id = ws.id
        /\ WorkspaceRequests(new) = ToSet(ws.requests) \cup UNION {ToSet(x.requests) : x \in ToSet(qs)}
        /\ Names(new) = {ws.id} \cup {x.id : x \in ToSet(qs)}
    BY <2>2, <2>7, ProjectsReplaced
  <2>9. QED
    BY <2>1, <2>7, <2>8 DEF WorkspaceRequests, Names
<1>3. QED
  BY <1>1, <1>2

\* The ids of a tree's workspaces and projects.
AllNames(t) == UNION {Names(ws) : ws \in ToSet(t)}

\* What is in a tree is in one of its workspaces.
LEMMA InTree ==
    ASSUME NEW t
    PROVE  /\ \A r : r \in TreeRequests(t) <=> \E ws \in ToSet(t) : r \in WorkspaceRequests(ws)
           /\ \A r : r \in AllNames(t) <=> \E ws \in ToSet(t) : r \in Names(ws)
  BY DEF TreeRequests, AllNames

\* The workspaces of a sound tree.
LEMMA TreePlaces ==
    ASSUME NEW t, Forest(t)
    PROVE  /\ t \in Seq(GoodWorkspaces) /\ DOMAIN t = 1 .. Len(t) /\ Len(t) \in Nat
           /\ ToSet(t) = {t[i] : i \in 1 .. Len(t)} /\ ToSet(t) \subseteq GoodWorkspaces
           /\ \A i, m \in 1 .. Len(t) : t[i].id = t[m].id => i = m
           /\ \A i, m \in 1 .. Len(t) : i # m =>
                t[i] # t[m] /\ WorkspaceRequests(t[i]) \cap WorkspaceRequests(t[m]) = {}
<1>1. t \in Seq(GoodWorkspaces) /\ Pairwise(t, WorkspacePairs)
  BY DEF Forest
<1>2. \A i, m \in 1 .. Len(t) : i # m =>
        t[i].id # t[m].id /\ WorkspaceRequests(t[i]) \cap WorkspaceRequests(t[m]) = {}
  BY <1>1 DEF Pairwise, WorkspacePairs
<1>3. \A i, m \in 1 .. Len(t) : i # m => t[i] # t[m]
  BY <1>2
<1>4. \A i, m \in 1 .. Len(t) : t[i].id = t[m].id => i = m
  BY <1>2
<1>5. /\ DOMAIN t = 1 .. Len(t) /\ Len(t) \in Nat
      /\ ToSet(t) = {t[i] : i \in 1 .. Len(t)} /\ ToSet(t) \subseteq GoodWorkspaces
  BY <1>1, SetOfList
<1>6. QED
  BY <1>1, <1>2, <1>3, <1>4, <1>5

\* A workspace may change, as long as it takes no request of the others.
LEMMA TreeChanged ==
    ASSUME NEW t, Forest(t), NEW i \in 1 .. Len(t), NEW e \in GoodWorkspaces, e.id = t[i].id,
           WorkspaceRequests(e) \cap (TreeRequests(t) \ WorkspaceRequests(t[i])) = {}
    PROVE  /\ Forest(Put(t, i, e)) /\ Put(t, i, e) # <<>>
           /\ TreeRequests(Put(t, i, e))
                = (TreeRequests(t) \ WorkspaceRequests(t[i])) \cup WorkspaceRequests(e)
           /\ AllNames(Put(t, i, e)) \subseteq AllNames(t) \cup Names(e)
           /\ AllNames(t) \subseteq AllNames(Put(t, i, e)) \cup (Names(t[i]) \ Names(e))
<1> DEFINE u == Put(t, i, e)
<1>1. /\ t \in Seq(GoodWorkspaces) /\ Pairwise(t, WorkspacePairs) /\ Len(t) \in Nat
      /\ ToSet(t) = {t[k] : k \in 1 .. Len(t)} /\ ToSet(t) \subseteq GoodWorkspaces
      /\ \A k \in 1 .. Len(t) : k # i =>
           t[k].id # t[i].id /\ WorkspaceRequests(t[k]) \cap WorkspaceRequests(t[i]) = {}
  <2>1. /\ t \in Seq(GoodWorkspaces) /\ Len(t) \in Nat
        /\ ToSet(t) = {t[k] : k \in 1 .. Len(t)} /\ ToSet(t) \subseteq GoodWorkspaces
        /\ \A k, m \in 1 .. Len(t) : t[k].id = t[m].id => k = m
        /\ \A k, m \in 1 .. Len(t) : k # m =>
             WorkspaceRequests(t[k]) \cap WorkspaceRequests(t[m]) = {}
    BY TreePlaces
  <2>2. Pairwise(t, WorkspacePairs)
    BY DEF Forest
  <2>3. \A k \in 1 .. Len(t) : k # i =>
           t[k].id # t[i].id /\ WorkspaceRequests(t[k]) \cap WorkspaceRequests(t[i]) = {}
    BY <2>1
  <2>4. QED
    BY <2>1, <2>2, <2>3
<1>2. /\ Others(t, i) = {t[k] : k \in (1 .. Len(t)) \ {i}}
      /\ ToSet(t) = Others(t, i) \cup {t[i]}
  BY <1>1 DEF Others
<1>3. \A x \in Others(t, i) :
        /\ x \in GoodWorkspaces /\ x \in Workspaces /\ x.id # e.id
        /\ WorkspaceRequests(x) \cap WorkspaceRequests(t[i]) = {}
        /\ WorkspaceRequests(x) \subseteq TreeRequests(t)
  <2>1. ASSUME NEW x \in Others(t, i)
        PROVE  /\ x \in GoodWorkspaces /\ x.id # e.id
               /\ WorkspaceRequests(x) \cap WorkspaceRequests(t[i]) = {}
    BY <1>1, <1>2
  <2>2. \A x \in Others(t, i) : WorkspaceRequests(x) \subseteq TreeRequests(t)
    BY <1>2 DEF TreeRequests
  <2>3. QED
    BY <2>1, <2>2, GoodParts
<1>4. Fits(e, Others(t, i), WorkspacePairs)
  <2>1. ASSUME NEW x \in Others(t, i)
        PROVE  <<x, e>> \in WorkspacePairs /\ <<e, x>> \in WorkspacePairs
    <3>1. WorkspaceRequests(x) \cap WorkspaceRequests(e) = {}
      BY <1>3
    <3>2. x \in Workspaces /\ e \in Workspaces /\ x.id # e.id
      BY <1>3, GoodParts
    <3>3. QED
      BY <3>1, <3>2 DEF WorkspacePairs
  <2>2. QED
    BY <2>1 DEF Fits
<1>5. /\ u \in Seq(GoodWorkspaces) /\ Len(u) = Len(t) /\ ToSet(u) = Others(t, i) \cup {e}
      /\ Pairwise(u, WorkspacePairs)
  BY <1>1, <1>4, ReplacedElement
<1> HIDE DEF u
<1>6. Forest(u) /\ u # <<>>
  BY <1>1, <1>5 DEF Forest
<1>7. TreeRequests(u) = (TreeRequests(t) \ WorkspaceRequests(t[i])) \cup WorkspaceRequests(e)
  <2>1. \A r : r \in TreeRequests(u) <=>
                r \in WorkspaceRequests(e) \/ \E x \in Others(t, i) : r \in WorkspaceRequests(x)
    BY <1>5, InTree
  <2>2. \A r : r \in TreeRequests(t) <=>
                r \in WorkspaceRequests(t[i]) \/ \E x \in Others(t, i) : r \in WorkspaceRequests(x)
    BY <1>2, InTree
  <2>3. \A x \in Others(t, i) : \A r \in WorkspaceRequests(x) : r \notin WorkspaceRequests(t[i])
    BY <1>3
  <2>4. QED
    BY <2>1, <2>2, <2>3
<1>8. /\ \A r : r \in AllNames(u) <=> r \in Names(e) \/ \E x \in Others(t, i) : r \in Names(x)
      /\ \A r : r \in AllNames(t) <=> r \in Names(t[i]) \/ \E x \in Others(t, i) : r \in Names(x)
  BY <1>2, <1>5, InTree
<1>9. QED
  BY <1>6, <1>7, <1>8 DEF u

\* A workspace that is new, with its requests, may be added.
LEMMA TreeGrown ==
    ASSUME NEW t, Forest(t), NEW e \in GoodWorkspaces, \A ws \in ToSet(t) : ws.id # e.id,
           WorkspaceRequests(e) \cap TreeRequests(t) = {}
    PROVE  /\ Forest(Append(t, e)) /\ Append(t, e) # <<>>
           /\ TreeRequests(Append(t, e)) = TreeRequests(t) \cup WorkspaceRequests(e)
           /\ AllNames(Append(t, e)) = AllNames(t) \cup Names(e)
<1> DEFINE u == Append(t, e)
<1>1. t \in Seq(GoodWorkspaces) /\ Pairwise(t, WorkspacePairs) /\ ToSet(t) \subseteq GoodWorkspaces
  BY TreePlaces DEF Forest
<1>2. Fits(e, ToSet(t), WorkspacePairs)
  <2>1. ASSUME NEW x \in ToSet(t)
        PROVE  <<x, e>> \in WorkspacePairs /\ <<e, x>> \in WorkspacePairs
    <3>1. WorkspaceRequests(x) \subseteq TreeRequests(t)
      BY DEF TreeRequests
    <3>2. x \in Workspaces /\ e \in Workspaces /\ x.id # e.id
      BY <1>1, GoodParts
    <3>3. WorkspaceRequests(x) \cap WorkspaceRequests(e) = {}
      BY <3>1
    <3>4. QED
      BY <3>2, <3>3 DEF WorkspacePairs
  <2>2. QED
    BY <2>1 DEF Fits
<1>3. u \in Seq(GoodWorkspaces) /\ ToSet(u) = ToSet(t) \cup {e} /\ Pairwise(u, WorkspacePairs)
  BY <1>1, <1>2, AppendedElement
<1>4. u # <<>>
  BY <1>1
<1> HIDE DEF u
<1>5. TreeRequests(u) = TreeRequests(t) \cup WorkspaceRequests(e)
  BY <1>3 DEF TreeRequests
<1>6. AllNames(u) = AllNames(t) \cup Names(e)
  BY <1>3 DEF AllNames
<1>7. QED
  BY <1>3, <1>4, <1>5, <1>6 DEF Forest, u

\* A workspace that is deleted takes its own along, and nothing else.
LEMMA TreeShrunk ==
    ASSUME NEW t, Forest(t), NEW w, HasItem(t, w), Len(t) > 1
    PROVE  /\ Forest(DropId(t, w)) /\ DropId(t, w) # <<>>
           /\ TreeRequests(DropId(t, w)) = TreeRequests(t) \ WorkspaceRequests(ItemAt(t, w))
           /\ AllNames(DropId(t, w)) \subseteq AllNames(t)
           /\ AllNames(t) \subseteq AllNames(DropId(t, w)) \cup Names(ItemAt(t, w))
<1> DEFINE P == {i \in DOMAIN t : t[i].id # w}
           u == DropId(t, w)
           e == ItemAt(t, w)
<1>1. /\ t \in Seq(GoodWorkspaces) /\ Len(t) \in Nat /\ DOMAIN t = 1 .. Len(t)
      /\ ToSet(t) = {t[k] : k \in 1 .. Len(t)} /\ ToSet(t) \subseteq GoodWorkspaces
      /\ \A k, m \in 1 .. Len(t) : t[k].id = t[m].id => k = m
      /\ \A k, m \in 1 .. Len(t) : k # m => WorkspaceRequests(t[k]) \cap WorkspaceRequests(t[m]) = {}
  BY TreePlaces
<1>2. PICK i \in 1 .. Len(t) : /\ e = t[i] /\ t[i].id = w
                               /\ \A k \in 1 .. Len(t) : t[k].id = w <=> k = i
  BY <1>1, ItemPlace
<1>3. Pairwise(t, WorkspacePairs) /\ u = Kept(t, P)
  BY DEF Forest, DropId
<1>4. P \cap (1 .. Len(t)) = (1 .. Len(t)) \ {i}
  BY <1>1, <1>2
<1> HIDE DEF P, u, e
<1>5. /\ u \in Seq(GoodWorkspaces) /\ ToSet(u) = {t[k] : k \in P \cap (1 .. Len(t))}
      /\ Pairwise(u, WorkspacePairs)
  BY <1>1, <1>3, KeptPairs
<1>6. /\ Others(t, i) = {t[k] : k \in (1 .. Len(t)) \ {i}}
      /\ ToSet(t) = Others(t, i) \cup {e} /\ ToSet(u) = Others(t, i)
  BY <1>1, <1>2, <1>4, <1>5 DEF Others
<1>7. u # <<>>
  <2>1. \E k \in 1 .. Len(t) : k # i
    <3>1. 1 \in 1 .. Len(t) /\ 2 \in 1 .. Len(t)
      BY <1>1
    <3>2. QED
      BY <3>1
  <2>2. Others(t, i) # {}
    BY <2>1 DEF Others
  <2>3. ToSet(<<>>) = {}
    BY DEF ToSet
  <2>4. QED
    BY <1>6, <2>2, <2>3
<1>8. TreeRequests(u) = TreeRequests(t) \ WorkspaceRequests(e)
  <2>1. \A r : r \in TreeRequests(u) <=> \E x \in Others(t, i) : r \in WorkspaceRequests(x)
    BY <1>6, InTree
  <2>2. \A r : r \in TreeRequests(t) <=>
                r \in WorkspaceRequests(e) \/ \E x \in Others(t, i) : r \in WorkspaceRequests(x)
    BY <1>6, InTree
  <2>3. \A x \in Others(t, i) : \A r \in WorkspaceRequests(x) : r \notin WorkspaceRequests(e)
    BY <1>1, <1>2, <1>6
  <2>4. QED
    BY <2>1, <2>2, <2>3
<1>9. AllNames(u) \subseteq AllNames(t) /\ AllNames(t) \subseteq AllNames(u) \cup Names(e)
  BY <1>6, InTree
<1>10. QED
  BY <1>5, <1>7, <1>8, <1>9 DEF Forest, u, e

\* The lists of a workspace by their numbers.
LEMMA NumberedLists ==
    ASSUME NEW ws \in Workspaces
    PROVE  /\ ws.requests \in Seq(Nat) /\ ws.projects \in Seq(Projects)
           /\ DOMAIN ws.projects = 1 .. Len(ws.projects) /\ Len(ws.projects) \in Nat
           /\ ToSet(ws.projects) = {ws.projects[j] : j \in 1 .. Len(ws.projects)}
           /\ NthList(ws, 0) = ws.requests /\ 0 \in 0 .. Len(ws.projects)
           /\ \A j \in 1 .. Len(ws.projects) :
                /\ j \in 0 .. Len(ws.projects) /\ j # 0
                /\ ws.projects[j] \in Projects /\ ws.projects[j].requests \in Seq(Nat)
                /\ NthList(ws, j) = ws.projects[j].requests
           /\ \A j \in 0 .. Len(ws.projects) : j = 0 \/ j \in 1 .. Len(ws.projects)
           /\ \A j \in 0 .. Len(ws.projects) : NthList(ws, j) \in Seq(Nat)
           /\ \A r : r \in WorkspaceRequests(ws)
                <=> \E j \in 0 .. Len(ws.projects) : r \in ToSet(NthList(ws, j))
<1>1. ws.requests \in Seq(Nat) /\ ws.projects \in Seq(Projects)
  BY DEF Workspaces
<1> DEFINE ps == ws.projects
<1>2. /\ DOMAIN ps = 1 .. Len(ps) /\ Len(ps) \in Nat /\ ToSet(ps) = {ps[j] : j \in 1 .. Len(ps)}
  BY <1>1, SetOfList
<1>3. \A j \in 1 .. Len(ps) : ps[j] \in Projects
  BY <1>1
<1>4. \A j \in 1 .. Len(ps) : ps[j].requests \in Seq(Nat)
  BY <1>3 DEF Projects
<1> HIDE DEF ps
<1>5. /\ 0 \in 0 .. Len(ps) /\ \A j \in 1 .. Len(ps) : j \in 0 .. Len(ps) /\ j # 0
      /\ \A j \in 0 .. Len(ps) : j = 0 \/ j \in 1 .. Len(ps)
  BY <1>2
<1>6. /\ NthList(ws, 0) = ws.requests
      /\ \A j \in 1 .. Len(ps) : NthList(ws, j) = ps[j].requests
  BY <1>5 DEF NthList, ps
<1>7. \A j \in 0 .. Len(ps) : NthList(ws, j) \in Seq(Nat)
  BY <1>1, <1>4, <1>5, <1>6
<1>8. ASSUME NEW r
      PROVE  r \in WorkspaceRequests(ws) <=> \E j \in 0 .. Len(ps) : r \in ToSet(NthList(ws, j))
  <2>1. r \in WorkspaceRequests(ws) <=>
          r \in ToSet(ws.requests) \/ \E x \in ToSet(ps) : r \in ToSet(x.requests)
    BY DEF WorkspaceRequests, ps
  <2>2. (\E x \in ToSet(ps) : r \in ToSet(x.requests))
          <=> \E j \in 1 .. Len(ps) : r \in ToSet(ps[j].requests)
    BY <1>2
  <2>3. QED
    BY <1>5, <1>6, <2>1, <2>2
<1>9. QED
  BY <1>1, <1>2, <1>3, <1>4, <1>5, <1>6, <1>7, <1>8 DEF ps

\* Those of a good one are apart, and none holds a request twice.
LEMMA GoodLists ==
    ASSUME NEW ws \in GoodWorkspaces
    PROVE  /\ \A j \in 0 .. Len(ws.projects) : Pairwise(NthList(ws, j), Differ)
           /\ \A j, m \in 0 .. Len(ws.projects) : j # m =>
                ToSet(NthList(ws, j)) \cap ToSet(NthList(ws, m)) = {}
<1> DEFINE ps == ws.projects
<1>1. /\ Pairwise(ws.requests, Differ) /\ Pairwise(ps, ProjectPairs) /\ ps \in Seq(GoodProjects)
      /\ \A x \in ToSet(ps) : ToSet(ws.requests) \cap ToSet(x.requests) = {}
  BY DEF GoodWorkspaces
<1>2. ws \in Workspaces
  BY GoodParts
<1>3. /\ Len(ps) \in Nat /\ ToSet(ps) = {ps[j] : j \in 1 .. Len(ps)} /\ NthList(ws, 0) = ws.requests
      /\ \A j \in 1 .. Len(ps) : NthList(ws, j) = ps[j].requests
      /\ \A j \in 0 .. Len(ps) : j = 0 \/ j \in 1 .. Len(ps)
  BY <1>2, NumberedLists
<1>4. \A j \in 1 .. Len(ps) : Pairwise(ps[j].requests, Differ)
  <2>1. \A j \in 1 .. Len(ps) : ps[j] \in GoodProjects
    BY <1>1
  <2>2. QED
    BY <2>1 DEF GoodProjects
<1>5. \A j, m \in 1 .. Len(ps) : j # m => ToSet(ps[j].requests) \cap ToSet(ps[m].requests) = {}
  BY <1>1 DEF Pairwise, ProjectPairs
<1>6. \A j \in 1 .. Len(ps) : ToSet(ws.requests) \cap ToSet(ps[j].requests) = {}
  BY <1>1, <1>3
<1> HIDE DEF ps
<1>7. \A j \in 0 .. Len(ps) : Pairwise(NthList(ws, j), Differ)
  BY <1>1, <1>3, <1>4
<1>8. \A j, m \in 0 .. Len(ps) : j # m => ToSet(NthList(ws, j)) \cap ToSet(NthList(ws, m)) = {}
  BY <1>3, <1>5, <1>6
<1>9. QED
  BY <1>7, <1>8 DEF ps

\* In a sound tree each request is at one place.
LEMMA ForestToPlaces ==
    ASSUME NEW t, Forest(t)
    PROVE  EachAtOnePlace(t)
<1>1. /\ DOMAIN t = 1 .. Len(t) /\ \A i \in 1 .. Len(t) : t[i] \in GoodWorkspaces
      /\ \A i, m \in 1 .. Len(t) : i # m => WorkspaceRequests(t[i]) \cap WorkspaceRequests(t[m]) = {}
  <2>1. /\ t \in Seq(GoodWorkspaces) /\ DOMAIN t = 1 .. Len(t)
        /\ \A i, m \in 1 .. Len(t) : i # m => WorkspaceRequests(t[i]) \cap WorkspaceRequests(t[m]) = {}
    BY TreePlaces
  <2>2. QED
    BY <2>1
<1>2. ASSUME NEW i \in DOMAIN t, NEW m \in DOMAIN t,
             NEW j \in 0 .. Len(t[i].projects), NEW n \in 0 .. Len(t[m].projects),
             NEW k \in DOMAIN NthList(t[i], j), NEW l \in DOMAIN NthList(t[m], n),
             NthList(t[i], j)[k] = NthList(t[m], n)[l]
      PROVE  i = m /\ j = n /\ k = l
  <2> DEFINE r == NthList(t[i], j)[k]
  <2>1. t[i] \in GoodWorkspaces /\ t[m] \in GoodWorkspaces /\ t[i] \in Workspaces /\ t[m] \in Workspaces
    BY <1>1, GoodParts
  <2>2. NthList(t[i], j) \in Seq(Nat) /\ NthList(t[m], n) \in Seq(Nat)
    BY <2>1, NumberedLists
  <2>3. r \in ToSet(NthList(t[i], j)) /\ r \in ToSet(NthList(t[m], n))
    BY <1>2 DEF ToSet
  <2>4. r \in WorkspaceRequests(t[i]) /\ r \in WorkspaceRequests(t[m])
    BY <2>1, <2>3, NumberedLists
  <2>5. i = m
    BY <1>1, <2>4
  <2>6. j = n
    BY <2>1, <2>3, <2>5, GoodLists
  <2>7. Pairwise(NthList(t[i], j), Differ) /\ DOMAIN NthList(t[i], j) = 1 .. Len(NthList(t[i], j))
    BY <2>1, <2>2, GoodLists
  <2>8. k = l
    <3> DEFINE q == NthList(t[i], j)
    <3>1. q[k] = q[l] /\ k \in 1 .. Len(q) /\ l \in 1 .. Len(q)
      BY <1>2, <2>5, <2>6, <2>7
    <3>2. Pairwise(q, Differ)
      BY <2>7
    <3> HIDE DEF q
    <3>3. k # l => <<q[k], q[l]>> \in Differ
      BY <3>1, <3>2 DEF Pairwise
    <3>4. QED
      BY <3>1, <3>3 DEF Differ
  <2>9. QED
    BY <2>5, <2>6, <2>8
<1>3. QED
  BY <1>2 DEF EachAtOnePlace

\* A list whose elements are at one place each.
LEMMA PlacesToList ==
    ASSUME NEW q \in Seq(Nat), \A k, l \in DOMAIN q : q[k] = q[l] => k = l
    PROVE  Pairwise(q, Differ)
  BY DEF Pairwise, Differ

\* A tree whose requests are at one place each, with ids of its own, is sound.
LEMMA PlacesToForest ==
    ASSUME NEW n \in Nat, NEW t \in Seq(Workspaces), EachAtOnePlace(t), IdsApart(t, n)
    PROVE  Forest(t) /\ TreeRequests(t) \subseteq 1 .. n /\ AllNames(t) \subseteq 1 .. n
<1>1. DOMAIN t = 1 .. Len(t) /\ Len(t) \in Nat /\ \A i \in 1 .. Len(t) : t[i] \in Workspaces
  OBVIOUS
<1>2. ASSUME NEW i \in 1 .. Len(t), NEW m \in 1 .. Len(t),
             NEW j \in 0 .. Len(t[i].projects), NEW p \in 0 .. Len(t[m].projects), i # m \/ j # p
      PROVE  ToSet(NthList(t[i], j)) \cap ToSet(NthList(t[m], p)) = {}
  BY <1>1, <1>2 DEF EachAtOnePlace, ToSet
<1>3. ASSUME NEW i \in 1 .. Len(t)
      PROVE  t[i] \in GoodWorkspaces
  <2> DEFINE ws == t[i]
             ps == ws.projects
  <2>1. ws \in Workspaces
    BY <1>1
  <2>2. /\ ws.requests \in Seq(Nat) /\ ps \in Seq(Projects) /\ DOMAIN ps = 1 .. Len(ps)
        /\ Len(ps) \in Nat /\ ToSet(ps) = {ps[j] : j \in 1 .. Len(ps)}
        /\ NthList(ws, 0) = ws.requests /\ 0 \in 0 .. Len(ps)
        /\ \A j \in 1 .. Len(ps) : /\ j \in 0 .. Len(ps) /\ j # 0 /\ ps[j] \in Projects
                                   /\ NthList(ws, j) = ps[j].requests
        /\ \A j \in 0 .. Len(ps) : NthList(ws, j) \in Seq(Nat)
    BY <2>1, NumberedLists
  <2>3. /\ \A j, m \in 1 .. Len(ps) : ps[j].id = ps[m].id => j = m
        /\ \A j \in 1 .. Len(ps) : ps[j].id \in 1 .. n
    BY <1>1, <2>2 DEF IdsApart
  <2>4. \A j \in 0 .. Len(ps) : Pairwise(NthList(ws, j), Differ)
    <3>1. ASSUME NEW j \in 0 .. Len(ps)
          PROVE  \A k, l \in DOMAIN NthList(ws, j) : NthList(ws, j)[k] = NthList(ws, j)[l] => k = l
      BY <1>1 DEF EachAtOnePlace
    <3>2. QED
      BY <2>2, <3>1, PlacesToList
  <2>5. \A j, m \in 0 .. Len(ps) : j # m => ToSet(NthList(ws, j)) \cap ToSet(NthList(ws, m)) = {}
    BY <1>2
  <2> HIDE DEF ps, ws
  <2>6. \A j \in 1 .. Len(ps) : ps[j] \in GoodProjects
    <3>1. \A j \in 1 .. Len(ps) : ps[j].id # None /\ Pairwise(ps[j].requests, Differ) /\ ps[j] \in Projects
      BY <2>2, <2>3, <2>4 DEF None
    <3>2. QED
      BY <3>1 DEF GoodProjects
  <2>7. ps \in Seq(GoodProjects)
    BY <2>2, <2>6
  <2>8. Pairwise(ps, ProjectPairs)
    <3>1. ASSUME NEW j \in 1 .. Len(ps), NEW m \in 1 .. Len(ps), j # m
          PROVE  <<ps[j], ps[m]>> \in ProjectPairs
      <4>1. ToSet(ps[j].requests) \cap ToSet(ps[m].requests) = {} /\ ps[j].id # ps[m].id
        BY <2>2, <2>3, <2>5, <3>1
      <4>2. QED
        BY <2>2, <4>1 DEF ProjectPairs
    <3>2. QED
      BY <3>1 DEF Pairwise
  <2>9. \A x \in ToSet(ps) : ToSet(ws.requests) \cap ToSet(x.requests) = {}
    BY <2>2, <2>5
  <2>10. Pairwise(ws.requests, Differ)
    BY <2>2, <2>4
  <2>11. ws \in GoodWorkspaces
    BY <2>1, <2>7, <2>8, <2>9, <2>10 DEF GoodWorkspaces, ps
  <2>12. QED
    BY <2>11 DEF ws
<1>4. Pairwise(t, WorkspacePairs)
  <2>1. ASSUME NEW i \in 1 .. Len(t), NEW m \in 1 .. Len(t), i # m
        PROVE  <<t[i], t[m]>> \in WorkspacePairs
    <3>1. t[i].id # t[m].id
      BY <1>1, <2>1 DEF IdsApart
    <3>2. ASSUME NEW r, r \in WorkspaceRequests(t[i]), r \in WorkspaceRequests(t[m]) PROVE FALSE
      <4>1. PICK j \in 0 .. Len(t[i].projects) : r \in ToSet(NthList(t[i], j))
        BY <1>1, <3>2, NumberedLists
      <4>2. PICK p \in 0 .. Len(t[m].projects) : r \in ToSet(NthList(t[m], p))
        BY <1>1, <3>2, NumberedLists
      <4>3. QED
        BY <1>2, <2>1, <4>1, <4>2
    <3>3. WorkspaceRequests(t[i]) \cap WorkspaceRequests(t[m]) = {}
      BY <3>2
    <3>4. QED
      BY <1>1, <3>1, <3>3 DEF WorkspacePairs
  <2>2. QED
    BY <2>1 DEF Pairwise
<1>5. Forest(t)
  <2>1. t \in Seq(GoodWorkspaces)
    BY <1>1, <1>3
  <2>2. QED
    BY <1>4, <2>1 DEF Forest
<1>6. TreeRequests(t) \subseteq 1 .. n
  <2>1. ASSUME NEW r \in TreeRequests(t) PROVE r \in 1 .. n
    <3>1. PICK i \in 1 .. Len(t) : r \in WorkspaceRequests(t[i])
      BY SetOfList, InTree
    <3>2. PICK j \in 0 .. Len(t[i].projects) : r \in ToSet(NthList(t[i], j))
      BY <1>1, <3>1, NumberedLists
    <3>3. QED
      BY <1>1, <3>2 DEF IdsApart, ToSet
  <2>2. QED
    BY <2>1
<1>7. AllNames(t) \subseteq 1 .. n
  <2>1. ASSUME NEW r \in AllNames(t) PROVE r \in 1 .. n
    <3>1. PICK i \in 1 .. Len(t) : r \in Names(t[i])
      BY SetOfList, InTree
    <3>2. r = t[i].id \/ \E j \in DOMAIN t[i].projects : r = t[i].projects[j].id
      BY <3>1 DEF Names, ToSet
    <3>3. QED
      BY <1>1, <3>2 DEF IdsApart
  <2>2. QED
    BY <2>1
<1>8. QED
  BY <1>5, <1>6, <1>7

\* The tree, its ids and the history agree.
TreeCore ==
    /\ Forest(tree) /\ tree # <<>>
    /\ nodes \in Nat /\ FirstNode <= nodes
    /\ AllNames(tree) \subseteq 1 .. nodes /\ kept \subseteq 1 .. nodes
    /\ TreeRequests(tree) = kept
    /\ ~ready => \A r \in kept : r > FirstNode

\* A drag is of a project or a request.
DragOK ==
    /\ drag = [type |-> drag.type, w |-> drag.w, p |-> drag.p, node |-> drag.node, over |-> drag.over]
    /\ drag = NoDrag \/ drag.type \in {"project", "request"}

\* The request that is to be deleted is where the dialog says, or nowhere.
AskedIsThere ==
    asking.type = "request" =>
        /\ ~ready => asking.r > FirstNode
        /\ asking.r \in TreeRequests(tree) =>
             \E ws \in ToSet(tree) : /\ ws.id = asking.w /\ HasList(ws, asking.p)
                                     /\ asking.r \in ToSet(ListOf(ws, asking.p))

TreeInv == TreeCore /\ DragOK /\ (asking = NoAsk \/ drag = NoDrag) /\ AskedIsThere

\* The workspace that is shown is in the tree.
LEMMA ShownWorkspace ==
    ASSUME TreeCore
    PROVE  \E i \in 1 .. Len(tree) :
              /\ Workspace = tree[i] /\ tree[i] \in GoodWorkspaces
              /\ \A k \in 1 .. Len(tree) : tree[k].id = tree[i].id <=> k = i
<1>1. /\ tree \in Seq(GoodWorkspaces) /\ Len(tree) \in Nat
      /\ \A i, m \in 1 .. Len(tree) : tree[i].id = tree[m].id => i = m
  BY TreePlaces DEF TreeCore
<1>2. \E i \in 1 .. Len(tree) : Workspace = tree[i]
  <2>1. CASE HasItem(tree, activeW)
    BY <1>1, <2>1, ItemPlace DEF Workspace
  <2>2. CASE ~HasItem(tree, activeW)
    <3>1. 1 \in 1 .. Len(tree)
      BY <1>1 DEF TreeCore
    <3>2. QED
      BY <2>2, <3>1 DEF Workspace
  <2>3. QED
    BY <2>1, <2>2
<1>3. QED
  BY <1>1, <1>2

\* A step that changes one workspace: X leaves it, and Y, new ids, comes.
LEMMA OneChanges ==
    ASSUME TreeCore, NEW i \in 1 .. Len(tree), NEW e \in GoodWorkspaces, e.id = tree[i].id,
           NEW X, NEW Y, WorkspaceRequests(e) = (WorkspaceRequests(tree[i]) \ X) \cup Y,
           X \cap kept \subseteq WorkspaceRequests(tree[i]), Y \subseteq nodes + 1 .. nodes',
           Names(e) \subseteq Names(tree[i]) \cup {nodes'},
           tree' = Put(tree, i, e), kept' = (kept \ X) \cup Y,
           nodes' \in {nodes, nodes + 1}, ready' = ready
    PROVE  TreeCore' /\ AllNames(tree) \subseteq AllNames(tree') \cup (Names(tree[i]) \ Names(e))
<1>1. /\ Forest(tree) /\ nodes \in Nat /\ FirstNode <= nodes /\ kept \subseteq 1 .. nodes
      /\ AllNames(tree) \subseteq 1 .. nodes /\ TreeRequests(tree) = kept
      /\ ~ready => \A r \in kept : r > FirstNode
      /\ FirstNode \in Nat /\ FirstNode > 0
  BY TreeAssumption DEF TreeCore
<1>2. /\ nodes' \in Nat /\ FirstNode <= nodes' /\ 1 .. nodes \subseteq 1 .. nodes' /\ nodes' \in 1 .. nodes'
      /\ \A r \in Y : r \in 1 .. nodes' /\ r \notin kept /\ r > FirstNode
  <2>1. /\ nodes' \in Nat /\ FirstNode <= nodes' /\ 1 .. nodes \subseteq 1 .. nodes'
        /\ nodes' \in 1 .. nodes'
    BY <1>1
  <2>2. \A r \in nodes + 1 .. nodes' : r \in 1 .. nodes' /\ r \notin 1 .. nodes /\ r > FirstNode
    BY <1>1, <2>1
  <2>3. QED
    BY <1>1, <2>1, <2>2
<1>3. WorkspaceRequests(e) \cap (TreeRequests(tree) \ WorkspaceRequests(tree[i])) = {}
  BY <1>1, <1>2
<1>4. /\ Forest(tree') /\ tree' # <<>>
      /\ TreeRequests(tree') = (TreeRequests(tree) \ WorkspaceRequests(tree[i])) \cup WorkspaceRequests(e)
      /\ AllNames(tree') \subseteq AllNames(tree) \cup Names(e)
      /\ AllNames(tree) \subseteq AllNames(tree') \cup (Names(tree[i]) \ Names(e))
  BY <1>1, <1>3, TreeChanged
<1>5. TreeRequests(tree') = kept'
  <2>1. WorkspaceRequests(tree[i]) \subseteq kept
    BY <1>1, SetOfList, InTree DEF Forest
  <2>2. QED
    BY <1>1, <1>4, <2>1
<1>6. AllNames(tree') \subseteq 1 .. nodes'
  <2>1. Names(tree[i]) \subseteq AllNames(tree)
    BY <1>1, SetOfList, InTree DEF Forest
  <2>2. QED
    BY <1>1, <1>2, <1>4, <2>1
<1>7. kept' \subseteq 1 .. nodes' /\ (~ready => \A r \in kept' : r > FirstNode)
  BY <1>1, <1>2
<1>8. QED
  BY <1>2, <1>4, <1>5, <1>6, <1>7 DEF TreeCore

\* Nothing leaves the tree but what the dialog named.
OnlyAsked == AllNames(tree) \subseteq AllNames(tree') \cup Named /\ kept \subseteq kept' \cup Named

\* A step that changes one list of one workspace.
LEMMA ListChanges ==
    ASSUME TreeCore, NEW i \in 1 .. Len(tree), NEW p, HasList(tree[i], p),
           NEW q \in Seq(Nat), Pairwise(q, Differ), NEW X, NEW Y,
           ToSet(q) = (ToSet(ListOf(tree[i], p)) \ X) \cup Y, X \subseteq ToSet(ListOf(tree[i], p)),
           Y \subseteq nodes + 1 .. nodes',
           tree' = Put(tree, i, WithList(tree[i], p, q)), kept' = (kept \ X) \cup Y,
           nodes' \in {nodes, nodes + 1}, ready' = ready
    PROVE  TreeCore' /\ AllNames(tree) \subseteq AllNames(tree')
<1> DEFINE ws == tree[i]
           e == WithList(ws, p, q)
<1>1. /\ Forest(tree) /\ TreeRequests(tree) = kept /\ kept \subseteq 1 .. nodes /\ nodes \in Nat
      /\ ws \in GoodWorkspaces
  BY TreePlaces DEF TreeCore
<1>2. WorkspaceRequests(ws) \subseteq kept
  BY <1>1, SetOfList, InTree DEF Forest
<1>3. ToSet(ListOf(ws, p)) \subseteq WorkspaceRequests(ws) /\ Pairwise(ListOf(ws, p), Differ)
  BY <1>1, ListPlace
<1>4. Y \cap kept = {}
  BY <1>1
<1>5. /\ e \in GoodWorkspaces /\ e.id = ws.id /\ Names(e) = Names(ws)
      /\ WorkspaceRequests(e) = (WorkspaceRequests(ws) \ ToSet(ListOf(ws, p))) \cup ToSet(q)
  <2>1. HasList(ws, p)
    OBVIOUS
  <2>2. ToSet(q) \cap (WorkspaceRequests(ws) \ ToSet(ListOf(ws, p))) = {}
    BY <1>2, <1>4
  <2> HIDE DEF ws
  <2>3. QED
    BY <1>1, <2>1, <2>2, ListReplaced
<1> HIDE DEF e
<1>6. WorkspaceRequests(e) = (WorkspaceRequests(ws) \ X) \cup Y
  BY <1>3, <1>5
<1>7. /\ X \cap kept \subseteq WorkspaceRequests(ws) /\ Names(e) \subseteq Names(ws) \cup {nodes'}
      /\ tree' = Put(tree, i, e)
  BY <1>3, <1>5 DEF e
<1>8. TreeCore' /\ AllNames(tree) \subseteq AllNames(tree') \cup (Names(ws) \ Names(e))
  BY <1>5, <1>6, <1>7, OneChanges
<1>9. QED
  BY <1>5, <1>8

\* A request that is new fits at the end of a list, and between two of it.
LEMMA RequestAdded ==
    ASSUME TreeCore, NEW i \in 1 .. Len(tree), NEW p, HasList(tree[i], p), NEW x \in Nat, x \notin kept
    PROVE  LET list == ListOf(tree[i], p)
           IN  /\ Append(list, x) \in Seq(Nat) /\ ToSet(Append(list, x)) = ToSet(list) \cup {x}
               /\ Pairwise(Append(list, x), Differ)
               /\ \A at \in 1 .. Len(list) + 1 :
                    /\ InsertAt(list, at, x) \in Seq(Nat)
                    /\ ToSet(InsertAt(list, at, x)) = ToSet(list) \cup {x}
                    /\ Pairwise(InsertAt(list, at, x), Differ)
<1> DEFINE list == ListOf(tree[i], p)
<1>1. Forest(tree) /\ TreeRequests(tree) = kept /\ tree[i] \in GoodWorkspaces
  BY TreePlaces DEF TreeCore
<1>2. WorkspaceRequests(tree[i]) \subseteq kept
  BY <1>1, SetOfList, InTree DEF Forest
<1>3. /\ list \in Seq(Nat) /\ Pairwise(list, Differ) /\ ToSet(list) \subseteq WorkspaceRequests(tree[i])
      /\ ToSet(list) \subseteq Nat
  BY <1>1, ListPlace, SetOfList
<1> HIDE DEF list
<1>4. Fits(x, ToSet(list), Differ)
  BY <1>2, <1>3 DEF Fits, Differ
<1>5. /\ Append(list, x) \in Seq(Nat) /\ ToSet(Append(list, x)) = ToSet(list) \cup {x}
      /\ Pairwise(Append(list, x), Differ)
  BY <1>3, <1>4, AppendedElement
<1>6. ASSUME NEW at \in 1 .. Len(list) + 1
      PROVE  /\ InsertAt(list, at, x) \in Seq(Nat)
             /\ ToSet(InsertAt(list, at, x)) = ToSet(list) \cup {x}
             /\ Pairwise(InsertAt(list, at, x), Differ)
  <2>1. /\ InsertAt(list, at, x) \in Seq(Nat)
        /\ ToSet(InsertAt(list, at, x)) = ToSet(list) \cup {x}
    <3> DEFINE N == Nat
    <3>1. list \in Seq(N) /\ x \in N
      BY <1>3
    <3> HIDE DEF N
    <3>2. InsertAt(list, at, x) \in Seq(N) /\ ToSet(InsertAt(list, at, x)) = ToSet(list) \cup {x}
      BY <3>1, InsertedElement
    <3>3. QED
      BY <3>2 DEF N
  <2>2. Pairwise(InsertAt(list, at, x), Differ)
    BY <1>3, <1>4, InsertedPairs
  <2>3. QED
    BY <2>1, <2>2
<1>7. QED
  BY <1>5, <1>6 DEF list

\* A request that is taken out of a list leaves the others in it.
LEMMA RequestDropped ==
    ASSUME NEW list \in Seq(Nat), Pairwise(list, Differ), NEW x
    PROVE  /\ Drop(list, x) \in Seq(Nat) /\ ToSet(Drop(list, x)) = ToSet(list) \ {x}
           /\ Pairwise(Drop(list, x), Differ)
<1> DEFINE P == {k \in DOMAIN list : list[k] # x}
<1>1. DOMAIN list = 1 .. Len(list) /\ ToSet(list) = {list[k] : k \in 1 .. Len(list)}
  BY SetOfList
<1>2. {list[k] : k \in P \cap (1 .. Len(list))} = ToSet(list) \ {x}
  BY <1>1
<1>3. Drop(list, x) = Kept(list, P)
  BY DEF Drop
<1> HIDE DEF P
<1>4. /\ Kept(list, P) \in Seq(Nat) /\ ToSet(Kept(list, P)) = {list[k] : k \in P \cap (1 .. Len(list))}
      /\ Pairwise(Kept(list, P), Differ)
  BY KeptPairs
<1>5. QED
  BY <1>2, <1>3, <1>4

\* A new request is after the others of its list.
LEMMA CreateRequest ==
    ASSUME TreeCore, NEW p, createRequest(p)
    PROVE  TreeCore' /\ OnlyAsked
<1>1. PICK i \in 1 .. Len(tree) :
        /\ Workspace = tree[i] /\ tree[i] \in GoodWorkspaces
        /\ \A k \in 1 .. Len(tree) : tree[k].id = tree[i].id <=> k = i
  BY ShownWorkspace
<1> DEFINE ws == tree[i]
           list == ListOf(ws, p)
           q == Append(list, nodes')
           e == WithList(ws, p, q)
<1>2. HasList(ws, p) /\ nodes' = nodes + 1 /\ kept' = kept \cup {nodes'} /\ ready' = ready
  BY <1>1 DEF createRequest
<1>3. DOMAIN tree = 1 .. Len(tree) /\ nodes \in Nat /\ kept \subseteq 1 .. nodes
  BY TreePlaces DEF TreeCore
<1>4. tree' = [k \in DOMAIN tree |-> IF tree[k].id = ws.id
                                      THEN OnList(tree[k], p, LAMBDA s : Append(s, nodes')) ELSE tree[k]]
  BY <1>1 DEF createRequest, OnWorkspace
<1>5. ASSUME NEW k \in DOMAIN tree, tree[k].id = ws.id
      PROVE  OnList(tree[k], p, LAMBDA s : Append(s, nodes')) = e /\ k = i
  <2>1. k = i
    BY <1>1, <1>3, <1>5
  <2>2. tree[k] \in GoodWorkspaces /\ HasList(tree[k], p)
    BY <1>1, <1>2, <2>1
  <2>3. OnList(tree[k], p, LAMBDA s : Append(s, nodes')) = WithList(tree[k], p, Append(ListOf(tree[k], p), nodes'))
    BY <2>2, ListAppended
  <2>4. QED
    BY <2>1, <2>3
<1>6. tree' = Put(tree, i, e)
  BY <1>3, <1>4, <1>5 DEF Put
<1>7. q \in Seq(Nat) /\ ToSet(q) = ToSet(list) \cup {nodes'} /\ Pairwise(q, Differ)
  BY <1>2, <1>3, RequestAdded
<1> HIDE DEF q, list, ws
<1>8. /\ ToSet(q) = (ToSet(list) \ {}) \cup {nodes'} /\ {} \subseteq ToSet(list)
      /\ {nodes'} \subseteq nodes + 1 .. nodes'
      /\ kept' = (kept \ {}) \cup {nodes'} /\ nodes' \in {nodes, nodes + 1}
  BY <1>2, <1>3, <1>7
<1>9. TreeCore' /\ AllNames(tree) \subseteq AllNames(tree')
  <2> DEFINE X == {}
  <2>1. /\ HasList(tree[i], p) /\ X \subseteq ToSet(ListOf(tree[i], p))
        /\ ToSet(q) = (ToSet(ListOf(tree[i], p)) \ X) \cup {nodes'}
        /\ tree' = Put(tree, i, WithList(tree[i], p, q)) /\ kept' = (kept \ X) \cup {nodes'}
    BY <1>2, <1>6, <1>8 DEF e, list, ws
  <2> HIDE DEF X
  <2>2. QED
    BY <1>2, <1>7, <1>8, <2>1, ListChanges
<1>10. QED
  BY <1>2, <1>9 DEF OnlyAsked

\* The copy of a request is a new one.
LEMMA DuplicateRequest ==
    ASSUME TreeCore, NEW p, NEW r, duplicateRequest(p, r)
    PROVE  TreeCore' /\ OnlyAsked
<1>1. PICK i \in 1 .. Len(tree) :
        /\ Workspace = tree[i] /\ tree[i] \in GoodWorkspaces
        /\ \A k \in 1 .. Len(tree) : tree[k].id = tree[i].id <=> k = i
  BY ShownWorkspace
<1> DEFINE ws == tree[i]
           list == ListOf(ws, p)
           q == InsertAt(list, IndexIn(list, r) + 1, nodes')
           e == WithList(ws, p, q)
<1>2. /\ HasList(ws, p) /\ nodes' = nodes + 1 /\ kept' = kept \cup {nodes'} /\ ready' = ready
      /\ r \in ToSet(list)
  BY <1>1 DEF duplicateRequest
<1>3. DOMAIN tree = 1 .. Len(tree) /\ nodes \in Nat /\ kept \subseteq 1 .. nodes
  BY TreePlaces DEF TreeCore
<1>4. tree' = [k \in DOMAIN tree |->
                 IF tree[k].id = ws.id
                 THEN OnList(tree[k], p, LAMBDA s : InsertAt(s, IndexIn(s, r) + 1, nodes')) ELSE tree[k]]
  BY <1>1 DEF duplicateRequest, OnWorkspace
<1>5. ASSUME NEW k \in DOMAIN tree, tree[k].id = ws.id
      PROVE  OnList(tree[k], p, LAMBDA s : InsertAt(s, IndexIn(s, r) + 1, nodes')) = e /\ k = i
  <2>1. k = i
    BY <1>1, <1>3, <1>5
  <2>2. tree[k] \in GoodWorkspaces /\ HasList(tree[k], p)
    BY <1>1, <1>2, <2>1
  <2>3. OnList(tree[k], p, LAMBDA s : InsertAt(s, IndexIn(s, r) + 1, nodes'))
          = WithList(tree[k], p, InsertAt(ListOf(tree[k], p), IndexIn(ListOf(tree[k], p), r) + 1, nodes'))
    BY <2>2, CopyInserted
  <2>4. QED
    BY <2>1, <2>3
<1>6. tree' = Put(tree, i, e)
  BY <1>3, <1>4, <1>5 DEF Put
<1>7. q \in Seq(Nat) /\ ToSet(q) = ToSet(list) \cup {nodes'} /\ Pairwise(q, Differ)
  <2>1. list \in Seq(Nat)
    BY <1>1, <1>2, ListPlace
  <2> HIDE DEF list
  <2>2. IndexIn(list, r) + 1 \in 1 .. Len(list) + 1
    <3>1. DOMAIN list = 1 .. Len(list) /\ Len(list) \in Nat /\ \E k \in DOMAIN list : list[k] = r
      BY <1>2, <2>1, SetOfList
    <3>2. IndexIn(list, r) \in 1 .. Len(list)
      BY <3>1 DEF IndexIn
    <3>3. QED
      BY <3>1, <3>2
  <2>3. \A at \in 1 .. Len(list) + 1 :
          /\ InsertAt(list, at, nodes') \in Seq(Nat)
          /\ ToSet(InsertAt(list, at, nodes')) = ToSet(list) \cup {nodes'}
          /\ Pairwise(InsertAt(list, at, nodes'), Differ)
    <3>1. nodes' \in Nat /\ nodes' \notin kept
      BY <1>2, <1>3
    <3> DEFINE x == nodes'
    <3>2. HasList(tree[i], p) /\ x \in Nat /\ x \notin kept
      BY <1>2, <3>1
    <3> HIDE DEF x
    <3>3. \A at \in 1 .. Len(ListOf(tree[i], p)) + 1 :
            /\ InsertAt(ListOf(tree[i], p), at, x) \in Seq(Nat)
            /\ ToSet(InsertAt(ListOf(tree[i], p), at, x)) = ToSet(ListOf(tree[i], p)) \cup {x}
            /\ Pairwise(InsertAt(ListOf(tree[i], p), at, x), Differ)
      BY <3>2, RequestAdded
    <3>4. QED
      BY <3>3 DEF list, x
  <2>4. QED
    BY <2>2, <2>3
<1> HIDE DEF q, list, ws
<1>8. /\ {nodes'} \subseteq nodes + 1 .. nodes' /\ nodes' \in {nodes, nodes + 1}
  BY <1>2, <1>3
<1>9. TreeCore' /\ AllNames(tree) \subseteq AllNames(tree')
  <2> DEFINE X == {}
  <2>1. /\ HasList(tree[i], p) /\ X \subseteq ToSet(ListOf(tree[i], p))
        /\ ToSet(q) = (ToSet(ListOf(tree[i], p)) \ X) \cup {nodes'}
        /\ tree' = Put(tree, i, WithList(tree[i], p, q)) /\ kept' = (kept \ X) \cup {nodes'}
    BY <1>2, <1>6, <1>7 DEF e, list, ws
  <2> HIDE DEF X
  <2>2. QED
    BY <1>2, <1>7, <1>8, <2>1, ListChanges
<1>10. QED
  BY <1>2, <1>9 DEF OnlyAsked

\* What an import adds to a workspace are new requests.
LEMMA ImportAdds ==
    ASSUME TreeCore, importAdds
    PROVE  TreeCore' /\ OnlyAsked
<1>1. PICK i \in 1 .. Len(tree) :
        /\ Workspace = tree[i] /\ tree[i] \in GoodWorkspaces
        /\ \A k \in 1 .. Len(tree) : tree[k].id = tree[i].id <=> k = i
  BY ShownWorkspace
<1> DEFINE ws == tree[i]
           list == ListOf(ws, None)
           q == Append(list, nodes')
           e == WithList(ws, None, q)
<1>2. /\ HasList(ws, None) /\ nodes' = nodes + 1 /\ kept' = kept \cup {nodes'} /\ ready' = ready
      /\ list = ws.requests
  BY <1>1 DEF importAdds, HasList, ListOf
<1>3. DOMAIN tree = 1 .. Len(tree) /\ nodes \in Nat /\ kept \subseteq 1 .. nodes
  BY TreePlaces DEF TreeCore
<1>4. tree' = [k \in DOMAIN tree |-> IF tree[k].id = ws.id
                                      THEN [tree[k] EXCEPT !.requests = Append(@, nodes')] ELSE tree[k]]
  BY <1>1 DEF importAdds, OnWorkspace
<1>5. e = [ws EXCEPT !.requests = Append(@, nodes')]
  BY <1>2 DEF WithList
<1>6. tree' = Put(tree, i, e)
  <2> HIDE DEF e
  <2>1. \A k \in DOMAIN tree : tree[k].id = ws.id <=> k = i
    BY <1>1, <1>3
  <2>2. QED
    BY <1>3, <1>4, <1>5, <2>1 DEF Put
<1>7. q \in Seq(Nat) /\ ToSet(q) = ToSet(list) \cup {nodes'} /\ Pairwise(q, Differ)
  BY <1>2, <1>3, RequestAdded
<1> HIDE DEF q, list, ws
<1>8. /\ {nodes'} \subseteq nodes + 1 .. nodes' /\ nodes' \in {nodes, nodes + 1}
  BY <1>2, <1>3
<1>9. TreeCore' /\ AllNames(tree) \subseteq AllNames(tree')
  <2> DEFINE X == {}
  <2>1. /\ HasList(tree[i], None) /\ X \subseteq ToSet(ListOf(tree[i], None))
        /\ ToSet(q) = (ToSet(ListOf(tree[i], None)) \ X) \cup {nodes'}
        /\ tree' = Put(tree, i, WithList(tree[i], None, q)) /\ kept' = (kept \ X) \cup {nodes'}
    BY <1>2, <1>6, <1>7 DEF e, list, ws
  <2> HIDE DEF X
  <2>2. QED
    BY <1>2, <1>7, <1>8, <2>1, ListChanges
<1>10. QED
  BY <1>2, <1>9 DEF OnlyAsked

\* A tree grows by a workspace with a new id, and new requests.
LEMMA WorkspaceAdded ==
    ASSUME TreeCore, NEW x \in nodes + 1 .. nodes', NEW q \in Seq(Nat), Pairwise(q, Differ),
           ToSet(q) \subseteq nodes + 1 .. nodes', nodes' \in Nat, nodes <= nodes', ready' = ready,
           tree' = Append(tree, [id |-> x, requests |-> q, projects |-> <<>>]), kept' = kept \cup ToSet(q)
    PROVE  TreeCore' /\ OnlyAsked
<1> DEFINE e == [id |-> x, requests |-> q, projects |-> <<>>]
<1>1. /\ Forest(tree) /\ nodes \in Nat /\ FirstNode <= nodes /\ kept \subseteq 1 .. nodes
      /\ AllNames(tree) \subseteq 1 .. nodes /\ TreeRequests(tree) = kept
      /\ ~ready => \A r \in kept : r > FirstNode
      /\ FirstNode \in Nat /\ FirstNode > 0
  BY TreeAssumption DEF TreeCore
<1>2. ToSet(<<>>) = {}
  BY DEF ToSet
<1>3. /\ e \in Workspaces /\ e.id = x /\ e.requests = q /\ e.projects = <<>>
  BY <1>1 DEF Workspaces
<1> HIDE DEF e
<1>4. e \in GoodWorkspaces
  <2>1. e.projects \in Seq(GoodProjects) /\ Pairwise(e.projects, ProjectPairs)
    BY <1>3 DEF Pairwise
  <2>2. \A p \in ToSet(e.projects) : ToSet(e.requests) \cap ToSet(p.requests) = {}
    BY <1>2, <1>3
  <2>3. QED
    BY <1>3, <2>1, <2>2 DEF GoodWorkspaces
<1>5. WorkspaceRequests(e) = ToSet(q) /\ Names(e) = {x}
  BY <1>2, <1>3 DEF WorkspaceRequests, Names
<1>6. /\ 1 .. nodes \subseteq 1 .. nodes' /\ x \in 1 .. nodes' /\ x \notin 1 .. nodes /\ FirstNode <= nodes'
      /\ \A r \in nodes + 1 .. nodes' : r \in 1 .. nodes' /\ r \notin 1 .. nodes /\ r > FirstNode
  BY <1>1
<1>7. \A ws \in ToSet(tree) : ws.id # e.id
  <2>1. \A ws \in ToSet(tree) : ws.id \in AllNames(tree)
    BY InTree DEF Names
  <2>2. QED
    BY <1>1, <1>3, <1>6, <2>1
<1>8. WorkspaceRequests(e) \cap TreeRequests(tree) = {}
  BY <1>1, <1>5, <1>6
<1>9. /\ Forest(tree') /\ tree' # <<>> /\ TreeRequests(tree') = kept'
      /\ AllNames(tree') = AllNames(tree) \cup {x}
  <2>1. tree' = Append(tree, e)
    BY DEF e
  <2>2. QED
    BY <1>1, <1>4, <1>5, <1>7, <1>8, <2>1, TreeGrown
<1>10. AllNames(tree') \subseteq 1 .. nodes' /\ kept' \subseteq 1 .. nodes'
  BY <1>1, <1>6, <1>9
<1>11. ~ready' => \A r \in kept' : r > FirstNode
  BY <1>1, <1>6
<1>12. QED
  BY <1>6, <1>9, <1>10, <1>11 DEF TreeCore, OnlyAsked

\* A new workspace has no requests.
LEMMA CreateWorkspace ==
    ASSUME TreeCore, createWorkspace
    PROVE  TreeCore' /\ OnlyAsked
<1>1. /\ nodes' = nodes + 1 /\ kept' = kept /\ ready' = ready /\ nodes \in Nat
      /\ tree' = Append(tree, [id |-> nodes', requests |-> <<>>, projects |-> <<>>])
  BY DEF createWorkspace, TreeCore
<1> DEFINE q == <<>>
<1>2. ToSet(q) = {} /\ q \in Seq(Nat) /\ Pairwise(q, Differ)
  BY DEF ToSet, Pairwise
<1> HIDE DEF q
<1>3. /\ nodes' \in nodes + 1 .. nodes' /\ nodes' \in Nat /\ nodes <= nodes' /\ kept' = kept \cup ToSet(q)
      /\ ToSet(q) \subseteq nodes + 1 .. nodes'
      /\ tree' = Append(tree, [id |-> nodes', requests |-> q, projects |-> <<>>])
  BY <1>1, <1>2 DEF q
<1>4. QED
  BY <1>1, <1>2, <1>3, WorkspaceAdded

\* An import into a workspace of its own adds new requests and new ids.
LEMMA ImportNew ==
    ASSUME TreeCore, importNew
    PROVE  TreeCore' /\ OnlyAsked
<1>1. /\ nodes' = nodes + 2 /\ kept' = kept \cup {nodes'} /\ ready' = ready /\ nodes \in Nat
      /\ tree' = Append(tree, [id |-> nodes + 1, requests |-> <<nodes'>>, projects |-> <<>>])
  BY DEF importNew, TreeCore
<1> DEFINE q == <<nodes'>>
           x == nodes + 1
<1>2. ToSet(q) = {nodes'} /\ q \in Seq(Nat) /\ Pairwise(q, Differ)
  BY <1>1 DEF ToSet, Pairwise
<1> HIDE DEF q
<1>3. /\ x \in nodes + 1 .. nodes' /\ nodes' \in Nat /\ nodes <= nodes' /\ kept' = kept \cup ToSet(q)
      /\ ToSet(q) \subseteq nodes + 1 .. nodes'
      /\ tree' = Append(tree, [id |-> x, requests |-> q, projects |-> <<>>])
  BY <1>1, <1>2 DEF q
<1> HIDE DEF x
<1>4. QED
  BY <1>1, <1>2, <1>3, WorkspaceAdded

\* A new project has no requests.
LEMMA CreateProject ==
    ASSUME TreeCore, createProject
    PROVE  TreeCore' /\ OnlyAsked
<1>1. PICK i \in 1 .. Len(tree) :
        /\ Workspace = tree[i] /\ tree[i] \in GoodWorkspaces
        /\ \A k \in 1 .. Len(tree) : tree[k].id = tree[i].id <=> k = i
  BY ShownWorkspace
<1> DEFINE ws == tree[i]
           e == [ws EXCEPT !.projects = Append(@, [id |-> nodes', requests |-> <<>>])]
<1>2. nodes' = nodes + 1 /\ kept' = kept /\ ready' = ready
  BY DEF createProject
<1>3. /\ DOMAIN tree = 1 .. Len(tree) /\ nodes \in Nat /\ kept \subseteq 1 .. nodes
      /\ Forest(tree) /\ AllNames(tree) \subseteq 1 .. nodes
  BY TreePlaces DEF TreeCore
<1>4. tree' = [k \in DOMAIN tree |->
                 IF tree[k].id = ws.id
                 THEN [tree[k] EXCEPT !.projects = Append(@, [id |-> nodes', requests |-> <<>>])]
                 ELSE tree[k]]
  BY <1>1 DEF createProject, OnWorkspace
<1>5. tree' = Put(tree, i, e)
  <2>1. \A k \in DOMAIN tree : tree[k].id = ws.id <=> k = i
    BY <1>1, <1>3
  <2>2. QED
    BY <1>3, <1>4, <2>1 DEF Put
<1>6. nodes' \in Nat \ {None} /\ nodes' \notin Names(ws)
  <2>1. Names(ws) \subseteq AllNames(tree)
    BY <1>3, SetOfList, InTree DEF Forest
  <2>2. QED
    BY <1>2, <1>3, <2>1 DEF None
<1>7. /\ e \in GoodWorkspaces /\ e.id = ws.id
      /\ WorkspaceRequests(e) = WorkspaceRequests(ws) /\ Names(e) = Names(ws) \cup {nodes'}
  <2> DEFINE x == nodes'
  <2>1. x \in Nat \ {None} /\ x \notin Names(ws)
    BY <1>6
  <2> HIDE DEF x
  <2>2. /\ [ws EXCEPT !.projects = Append(@, [id |-> x, requests |-> <<>>])] \in GoodWorkspaces
        /\ [ws EXCEPT !.projects = Append(@, [id |-> x, requests |-> <<>>])].id = ws.id
        /\ WorkspaceRequests([ws EXCEPT !.projects = Append(@, [id |-> x, requests |-> <<>>])])
             = WorkspaceRequests(ws)
        /\ Names([ws EXCEPT !.projects = Append(@, [id |-> x, requests |-> <<>>])]) = Names(ws) \cup {x}
    BY <1>1, <2>1, ProjectAdded
  <2>3. QED
    BY <2>2 DEF x
<1> HIDE DEF e
<1>8. TreeCore' /\ AllNames(tree) \subseteq AllNames(tree') \cup (Names(ws) \ Names(e))
  <2> DEFINE X == {}
             Y == {}
  <2>1. /\ WorkspaceRequests(e) = (WorkspaceRequests(ws) \ X) \cup Y /\ kept' = (kept \ X) \cup Y
        /\ X \cap kept \subseteq WorkspaceRequests(ws) /\ Y \subseteq nodes + 1 .. nodes'
        /\ Names(e) \subseteq Names(ws) \cup {nodes'} /\ nodes' \in {nodes, nodes + 1}
    BY <1>2, <1>7
  <2> HIDE DEF X, Y
  <2>2. QED
    BY <1>2, <1>5, <1>7, <2>1, OneChanges
<1>9. QED
  BY <1>2, <1>7, <1>8 DEF OnlyAsked

\* The workspace the dialog names.
LEMMA AskedWorkspace ==
    ASSUME TreeCore, NEW w, HasItem(tree, w)
    PROVE  \E i \in 1 .. Len(tree) :
              /\ ItemAt(tree, w) = tree[i] /\ tree[i] \in GoodWorkspaces /\ tree[i].id = w
              /\ \A k \in 1 .. Len(tree) : tree[k].id = w <=> k = i
<1>1. /\ tree \in Seq(GoodWorkspaces) /\ \A i, m \in 1 .. Len(tree) : tree[i].id = tree[m].id => i = m
  BY TreePlaces DEF TreeCore
<1>2. PICK i \in 1 .. Len(tree) :
        /\ ItemAt(tree, w) = tree[i] /\ tree[i].id = w
        /\ \A k \in 1 .. Len(tree) : tree[k].id = w <=> k = i
  BY <1>1, ItemPlace
<1>3. QED
  BY <1>1, <1>2

\* The request the dialog named is all that goes.
LEMMA RequestDeleted ==
    ASSUME TreeCore, AskedIsThere, deleteRequest
    PROVE  TreeCore' /\ OnlyAsked
<1> DEFINE w == asking.w
           p == asking.p
           r == asking.r
           siblings == IF HasList(ItemAt(tree, w), p) THEN ListOf(ItemAt(tree, w), p)
                       ELSE ItemAt(tree, w).requests
<1>1. asking.type = "request" /\ nodes' = nodes /\ ready' = ready
  BY DEF deleteRequest
<1>2. CASE ~(HasItem(tree, w) /\ r \in ToSet(siblings))
  <2>1. UNCHANGED <<tree, kept>>
    BY <1>2 DEF deleteRequest
  <2>2. QED
    BY <1>1, <2>1 DEF TreeCore, OnlyAsked
<1>3. CASE HasItem(tree, w) /\ r \in ToSet(siblings)
  <2>1. PICK i \in 1 .. Len(tree) :
          /\ ItemAt(tree, w) = tree[i] /\ tree[i] \in GoodWorkspaces /\ tree[i].id = w
          /\ \A k \in 1 .. Len(tree) : tree[k].id = w <=> k = i
    BY <1>3, AskedWorkspace
  <2> DEFINE ws == tree[i]
             list == ListOf(ws, p)
             q == Drop(list, r)
             e == WithList(ws, p, q)
  <2>2. /\ DOMAIN tree = 1 .. Len(tree) /\ Forest(tree) /\ ToSet(tree) = {tree[k] : k \in 1 .. Len(tree)}
    BY TreePlaces DEF TreeCore
  <2>3. r \in TreeRequests(tree)
    <3>1. r \in WorkspaceRequests(ws)
      <4>1. CASE HasList(ws, p)
        BY <1>3, <2>1, <4>1, ListPlace
      <4>2. CASE ~HasList(ws, p)
        BY <1>3, <2>1, <4>2 DEF WorkspaceRequests
      <4>3. QED
        BY <4>1, <4>2
    <3>2. QED
      BY <2>2, <3>1, InTree
  <2>4. HasList(ws, p) /\ r \in ToSet(list)
    <3>1. PICK y \in ToSet(tree) : y.id = w /\ HasList(y, p) /\ r \in ToSet(ListOf(y, p))
      BY <1>1, <2>3 DEF AskedIsThere
    <3>2. y = ws
      BY <2>1, <2>2, <3>1
    <3>3. QED
      BY <3>1, <3>2
  <2>5. /\ kept' = kept \ {r}
        /\ tree' = [k \in DOMAIN tree |-> IF tree[k].id = w
                                          THEN OnList(tree[k], p, LAMBDA s : Drop(s, r)) ELSE tree[k]]
    BY <1>3 DEF deleteRequest, OnWorkspace
  <2>6. ASSUME NEW k \in DOMAIN tree, tree[k].id = w
        PROVE  OnList(tree[k], p, LAMBDA s : Drop(s, r)) = e /\ k = i
    <3>1. k = i
      BY <2>1, <2>2, <2>6
    <3>2. tree[k] \in GoodWorkspaces /\ HasList(tree[k], p)
      BY <2>1, <2>4, <3>1
    <3>3. OnList(tree[k], p, LAMBDA s : Drop(s, r)) = WithList(tree[k], p, Drop(ListOf(tree[k], p), r))
      BY <3>2, ListDropped
    <3>4. QED
      BY <3>1, <3>3
  <2>7. tree' = Put(tree, i, e)
    BY <2>1, <2>2, <2>5, <2>6 DEF Put
  <2>8. q \in Seq(Nat) /\ ToSet(q) = ToSet(list) \ {r} /\ Pairwise(q, Differ)
    BY <2>1, <2>4, ListPlace, RequestDropped
  <2> HIDE DEF q, list, ws, p, r, w
  <2>9. TreeCore' /\ AllNames(tree) \subseteq AllNames(tree')
    <3> DEFINE X == {r}
               Y == {}
    <3>1. /\ HasList(tree[i], p) /\ X \subseteq ToSet(ListOf(tree[i], p))
          /\ ToSet(q) = (ToSet(ListOf(tree[i], p)) \ X) \cup Y /\ Y \subseteq nodes + 1 .. nodes'
          /\ tree' = Put(tree, i, WithList(tree[i], p, q)) /\ kept' = (kept \ X) \cup Y
          /\ nodes' \in {nodes, nodes + 1}
      BY <1>1, <2>4, <2>5, <2>7, <2>8 DEF e, list, ws
    <3> HIDE DEF X, Y
    <3>2. QED
      BY <1>1, <2>8, <3>1, ListChanges
  <2>10. r \in Named
    BY DEF Named, r
  <2>11. QED
    BY <2>5, <2>9, <2>10 DEF OnlyAsked
<1>4. QED
  BY <1>2, <1>3

\* The project the dialog named goes with its requests.
LEMMA ProjectDeleted ==
    ASSUME TreeCore, deleteProject
    PROVE  TreeCore' /\ OnlyAsked
<1> DEFINE w == asking.w
           p == asking.p
<1>1. asking.type = "project" /\ nodes' = nodes /\ ready' = ready
  BY DEF deleteProject
<1>2. CASE ~(HasItem(tree, w) /\ HasItem(ItemAt(tree, w).projects, p))
  <2>1. UNCHANGED <<tree, kept>>
    BY <1>2 DEF deleteProject
  <2>2. QED
    BY <1>1, <2>1 DEF TreeCore, OnlyAsked
<1>3. CASE HasItem(tree, w) /\ HasItem(ItemAt(tree, w).projects, p)
  <2>1. PICK i \in 1 .. Len(tree) :
          /\ ItemAt(tree, w) = tree[i] /\ tree[i] \in GoodWorkspaces /\ tree[i].id = w
          /\ \A k \in 1 .. Len(tree) : tree[k].id = w <=> k = i
    BY <1>3, AskedWorkspace
  <2> DEFINE ws == tree[i]
             gone == ToSet(ListOf(ws, p))
             e == [ws EXCEPT !.projects = DropId(@, p)]
  <2>2. DOMAIN tree = 1 .. Len(tree)
    BY TreePlaces DEF TreeCore
  <2>3. kept' = kept \ gone
    BY <1>3, <2>1 DEF deleteProject
  <2>4. tree' = [k \in DOMAIN tree |-> IF tree[k].id = w
                                       THEN [tree[k] EXCEPT !.projects = DropId(@, p)] ELSE tree[k]]
    BY <1>3 DEF deleteProject, OnWorkspace
  <2>5. tree' = Put(tree, i, e)
    <3>1. \A k \in DOMAIN tree : tree[k].id = w <=> k = i
      BY <2>1, <2>2
    <3>2. QED
      BY <2>2, <2>4, <3>1 DEF Put
  <2>6. /\ e \in GoodWorkspaces /\ e.id = ws.id /\ WorkspaceRequests(e) = WorkspaceRequests(ws) \ gone
        /\ Names(e) \subseteq Names(ws) /\ Names(ws) \subseteq Names(e) \cup {p}
    BY <1>3, <2>1, ProjectRemoved
  <2>7. gone \subseteq WorkspaceRequests(ws)
    <3>1. HasList(ws, p)
      BY <1>3, <2>1 DEF HasList
    <3>2. QED
      BY <2>1, <3>1, ListPlace
  <2>8. gone \subseteq Named /\ p \in Named
    BY <1>1, <1>3, <2>1 DEF Named
  <2> HIDE DEF e, gone, p, w
  <2>9. TreeCore' /\ AllNames(tree) \subseteq AllNames(tree') \cup (Names(ws) \ Names(e))
    <3> DEFINE Y == {}
    <3>1. /\ WorkspaceRequests(e) = (WorkspaceRequests(ws) \ gone) \cup Y /\ kept' = (kept \ gone) \cup Y
          /\ gone \cap kept \subseteq WorkspaceRequests(ws) /\ Y \subseteq nodes + 1 .. nodes'
          /\ Names(e) \subseteq Names(ws) \cup {nodes'} /\ nodes' \in {nodes, nodes + 1}
      BY <1>1, <2>3, <2>6, <2>7
    <3> HIDE DEF Y
    <3>2. QED
      BY <1>1, <2>5, <2>6, <3>1, OneChanges
  <2>10. QED
    BY <2>3, <2>6, <2>8, <2>9 DEF OnlyAsked
<1>4. QED
  BY <1>2, <1>3

\* The workspace the dialog named goes with its requests, and another one stays.
LEMMA WorkspaceDeleted ==
    ASSUME TreeCore, deleteWorkspace
    PROVE  TreeCore' /\ OnlyAsked
<1> DEFINE w == asking.w
<1>1. asking.type = "workspace" /\ nodes' = nodes /\ ready' = ready
  BY DEF deleteWorkspace
<1>2. CASE ~Deletable(w)
  <2>1. UNCHANGED <<tree, kept>>
    BY <1>2 DEF deleteWorkspace
  <2>2. QED
    BY <1>1, <2>1 DEF TreeCore, OnlyAsked
<1>3. CASE Deletable(w)
  <2> DEFINE e == ItemAt(tree, w)
  <2>1. tree' = DropId(tree, w) /\ kept' = kept \ WorkspaceRequests(e)
    BY <1>3 DEF deleteWorkspace, Deleted
  <2>2. Forest(tree) /\ HasItem(tree, w) /\ Len(tree) > 1
    BY <1>3 DEF TreeCore, Deletable
  <2>3. /\ Forest(tree') /\ tree' # <<>> /\ TreeRequests(tree') = TreeRequests(tree) \ WorkspaceRequests(e)
        /\ AllNames(tree') \subseteq AllNames(tree) /\ AllNames(tree) \subseteq AllNames(tree') \cup Names(e)
    BY <2>1, <2>2, TreeShrunk
  <2>4. WorkspaceRequests(e) \subseteq Named /\ Names(e) \subseteq Named
    <3>1. e.id = w
      BY <2>2 DEF HasItem, ItemAt
    <3>2. QED
      BY <1>1, <2>2, <3>1 DEF Named, Names
  <2> HIDE DEF e
  <2>5. TreeCore'
    BY <1>1, <2>1, <2>3 DEF TreeCore
  <2>6. QED
    BY <2>1, <2>3, <2>4, <2>5 DEF OnlyAsked
<1>4. QED
  BY <1>2, <1>3

\* A request that is dragged is in one list before and after.
LEMMA RequestMoved ==
    ASSUME NEW ws \in GoodWorkspaces, NEW d, NEW t, NEW after \in {0, 1}
    PROVE  LET new == Moved(ws, d, t, after) IN
             /\ new \in GoodWorkspaces /\ new.id = ws.id
             /\ WorkspaceRequests(new) = WorkspaceRequests(ws) /\ Names(new) = Names(ws)
<1> DEFINE x == d.node
           p == d.p
           to == IF t.type = "workspace" THEN None ELSE t.p
           out == OnList(ws, p, LAMBDA q : Drop(q, x))
           into == ListOf(out, to)
           at == IF t.type = "request" /\ t.r \in ToSet(into)
                 THEN IndexIn(into, t.r) + after ELSE Len(into) + 1
           Moves == HasList(ws, p) /\ HasList(ws, to) /\ x \in ToSet(ListOf(ws, p))
<1>1. CASE ~Moves
  BY <1>1 DEF Moved
<1>2. CASE Moves
  <2>1. Moved(ws, d, t, after) = OnList(out, to, LAMBDA q : InsertAt(q, at, x))
    BY <1>2 DEF Moved
  <2> DEFINE list == ListOf(ws, p)
             rest == Drop(list, x)
  <2>2. /\ HasList(ws, p) /\ HasList(ws, to) /\ x \in ToSet(list)
        /\ list \in Seq(Nat) /\ Pairwise(list, Differ) /\ ToSet(list) \subseteq WorkspaceRequests(ws)
    BY <1>2, ListPlace
  <2>3. rest \in Seq(Nat) /\ ToSet(rest) = ToSet(list) \ {x} /\ Pairwise(rest, Differ)
    BY <2>2, RequestDropped
  <2>4. out = WithList(ws, p, rest)
    BY <2>2, ListDropped
  <2> HIDE DEF out, rest, list, to, at, into
  <2>5. /\ out \in GoodWorkspaces /\ out.id = ws.id /\ Names(out) = Names(ws)
        /\ WorkspaceRequests(out) = (WorkspaceRequests(ws) \ ToSet(ListOf(ws, p))) \cup ToSet(rest)
        /\ HasList(out, to)
    <3>1. ToSet(rest) \cap (WorkspaceRequests(ws) \ ToSet(ListOf(ws, p))) = {}
      BY <2>3 DEF list
    <3> DEFINE new == WithList(ws, p, rest)
    <3>2. /\ new \in GoodWorkspaces /\ new.id = ws.id /\ Names(new) = Names(ws)
          /\ WorkspaceRequests(new) = (WorkspaceRequests(ws) \ ToSet(ListOf(ws, p))) \cup ToSet(rest)
          /\ \A q : HasList(new, q) <=> HasList(ws, q)
      BY <2>2, <2>3, <3>1, ListReplaced
    <3>3. QED
      BY <2>2, <2>4, <3>2
  <2>6. WorkspaceRequests(out) = WorkspaceRequests(ws) \ {x} /\ x \in WorkspaceRequests(ws)
    BY <2>2, <2>3, <2>5 DEF list
  <2>7. /\ into \in Seq(Nat) /\ Pairwise(into, Differ) /\ ToSet(into) \subseteq WorkspaceRequests(out)
        /\ ToSet(into) \subseteq Nat
    BY <2>5, ListPlace, SetOfList DEF into
  <2>8. x \in Nat
    BY <2>2, SetOfList
  <2>9. at \in 1 .. Len(into) + 1
    <3>1. DOMAIN into = 1 .. Len(into) /\ Len(into) \in Nat
      BY <2>7
    <3>2. CASE t.type = "request" /\ t.r \in ToSet(into)
      <4>1. \E k \in DOMAIN into : into[k] = t.r
        BY <3>2 DEF ToSet
      <4>2. IndexIn(into, t.r) \in 1 .. Len(into)
        BY <3>1, <4>1 DEF IndexIn
      <4>3. at = IndexIn(into, t.r) + after
        BY <3>2 DEF at
      <4>4. QED
        BY <3>1, <4>2, <4>3
    <3>3. CASE ~(t.type = "request" /\ t.r \in ToSet(into))
      BY <3>1, <3>3 DEF at
    <3>4. QED
      BY <3>2, <3>3
  <2> DEFINE q == InsertAt(into, at, x)
             new == WithList(out, to, q)
  <2>10. q \in Seq(Nat) /\ ToSet(q) = ToSet(into) \cup {x} /\ Pairwise(q, Differ)
    <3> DEFINE N == Nat
    <3>1. into \in Seq(N) /\ x \in N
      BY <2>7, <2>8
    <3>2. Fits(x, ToSet(into), Differ)
      BY <2>6, <2>7, <2>8 DEF Fits, Differ
    <3> HIDE DEF N, x
    <3>3. q \in Seq(N) /\ ToSet(q) = ToSet(into) \cup {x}
      <4>1. at \in 1 .. Len(into) + 1
        BY <2>9
      <4>2. QED
        BY <3>1, <4>1, InsertedElement
    <3>4. Pairwise(q, Differ)
      BY <2>7, <2>9, <3>1, <3>2, InsertedPairs
    <3>5. QED
      BY <3>3, <3>4 DEF N
  <2>11. Moved(ws, d, t, after) = new
    BY <2>1, <2>5, ListInserted, ZenonT(30) DEF into
  <2> HIDE DEF q
  <2>12. /\ new \in GoodWorkspaces /\ new.id = out.id /\ Names(new) = Names(out)
         /\ WorkspaceRequests(new) = (WorkspaceRequests(out) \ ToSet(into)) \cup ToSet(q)
    <3>1. ToSet(q) \cap (WorkspaceRequests(out) \ ToSet(ListOf(out, to))) = {}
      BY <2>6, <2>10 DEF into
    <3>2. /\ new \in GoodWorkspaces /\ new.id = out.id /\ Names(new) = Names(out)
          /\ WorkspaceRequests(new) = (WorkspaceRequests(out) \ ToSet(ListOf(out, to))) \cup ToSet(q)
      BY <2>5, <2>10, <3>1, ListReplaced
    <3>3. QED
      BY <3>2 DEF into
  <2> HIDE DEF new
  <2>13. WorkspaceRequests(new) = WorkspaceRequests(ws)
    BY <2>6, <2>7, <2>10, <2>12
  <2>14. QED
    BY <2>5, <2>11, <2>12, <2>13
<1>3. QED
  BY <1>1, <1>2

\* A drop that changes a workspace, or none, leaves its requests and its ids in it.
LEMMA DropKeepsAll ==
    ASSUME TreeCore, UNCHANGED <<nodes, kept, ready>>, NEW w, NEW f,
           tree' = [k \in DOMAIN tree |-> IF tree[k].id = w THEN f[k] ELSE tree[k]],
           \A k \in 1 .. Len(tree) :
              /\ f[k] \in GoodWorkspaces /\ f[k].id = tree[k].id
              /\ WorkspaceRequests(f[k]) = WorkspaceRequests(tree[k]) /\ Names(f[k]) = Names(tree[k])
    PROVE  TreeCore' /\ OnlyAsked
<1>1. /\ DOMAIN tree = 1 .. Len(tree) /\ tree \in Seq(GoodWorkspaces)
      /\ \A i, m \in 1 .. Len(tree) : tree[i].id = tree[m].id => i = m
  BY TreePlaces DEF TreeCore
<1>2. CASE \E k \in 1 .. Len(tree) : tree[k].id = w
  <2>1. PICK i \in 1 .. Len(tree) : tree[i].id = w
    BY <1>2
  <2> DEFINE e == f[i]
  <2>2. \A k \in DOMAIN tree : tree[k].id = w <=> k = i
    BY <1>1, <2>1
  <2>3. tree' = Put(tree, i, e)
    BY <1>1, <2>2 DEF Put
  <2>4. /\ e \in GoodWorkspaces /\ e.id = tree[i].id
        /\ WorkspaceRequests(e) = WorkspaceRequests(tree[i]) /\ Names(e) = Names(tree[i])
    OBVIOUS
  <2> HIDE DEF e
  <2>5. TreeCore' /\ AllNames(tree) \subseteq AllNames(tree') \cup (Names(tree[i]) \ Names(e))
    <3> DEFINE X == {}
               Y == {}
    <3>1. /\ WorkspaceRequests(e) = (WorkspaceRequests(tree[i]) \ X) \cup Y /\ kept' = (kept \ X) \cup Y
          /\ X \cap kept \subseteq WorkspaceRequests(tree[i]) /\ Y \subseteq nodes + 1 .. nodes'
          /\ Names(e) \subseteq Names(tree[i]) \cup {nodes'} /\ nodes' \in {nodes, nodes + 1}
          /\ ready' = ready
      BY <2>4
    <3> HIDE DEF X, Y
    <3>2. QED
      BY <2>3, <2>4, <3>1, OneChanges, ZenonT(30)
  <2>6. QED
    BY <2>4, <2>5 DEF OnlyAsked
<1>3. CASE ~\E k \in 1 .. Len(tree) : tree[k].id = w
  <2>1. tree' = [k \in DOMAIN tree |-> tree[k]]
    BY <1>1, <1>3
  <2>2. tree' = tree
    BY <1>1, <2>1
  <2>3. QED
    BY <2>2 DEF TreeCore, OnlyAsked
<1>4. QED
  BY <1>2, <1>3

\* A drop moves what is dragged and loses nothing.
LEMMA FinishDrag ==
    ASSUME TreeCore, DragOK, NEW under, NEW after \in {0, 1}, finishDrag(under, after)
    PROVE  TreeCore' /\ OnlyAsked
<1> DEFINE t == IF under \in Targets /\ canDropTreeNode(drag, under) THEN under ELSE drag.over
<1>1. drag # NoDrag /\ UNCHANGED <<nodes, kept, ready>>
  BY DEF finishDrag
<1>2. \A k \in 1 .. Len(tree) : tree[k] \in GoodWorkspaces
  BY TreePlaces DEF TreeCore
<1>3. DOMAIN tree = 1 .. Len(tree)
  BY TreePlaces DEF TreeCore
<1>4. CASE ~canDropTreeNode(drag, t)
  <2>1. UNCHANGED tree
    BY <1>4 DEF finishDrag
  <2>2. QED
    BY <1>1, <2>1 DEF TreeCore, OnlyAsked
<1>5. CASE canDropTreeNode(drag, t) /\ drag.type = "project"
  <2> DEFINE f == [k \in DOMAIN tree |-> MovedProject(tree[k], drag, t, after)]
  <2>1. tree' = OnWorkspace(drag.w, LAMBDA ws : MovedProject(ws, drag, t, after))
    BY <1>5 DEF finishDrag
  <2>2. tree' = [k \in DOMAIN tree |->
                   IF tree[k].id = drag.w THEN MovedProject(tree[k], drag, t, after) ELSE tree[k]]
    BY <2>1 DEF OnWorkspace
  <2> HIDE DEF t
  <2>3. tree' = [k \in DOMAIN tree |-> IF tree[k].id = drag.w THEN f[k] ELSE tree[k]]
    BY <2>2
  <2>4. ASSUME NEW k \in 1 .. Len(tree)
        PROVE  /\ f[k] \in GoodWorkspaces /\ f[k].id = tree[k].id
               /\ WorkspaceRequests(f[k]) = WorkspaceRequests(tree[k]) /\ Names(f[k]) = Names(tree[k])
    <3>1. f[k] = MovedProject(tree[k], drag, t, after)
      BY <1>3
    <3> HIDE DEF f
    <3>2. QED
      BY <1>2, <3>1, ProjectMoved
  <2> HIDE DEF f
  <2>5. QED
    BY <1>1, <2>3, <2>4, DropKeepsAll
<1>6. CASE canDropTreeNode(drag, t) /\ drag.type = "request"
  <2> DEFINE f == [k \in DOMAIN tree |-> Moved(tree[k], drag, t, after)]
  <2>1. tree' = OnWorkspace(drag.w, LAMBDA ws : Moved(ws, drag, t, after))
    BY <1>6 DEF finishDrag
  <2>2. tree' = [k \in DOMAIN tree |->
                   IF tree[k].id = drag.w THEN Moved(tree[k], drag, t, after) ELSE tree[k]]
    BY <2>1 DEF OnWorkspace
  <2> HIDE DEF t
  <2>3. tree' = [k \in DOMAIN tree |-> IF tree[k].id = drag.w THEN f[k] ELSE tree[k]]
    BY <2>2
  <2>4. ASSUME NEW k \in 1 .. Len(tree)
        PROVE  /\ f[k] \in GoodWorkspaces /\ f[k].id = tree[k].id
               /\ WorkspaceRequests(f[k]) = WorkspaceRequests(tree[k]) /\ Names(f[k]) = Names(tree[k])
    <3>1. f[k] = Moved(tree[k], drag, t, after)
      BY <1>3
    <3> HIDE DEF f
    <3>2. QED
      BY <1>2, <3>1, RequestMoved
  <2> HIDE DEF f
  <2>5. QED
    BY <1>1, <2>3, <2>4, DropKeepsAll
<1>7. QED
  BY <1>1, <1>4, <1>5, <1>6 DEF DragOK

\* What is stored takes the place of the tree.
LEMMA LoadTree ==
    ASSUME TreeCore, NEW t \in StoredTrees, Load(t)
    PROVE  TreeCore' /\ ready' /\ ~ready /\ ((tree' = tree /\ kept' = kept) \/ kept' \subseteq 1 .. FirstNode)
<1>1. ready' = TRUE /\ ~ready /\ nodes' = nodes
  BY DEF Load
<1>2. CASE t = <<>>
  BY <1>1, <1>2 DEF Load, TreeCore
<1>3. CASE t # <<>>
  <2>1. tree' = t /\ kept' = TreeRequests(t)
    BY <1>3 DEF Load
  <2>2. t \in Seq(Workspaces) /\ EachAtOnePlace(t) /\ IdsApart(t, FirstNode) /\ FirstNode \in Nat
    BY TreeAssumption
  <2>3. Forest(t) /\ TreeRequests(t) \subseteq 1 .. FirstNode /\ AllNames(t) \subseteq 1 .. FirstNode
    BY <2>2, PlacesToForest
  <2>4. nodes \in Nat /\ 1 .. FirstNode \subseteq 1 .. nodes /\ FirstNode <= nodes
    BY <2>2 DEF TreeCore
  <2>5. QED
    BY <1>1, <1>3, <2>1, <2>3, <2>4 DEF TreeCore
<1>4. QED
  BY <1>2, <1>3

\* What most steps do not touch.
LEMMA TreeRests ==
    ASSUME TreeCore, UNCHANGED <<tree, nodes, kept, ready>>
    PROVE  TreeCore' /\ OnlyAsked
  BY DEF TreeCore, OnlyAsked

\* The dialog about a request opens on one that is there.
LEMMA AsksForRequest ==
    ASSUME TreeCore, NEW p, NEW r, requestDeleteRequest(p, r)
    PROVE  AskedIsThere' /\ drag' = NoDrag
<1>1. /\ HasList(Workspace, p) /\ r \in ToSet(ListOf(Workspace, p))
      /\ asking' = [type |-> "request", w |-> Workspace.id, p |-> p, r |-> r]
      /\ UNCHANGED <<tree, ready, nodes, kept, drag>> /\ drag = NoDrag
  BY DEF requestDeleteRequest, Ask, Usable
<1>2. PICK i \in 1 .. Len(tree) : Workspace = tree[i] /\ tree[i] \in GoodWorkspaces
  BY ShownWorkspace
<1>3. tree[i] \in ToSet(tree) /\ Forest(tree) /\ TreeRequests(tree) = kept
  BY SetOfList DEF TreeCore, Forest
<1>4. r \in kept
  <2>1. r \in WorkspaceRequests(tree[i])
    BY <1>1, <1>2, ListPlace
  <2>2. QED
    BY <1>3, <2>1, InTree
<1>5. asking'.w = tree[i].id /\ asking'.p = p /\ asking'.r = r
  BY <1>1, <1>2
<1>6. ~ready' => asking'.r > FirstNode
  BY <1>1, <1>4, <1>5 DEF TreeCore
<1>7. HasList(tree[i], asking'.p) /\ asking'.r \in ToSet(ListOf(tree[i], asking'.p))
  BY <1>1, <1>2, <1>5
<1>8. QED
  BY <1>1, <1>3, <1>5, <1>6, <1>7 DEF AskedIsThere

\* Every step keeps the tree as it should be, and only the load takes what was not asked for.
LEMMA TreeStep ==
    ASSUME TreeInv, TreeNext
    PROVE  TreeInv' /\ (ready' = ready => OnlyAsked)
<1> DEFINE Idle == asking = NoAsk /\ drag = NoDrag /\ UNCHANGED <<asking, drag>>
<1>1. TreeCore /\ DragOK /\ AskedIsThere /\ (asking = NoAsk \/ drag = NoDrag)
  BY DEF TreeInv
<1>2. ASSUME TreeCore', OnlyAsked, asking' = NoAsk, DragOK'
      PROVE  TreeInv' /\ OnlyAsked
  <2>1. AskedIsThere'
    BY <1>2 DEF AskedIsThere, NoAsk
  <2>2. QED
    BY <1>2, <2>1 DEF TreeInv
<1>3. ASSUME TreeCore', OnlyAsked, Usable, UNCHANGED <<asking, drag>>
      PROVE  TreeInv' /\ OnlyAsked
  BY <1>1, <1>2, <1>3 DEF Usable, DragOK
<1>4. ASSUME UNCHANGED <<tree, nodes, kept, ready, asking, drag>>, Usable
      PROVE  TreeInv' /\ OnlyAsked
  BY <1>1, <1>3, <1>4, TreeRests
<1>5. ASSUME NEW t \in StoredTrees, Load(t) PROVE TreeInv' /\ ready' # ready
  <2>1. /\ TreeCore' /\ ready' /\ ~ready
        /\ (tree' = tree /\ kept' = kept) \/ kept' \subseteq 1 .. FirstNode
    BY <1>1, <1>5, LoadTree
  <2>2. UNCHANGED <<asking, drag>>
    BY <1>5 DEF Load
  <2>3. AskedIsThere'
    <3>1. CASE tree' = tree
      BY <1>1, <2>1, <2>2, <3>1 DEF AskedIsThere
    <3>2. CASE kept' \subseteq 1 .. FirstNode
      <4>1. SUFFICES ASSUME asking.type = "request"
                     PROVE  ~(asking.r \in TreeRequests(tree'))
        BY <2>1, <2>2 DEF AskedIsThere
      <4>2. asking.r > FirstNode /\ TreeRequests(tree') = kept' /\ FirstNode \in Nat
        BY <1>1, <2>1, <4>1, TreeAssumption DEF AskedIsThere, TreeCore
      <4>3. \A r \in 1 .. FirstNode : ~(r > FirstNode)
        BY <4>2
      <4>4. QED
        BY <3>2, <4>2, <4>3
    <3>3. QED
      BY <2>1, <3>1, <3>2
  <2>4. QED
    BY <1>1, <2>1, <2>2, <2>3 DEF TreeInv, DragOK
<1>6. ASSUME NEW p, NEW r,
             selectWorkspace(p) \/ selectProject(p) \/ selectRequest(p, r) \/ importOverwrites(p, r)
             \/ openEnvironmentTab \/ openShareTab \/ closeEnvironmentTab \/ closeShareTab
             \/ closeRequestTab(r)
      PROVE  TreeInv' /\ OnlyAsked
  <2>1. UNCHANGED <<tree, nodes, kept, ready, asking, drag>> /\ Usable
    BY <1>6 DEF selectWorkspace, selectProject, selectRequest, importOverwrites, openEnvironmentTab,
                openShareTab, closeEnvironmentTab, closeShareTab, closeRequestTab
  <2>2. QED
    BY <1>4, <2>1
<1>7. ASSUME NEW p, NEW r,
             createRequest(p) \/ duplicateRequest(p, r) \/ createWorkspace \/ createProject
             \/ importNew \/ importAdds
      PROVE  TreeInv' /\ OnlyAsked
  <2>1. UNCHANGED <<asking, drag>> /\ Usable
    BY <1>7 DEF createRequest, duplicateRequest, createWorkspace, createProject, importNew, importAdds
  <2>2. TreeCore' /\ OnlyAsked
    BY <1>1, <1>7, CreateRequest, DuplicateRequest, CreateWorkspace, CreateProject, ImportNew, ImportAdds
  <2>3. QED
    BY <1>3, <2>1, <2>2
<1>8. ASSUME NEW type \in {"project", "request"}, NEW p, NEW n, startDrag(type, p, n)
      PROVE  TreeInv' /\ OnlyAsked
  <2>1. /\ UNCHANGED <<tree, nodes, kept, ready, asking>> /\ asking = NoAsk
        /\ drag' = [NoDrag EXCEPT !.type = type, !.w = Workspace.id, !.p = p, !.node = n]
    BY <1>8 DEF startDrag, Usable
  <2>2. DragOK'
    BY <1>8, <2>1 DEF DragOK, NoDrag
  <2>3. QED
    BY <1>1, <1>2, <2>1, <2>2, TreeRests
<1>9. ASSUME NEW t, dragOver(t) PROVE TreeInv' /\ OnlyAsked
  <2>1. /\ UNCHANGED <<tree, nodes, kept, ready, asking>> /\ drag # NoDrag
        /\ drag' = [drag EXCEPT !.over = t]
    BY <1>9 DEF dragOver
  <2>2. DragOK'
    BY <1>1, <2>1 DEF DragOK
  <2>3. QED
    BY <1>1, <1>2, <2>1, <2>2, TreeRests
<1>10. ASSUME NEW t, NEW after \in {0, 1}, finishDrag(t, after) PROVE TreeInv' /\ OnlyAsked
  <2>1. UNCHANGED asking /\ drag # NoDrag /\ drag' = NoDrag
    BY <1>10 DEF finishDrag
  <2>2. DragOK'
    BY <2>1 DEF DragOK, NoDrag
  <2>3. TreeCore' /\ OnlyAsked
    BY <1>1, <1>10, FinishDrag
  <2>4. QED
    BY <1>1, <1>2, <2>1, <2>2, <2>3
<1>11. ASSUME cancelDrag PROVE TreeInv' /\ OnlyAsked
  <2>1. UNCHANGED <<tree, nodes, kept, ready, asking>> /\ drag # NoDrag /\ drag' = NoDrag
    BY <1>11 DEF cancelDrag
  <2>2. DragOK'
    BY <2>1 DEF DragOK, NoDrag
  <2>3. QED
    BY <1>1, <1>2, <2>1, <2>2, TreeRests
<1>12. ASSUME NEW p, requestDeleteWorkspace \/ requestDeleteProject(p) PROVE TreeInv' /\ OnlyAsked
  <2>1. /\ UNCHANGED <<tree, nodes, kept, ready, drag>> /\ drag = NoDrag
        /\ asking'.type \in {"workspace", "project"}
    BY <1>12 DEF requestDeleteWorkspace, requestDeleteProject, Ask, Usable
  <2>2. AskedIsThere' /\ DragOK'
    BY <1>1, <2>1 DEF AskedIsThere, DragOK
  <2>3. QED
    BY <1>1, <2>1, <2>2, TreeRests DEF TreeInv
<1>13. ASSUME NEW p, NEW r, requestDeleteRequest(p, r) PROVE TreeInv' /\ OnlyAsked
  <2>1. UNCHANGED <<tree, nodes, kept, ready, drag>>
    BY <1>13 DEF requestDeleteRequest, Ask
  <2>2. AskedIsThere' /\ drag' = NoDrag
    BY <1>1, <1>13, AsksForRequest
  <2>3. DragOK'
    BY <1>1, <2>1 DEF DragOK
  <2>4. QED
    BY <1>1, <2>1, <2>2, <2>3, TreeRests DEF TreeInv
<1>14. ASSUME cancelDelete PROVE TreeInv' /\ OnlyAsked
  <2>1. UNCHANGED <<tree, nodes, kept, ready, drag>> /\ asking' = NoAsk
    BY <1>14 DEF cancelDelete
  <2>2. DragOK'
    BY <1>1, <2>1 DEF DragOK
  <2>3. QED
    BY <1>1, <1>2, <2>1, <2>2, TreeRests
<1>15. ASSUME deleteWorkspace \/ deleteProject \/ deleteRequest PROVE TreeInv' /\ OnlyAsked
  <2>1. UNCHANGED drag /\ asking' = NoAsk
    BY <1>15 DEF deleteWorkspace, deleteProject, deleteRequest
  <2>2. DragOK'
    BY <1>1, <2>1 DEF DragOK
  <2>3. TreeCore' /\ OnlyAsked
    BY <1>1, <1>15, WorkspaceDeleted, ProjectDeleted, RequestDeleted
  <2>4. QED
    BY <1>2, <2>1, <2>2, <2>3
<1>16. QED
  BY <1>5, <1>6, <1>7, <1>8, <1>9, <1>10, <1>11, <1>12, <1>13, <1>14, <1>15 DEF TreeNext

\* The default workspace is a tree as it should be.
LEMMA TreeStarts ==
    ASSUME TreeInit
    PROVE  TreeInv
<1> DEFINE ws == [id |-> 1, requests |-> <<>>, projects |-> <<>>]
<1>1. /\ tree = <<ws>> /\ asking = NoAsk /\ drag = NoDrag /\ nodes = FirstNode /\ kept = {}
      /\ FirstNode \in Nat /\ FirstNode >= 1
  BY TreeAssumption DEF TreeInit
<1>2. ToSet(<<>>) = {}
  BY DEF ToSet
<1>3. ws \in Workspaces /\ ws.id = 1 /\ ws.requests = <<>> /\ ws.projects = <<>>
  BY DEF Workspaces
<1> HIDE DEF ws
<1>4. ws \in GoodWorkspaces
  <2>1. Pairwise(ws.requests, Differ) /\ Pairwise(ws.projects, ProjectPairs)
    BY <1>3 DEF Pairwise
  <2>2. ws.projects \in Seq(GoodProjects)
    BY <1>3
  <2>3. \A p \in ToSet(ws.projects) : ToSet(ws.requests) \cap ToSet(p.requests) = {}
    BY <1>2, <1>3
  <2>4. QED
    BY <1>3, <2>1, <2>2, <2>3 DEF GoodWorkspaces
<1>5. WorkspaceRequests(ws) = {} /\ Names(ws) = {1}
  BY <1>2, <1>3 DEF WorkspaceRequests, Names
<1>6. ToSet(tree) = {ws} /\ Forest(tree) /\ tree # <<>>
  BY <1>1, <1>4 DEF ToSet, Forest, Pairwise
<1>7. TreeRequests(tree) = {} /\ AllNames(tree) = {1}
  BY <1>5, <1>6, InTree
<1>8. TreeCore
  BY <1>1, <1>6, <1>7 DEF TreeCore
<1>9. DragOK /\ AskedIsThere
  BY <1>1 DEF DragOK, NoDrag, AskedIsThere, NoAsk
<1>10. QED
  BY <1>1, <1>8, <1>9 DEF TreeInv

\* No request of the console is lost or doubled, whatever is dragged, deleted, imported or
\* loaded, and a workspace is always left.
THEOREM TreeIsSound == TreeSpec => []TreeSound
<1>1. TreeInit => TreeInv
  BY TreeStarts
<1>2. TreeInv /\ [TreeNext]_treeVars => TreeInv'
  <2>1. ASSUME TreeInv, UNCHANGED treeVars PROVE TreeInv'
    BY <2>1 DEF treeVars, selection, TreeInv, TreeCore, DragOK, AskedIsThere
  <2>2. QED
    BY <2>1, TreeStep
<1>3. TreeInv => TreeSound
  BY ForestToPlaces DEF TreeInv, TreeCore, TreeSound, RequestsKept, AWorkspaceStays
<1>4. QED
  BY <1>1, <1>2, <1>3, PTL DEF TreeSpec

\* What leaves the tree is what the dialog named, or was under it.
THEOREM OnlyAskedIsDeleted == TreeSpec => DeletesOnlyAsked
<1>1. TreeInit => TreeInv
  BY TreeStarts
<1>2. TreeInv /\ [TreeNext]_treeVars => TreeInv'
  <2>1. ASSUME TreeInv, UNCHANGED treeVars PROVE TreeInv'
    BY <2>1 DEF treeVars, selection, TreeInv, TreeCore, DragOK, AskedIsThere
  <2>2. QED
    BY <2>1, TreeStep
<1>3. ASSUME TreeInv, TreeInv', [TreeNext]_treeVars, ready' = ready
      PROVE  TreeNodes \ TreeNodes' \subseteq Named
  <2>1. AllNames(tree) \subseteq AllNames(tree') \cup Named /\ kept \subseteq kept' \cup Named
    <3>1. CASE TreeNext
      BY <1>3, <3>1, TreeStep DEF OnlyAsked
    <3>2. CASE UNCHANGED treeVars
      BY <3>2 DEF treeVars
    <3>3. QED
      BY <1>3, <3>1, <3>2
  <2>2. TreeRequests(tree) = kept /\ TreeRequests(tree') = kept'
    BY <1>3 DEF TreeInv, TreeCore
  <2>3. TreeNodes = TreeRequests(tree) \cup AllNames(tree) /\ TreeNodes' = TreeRequests(tree') \cup AllNames(tree')
    BY DEF TreeNodes, AllNames, Names
  <2>4. QED
    BY <2>1, <2>2, <2>3
<1>4. QED
  BY <1>1, <1>2, <1>3, PTL DEF TreeSpec, DeletesOnlyAsked

(* What is sent and what comes back (HttpSend).                            *)

\* A piece of an answer is added only while something is sent.
LEMMA AddedWhileSending ==
    ASSUME NoPartialWhenIdle, SendNext
    PROVE  NoPartialWhenIdle'
<1>1. CASE Send
  BY <1>1 DEF Send, Respond, Nothing, NoPartialWhenIdle
<1>2. CASE Cancel \/ ClosePanel
  BY <1>2 DEF Cancel, ClosePanel, NoPartialWhenIdle
<1>3. CASE ReadFiles \/ Listen \/ FetchChunk
  BY <1>3 DEF ReadFiles, Listen, FetchChunk, NoPartialWhenIdle
<1>4. ASSUME NEW answer, Finish(answer), UNCHANGED panel PROVE NoPartialWhenIdle'
  BY <1>4 DEF Finish, Respond, Nothing, NoPartialWhenIdle
<1>5. CASE ReadFails \/ Answer \/ \E ok \in BOOLEAN : FetchEnds(ok)
  BY <1>4, <1>5 DEF ReadFails, Answer, FetchEnds
<1>6. CASE \E i \in 1 .. MaxSends :
             Goes(i) \/ EmitChunk(i) \/ \E o \in {"ok", "failed"} : BackendEnds(i, o)
  BY <1>6 DEF Goes, Registers, CancelArrives, EmitChunk, BackendEnds, NoPartialWhenIdle
<1>7. CASE ChunkArrives
  BY <1>7 DEF ChunkArrives, Listens, NoPartialWhenIdle
<1>8. CASE \E r \in Plain \cup WithFiles \cup Broken : Select(r)
  BY <1>8 DEF Select, NoPartialWhenIdle
<1>9. CASE \E k \in 1 .. MaxHistory : ShowPast(k)
  BY <1>9 DEF ShowPast, NoPartialWhenIdle
<1>10. QED
  BY <1>1, <1>2, <1>3, <1>5, <1>6, <1>7, <1>8, <1>9 DEF SendNext

\* No piece of an answer is left on the screen, whenever a send is stopped, fails or ends,
\* and whatever the user selects meanwhile.
THEOREM WholeAnswersStay == SendSpec => []NoPartialWhenIdle
<1>1. SendInit => NoPartialWhenIdle
  BY DEF SendInit, NoPartialWhenIdle
<1>2. NoPartialWhenIdle /\ [SendNext]_sendVars => NoPartialWhenIdle'
  <2>1. ASSUME NoPartialWhenIdle, UNCHANGED sendVars PROVE NoPartialWhenIdle'
    BY <2>1 DEF sendVars, NoPartialWhenIdle
  <2>2. QED
    BY <2>1, AddedWhileSending
<1>3. QED
  BY <1>1, <1>2, PTL DEF SendSpec

-----------------------------------------------------------------------------
(* Sharing a workspace and importing one (HttpImport).                     *)

\* Two lists one after the other.
LEMMA JoinedLists ==
    ASSUME NEW S, NEW s \in Seq(S), NEW t \in Seq(S), NEW B
    PROVE  /\ s \o t \in Seq(S) /\ Len(s \o t) = Len(s) + Len(t)
           /\ \A k \in 1 .. Len(s) : (s \o t)[k] = s[k]
           /\ ToSet(s \o t) = ToSet(s) \cup ToSet(t)
           /\ Pairwise(s, B) /\ Pairwise(t, B) /\ (\A e \in ToSet(t) : Fits(e, ToSet(s), B))
              => Pairwise(s \o t, B)
<1> DEFINE n == Len(s)
           m == Len(t)
           q == s \o t
           f == [k \in 1 .. n + m |-> k - n]
<1>1. n \in Nat /\ m \in Nat
  OBVIOUS
<1>2. /\ q \in Seq(S) /\ Len(q) = n + m
      /\ \A k \in 1 .. n + m : q[k] = IF k <= n THEN s[k] ELSE t[k - n]
  BY ConcatProperties
<1> HIDE DEF q
<1>3. ASSUME NEW k \in 1 .. n + m, k \notin 1 .. n
      PROVE  f[k] \in 1 .. m /\ q[k] = t[f[k]] /\ n + f[k] = k
  <2>1. k - n \in 1 .. m /\ ~(k <= n) /\ n + (k - n) = k
    BY <1>1, <1>3
  <2>2. QED
    BY <1>2, <2>1
<1>4. \A k \in 1 .. n : k \in 1 .. n + m /\ q[k] = s[k]
  BY <1>1, <1>2
<1>5. \A k \in 1 .. m : n + k \in 1 .. n + m /\ q[n + k] = t[k]
  <2>1. \A k \in 1 .. m : n + k \in 1 .. n + m /\ ~(n + k <= n) /\ (n + k) - n = k
    BY <1>1
  <2>2. QED
    BY <1>2, <2>1
<1> HIDE DEF f
<1>6. /\ ToSet(q) = {q[k] : k \in 1 .. n + m} /\ ToSet(s) = {s[k] : k \in 1 .. n}
      /\ ToSet(t) = {t[k] : k \in 1 .. m}
  BY <1>2, SetOfList
<1>7. \A k \in 1 .. n : q[k] \in ToSet(s)
  BY <1>4, <1>6
<1>8. \A k \in (1 .. n + m) \ (1 .. n) : q[k] \in ToSet(t)
  BY <1>3, <1>6
<1>9. ToSet(q) = ToSet(s) \cup ToSet(t)
  <2>1. ToSet(q) \subseteq ToSet(s) \cup ToSet(t)
    BY <1>6, <1>7, <1>8
  <2>2. ToSet(s) \subseteq ToSet(q)
    BY <1>4, <1>6
  <2>3. ToSet(t) \subseteq ToSet(q)
    BY <1>5, <1>6
  <2>4. QED
    BY <2>1, <2>2, <2>3
<1>10. ASSUME Pairwise(s, B), Pairwise(t, B), \A e \in ToSet(t) : Fits(e, ToSet(s), B)
       PROVE  Pairwise(q, B)
  <2>1. ASSUME NEW i \in 1 .. n + m, NEW j \in 1 .. n + m, i # j PROVE <<q[i], q[j]>> \in B
    <3>1. CASE i \in 1 .. n /\ j \in 1 .. n
      BY <1>4, <1>10, <2>1, <3>1 DEF Pairwise
    <3>2. CASE i \in 1 .. n /\ j \notin 1 .. n
      BY <1>7, <1>8, <1>10, <3>2 DEF Fits
    <3>3. CASE i \notin 1 .. n /\ j \in 1 .. n
      BY <1>7, <1>8, <1>10, <3>3 DEF Fits
    <3>4. CASE i \notin 1 .. n /\ j \notin 1 .. n
      <4>1. f[i] \in 1 .. m /\ f[j] \in 1 .. m /\ f[i] # f[j]
        BY <1>3, <2>1, <3>4
      <4>2. QED
        BY <1>3, <1>10, <3>4, <4>1 DEF Pairwise
    <3>5. QED
      BY <3>1, <3>2, <3>3, <3>4
  <2>2. QED
    BY <1>2, <2>1 DEF Pairwise
<1>11. QED
  BY <1>2, <1>4, <1>9, <1>10 DEF q

\* JoinedLists, for their elements.
LEMMA JoinedElements ==
    ASSUME NEW S, NEW s \in Seq(S), NEW t \in Seq(S)
    PROVE  s \o t \in Seq(S) /\ ToSet(s \o t) = ToSet(s) \cup ToSet(t)
<1>1. \A B : s \o t \in Seq(S) /\ ToSet(s \o t) = ToSet(s) \cup ToSet(t)
  <2>1. TAKE B
  <2>2. QED
    BY JoinedLists, Zenon
<1>2. QED
  BY <1>1

\* FlattenSeq has the elements of each of the lists.
LEMMA FlattenedLists ==
    ASSUME NEW S, NEW ss \in Seq(Seq(S))
    PROVE  /\ FlattenSeq(ss) \in Seq(S)
           /\ ToSet(FlattenSeq(ss)) = UNION {ToSet(ss[i]) : i \in 1 .. Len(ss)}
<1> DEFINE N == Len(ss)
           Solves(g) == g = [i \in 1 .. N |-> IF i = 1 THEN ss[i] ELSE g[i - 1] \o ss[i]]
           oneMore == [n \in 1 .. N |-> [q \in Seq(S) |-> q \o ss[n]]]
           flatten == CHOOSE g : Solves(g)
           All(n) == UNION {ToSet(ss[i]) : i \in 1 .. n}
<1>1. N \in Nat /\ \A n \in 1 .. N : ss[n] \in Seq(S)
  OBVIOUS
<1>2. CASE N = 0
  <2>1. FlattenSeq(ss) = ss /\ ss = <<>>
    BY <1>2 DEF FlattenSeq
  <2>2. QED
    BY <1>2, <2>1 DEF ToSet
<1>3. CASE N # 0
  <2>1. FlattenSeq(ss) = flatten[N]
    BY <1>3 DEF FlattenSeq
  <2>2. \E g : Solves(g)
    <3>1. oneMore \in [1 .. N -> [Seq(S) -> Seq(S)]] /\ <<>> \in Seq(S)
      BY <1>1, ConcatProperties
    <3>2. \A n \in 1 .. N : \A q \in Seq(S) : oneMore[n][q] = q \o ss[n]
      OBVIOUS
    <3> HIDE DEF oneMore
    <3>3. PICK g \in [0 .. N -> Seq(S)] : Recursion(g, N, <<>>, oneMore)
      BY <1>1, <3>1, RecursionInto
    <3> DEFINE h == [i \in 1 .. N |-> g[i]]
    <3>4. ASSUME NEW i \in 1 .. N
          PROVE  h[i] = IF i = 1 THEN ss[i] ELSE h[i - 1] \o ss[i]
      <4>1. i - 1 \in 0 .. N /\ (i # 1 => i - 1 \in 1 .. N)
        BY <1>1
      <4>2. h[i] = g[i - 1] \o ss[i]
        BY <3>2, <3>3, <4>1 DEF Recursion
      <4>3. CASE i = 1
        <5>1. g[i - 1] = <<>>
          BY <3>3, <4>3 DEF Recursion
        <5>2. ss[i] \in Seq(S)
          BY <1>1
        <5>3. QED
          BY <4>2, <4>3, <5>1, <5>2, ConcatEmptySeq
      <4>4. CASE i # 1
        BY <4>1, <4>2, <4>4
      <4>5. QED
        BY <4>3, <4>4
    <3>5. Solves(h)
      BY <3>4
    <3>6. QED
      BY <3>5
  <2>3. Solves(flatten)
    BY <2>2
  <2>4. ASSUME NEW i \in 1 .. N, i # 1
        PROVE  flatten[i] = flatten[i - 1] \o ss[i]
    <3> HIDE DEF flatten
    <3>1. flatten[i] = IF i = 1 THEN ss[i] ELSE flatten[i - 1] \o ss[i]
      BY <2>3, Zenon
    <3>2. QED
      BY <2>4, <3>1, Zenon
  <2> DEFINE T == {0} \cup {n \in 1 .. N : flatten[n] \in Seq(S) /\ ToSet(flatten[n]) = All(n)}
  <2> HIDE DEF flatten
  <2>5. ASSUME NEW n \in 0 .. N, n \in T, n < N
        PROVE  n + 1 \in T
    <3>1. n + 1 \in 1 .. N /\ (n + 1) - 1 = n /\ 1 .. n + 1 = (1 .. n) \cup {n + 1}
      BY <1>1, <2>5
    <3>2. ss[n + 1] \in Seq(S)
      BY <1>1, <3>1
    <3>3. All(n + 1) = All(n) \cup ToSet(ss[n + 1])
      BY <3>1
    <3>4. CASE n = 0
      <4>1. flatten[n + 1] = ss[n + 1] /\ All(n) = {}
        BY <2>3, <3>1, <3>4
      <4>2. QED
        BY <3>1, <3>2, <3>3, <4>1
    <3>5. CASE n # 0
      <4>1. flatten[n + 1] = flatten[n] \o ss[n + 1]
        <5>1. n + 1 # 1
          BY <1>1, <2>5, <3>5
        <5>2. flatten[n + 1] = flatten[(n + 1) - 1] \o ss[n + 1]
          BY <2>4, <3>1, <5>1, Zenon
        <5>3. QED
          BY <3>1, <5>2, Zenon
      <4>2. flatten[n] \in Seq(S) /\ ToSet(flatten[n]) = All(n)
        BY <2>5, <3>5
      <4> HIDE DEF All
      <4>3. flatten[n + 1] \in Seq(S) /\ ToSet(flatten[n + 1]) = All(n + 1)
        <5>1. /\ flatten[n] \o ss[n + 1] \in Seq(S)
              /\ ToSet(flatten[n] \o ss[n + 1]) = ToSet(flatten[n]) \cup ToSet(ss[n + 1])
          <6>1. \A u, v \in Seq(S) : u \o v \in Seq(S) /\ ToSet(u \o v) = ToSet(u) \cup ToSet(v)
            BY JoinedElements, Zenon
          <6>2. QED
            BY <3>2, <4>2, <6>1, Zenon
        <5>2. QED
          BY <3>3, <4>1, <4>2, <5>1, Zenon
      <4>4. QED
        BY <3>1, <4>3
    <3>6. QED
      BY <3>4, <3>5
  <2> HIDE DEF T
  <2>6. 0 .. N \subseteq T
    <3>1. 0 \in T
      BY DEF T
    <3>2. QED
      BY <1>1, <2>5, <3>1, UpToNumber
  <2>7. N \in T /\ N # 0
    BY <1>1, <1>3, <2>6
  <2>8. QED
    BY <2>1, <2>7 DEF T
<1>4. QED
  BY <1>2, <1>3

\* The ids of a list of requests, and the pairs that do not share an id or a name.
IdsIn(rs) == {r.id : r \in ToSet(rs)}
IdDiffers == {b \in SharedRequests \X SharedRequests : b[1].id # b[2].id}
IdsDiffer == {b \in SharedProjects \X SharedProjects : IdsIn(b[1].requests) \cap IdsIn(b[2].requests) = {}}
NamesDiffer == {b \in SharedProjects \X SharedProjects : b[1].name # b[2].name}

\* All requests of a workspace are its own and those of its projects.
LEMMA RequestsCollected ==
    ASSUME NEW ws \in SharedWorkspaces
    PROVE  /\ collectShareRequestOptions(ws) \in Seq(SharedRequests)
           /\ RequestsIn(ws) = ToSet(ws.requests) \cup
                               UNION {ToSet(p.requests) : p \in ToSet(ws.projects)}
<1> DEFINE ps == ws.projects
           lists == [i \in DOMAIN ps |-> ps[i].requests]
<1>1. ws.requests \in Seq(SharedRequests) /\ ps \in Seq(SharedProjects)
  BY DEF SharedWorkspaces
<1>2. \A i \in DOMAIN ps : ps[i].requests \in Seq(SharedRequests)
  <2>1. \A i \in DOMAIN ps : ps[i] \in SharedProjects
    BY <1>1
  <2>2. QED
    BY <2>1 DEF SharedProjects
<1>3. /\ lists \in Seq(Seq(SharedRequests)) /\ Len(lists) = Len(ps)
      /\ \A i \in 1 .. Len(ps) : lists[i] = ps[i].requests
  BY <1>1, <1>2
<1>4. ToSet(ps) = {ps[i] : i \in 1 .. Len(ps)}
  BY <1>1, SetOfList
<1> HIDE DEF lists
<1>5. /\ FlattenSeq(lists) \in Seq(SharedRequests)
      /\ ToSet(FlattenSeq(lists)) = UNION {ToSet(lists[i]) : i \in 1 .. Len(lists)}
  BY <1>3, FlattenedLists
<1>6. ToSet(FlattenSeq(lists)) = UNION {ToSet(p.requests) : p \in ToSet(ps)}
  BY <1>3, <1>4, <1>5
<1>7. collectShareRequestOptions(ws) = ws.requests \o FlattenSeq(lists)
  BY DEF collectShareRequestOptions, ProjectRequests, lists
<1>8. QED
  BY <1>1, <1>5, <1>6, <1>7, JoinedElements DEF RequestsIn

\* An address is known when a request has it; a blank one is not.
LEMMA KnownRequests ==
    ASSUME NEW ws \in SharedWorkspaces, NEW url
    PROVE  /\ Known(ws, url) \in Seq(SharedRequests)
           /\ Known(ws, url) = <<>> => url = NoUrl \/ \A r \in RequestsIn(ws) : r.url # url
<1> DEFINE all == collectShareRequestOptions(ws)
           P == {i \in DOMAIN all : all[i].url = url /\ url # NoUrl}
           q == Known(ws, url)
<1>1. all \in Seq(SharedRequests)
  BY RequestsCollected
<1>2. ToSet(all) = {all[i] : i \in 1 .. Len(all)} /\ DOMAIN all = 1 .. Len(all)
  BY <1>1, SetOfList
<1>3. q = Kept(all, P)
  BY DEF Known
<1> HIDE DEF all, P, q
<1>4. q \in Seq(SharedRequests) /\ IsPartOf(q, all, P)
  BY <1>1, <1>3, KeptElements
<1>5. ASSUME q = <<>>, url # NoUrl, NEW r \in RequestsIn(ws), r.url = url
      PROVE  FALSE
  <2>1. PICK i \in 1 .. Len(all) : r = all[i]
    BY <1>2 DEF RequestsIn, all
  <2>2. i \in P \cap (1 .. Len(all))
    BY <1>2, <1>5, <2>1 DEF P
  <2>3. PICK k \in 1 .. Len(q) : q[k] = all[i]
    BY <1>4, <2>2 DEF IsPartOf
  <2>4. QED
    BY <1>5, <2>3
<1>6. QED
  BY <1>4, <1>5 DEF q

\* The new requests of a list are those whose address is not known.
LEMMA NewRequests ==
    ASSUME NEW ws, NEW rs \in Seq(SharedRequests), NEW B
    PROVE  /\ New(ws, rs) \in Seq(SharedRequests)
           /\ ToSet(New(ws, rs)) \subseteq {r \in ToSet(rs) : Known(ws, r.url) = <<>>}
           /\ Pairwise(rs, B) => Pairwise(New(ws, rs), B)
<1> DEFINE P == {i \in DOMAIN rs : Known(ws, rs[i].url) = <<>>}
<1>1. New(ws, rs) = Kept(rs, P)
  BY DEF New
<1>2. ToSet(rs) = {rs[i] : i \in 1 .. Len(rs)} /\ DOMAIN rs = 1 .. Len(rs)
  BY SetOfList
<1>3. \A i \in P : Known(ws, rs[i].url) = <<>>
  OBVIOUS
<1> HIDE DEF P
<1>4. /\ Kept(rs, P) \in Seq(SharedRequests)
      /\ ToSet(Kept(rs, P)) = {rs[i] : i \in P \cap (1 .. Len(rs))}
      /\ Pairwise(rs, B) => Pairwise(Kept(rs, P), B)
  BY KeptPairs
<1>5. QED
  BY <1>1, <1>2, <1>3, <1>4

\* A request that is overwritten keeps its id.
LEMMA OverKeepsId ==
    ASSUME NEW ws, NEW imported \in SharedWorkspaces, NEW mode, NEW r \in SharedRequests
    PROVE  Over(ws, imported, mode, r) \in SharedRequests /\ Over(ws, imported, mode, r).id = r.id
<1> DEFINE all == collectShareRequestOptions(imported)
           P == {i \in DOMAIN all : /\ Known(ws, all[i].url) # <<>>
                                    /\ Known(ws, all[i].url)[1].id = r.id}
           q == Kept(all, P)
<1>1. all \in Seq(SharedRequests)
  BY RequestsCollected
<1>2. Over(ws, imported, mode, r) = IF mode = "ignore" \/ q = <<>> THEN r ELSE Replaced(r, q[Len(q)])
  BY DEF Over
<1> HIDE DEF all, P
<1>3. q \in Seq(SharedRequests)
  BY <1>1, KeptElements
<1> HIDE DEF q
<1>4. CASE mode = "ignore" \/ q = <<>>
  BY <1>2, <1>4
<1>5. CASE ~(mode = "ignore" \/ q = <<>>)
  <2>1. q[Len(q)] \in SharedRequests
    <3>1. Len(q) \in 1 .. Len(q)
      BY <1>3, <1>5
    <3>2. QED
      BY <1>3, <3>1
  <2>2. Over(ws, imported, mode, r) = [q[Len(q)] EXCEPT !.id = r.id]
    BY <1>2, <1>5 DEF Replaced
  <2>3. QED
    BY <2>1, <2>2 DEF SharedRequests
<1>6. QED
  BY <1>4, <1>5

\* So do those of a list, at their places.
LEMMA OverwrittenList ==
    ASSUME NEW ws, NEW imported \in SharedWorkspaces, NEW mode, NEW rs \in Seq(SharedRequests)
    PROVE  LET q == Overwritten(ws, imported, mode, rs)
           IN  /\ q \in Seq(SharedRequests) /\ Len(q) = Len(rs) /\ IdsIn(q) = IdsIn(rs)
               /\ \A i \in 1 .. Len(rs) : q[i].id = rs[i].id
               /\ Pairwise(rs, IdDiffers) => Pairwise(q, IdDiffers)
<1> DEFINE q == Overwritten(ws, imported, mode, rs)
<1>1. \A i \in 1 .. Len(rs) : rs[i] \in SharedRequests
  OBVIOUS
<1>2. q = [i \in 1 .. Len(rs) |-> Over(ws, imported, mode, rs[i])]
  BY DEF Overwritten
<1>3. \A i \in 1 .. Len(rs) : q[i] \in SharedRequests /\ q[i].id = rs[i].id
  BY <1>1, <1>2, OverKeepsId
<1> HIDE DEF q
<1>4. q \in Seq(SharedRequests) /\ Len(q) = Len(rs)
  BY <1>2, <1>3
<1>5. ToSet(q) = {q[i] : i \in 1 .. Len(rs)} /\ ToSet(rs) = {rs[i] : i \in 1 .. Len(rs)}
  BY <1>4, SetOfList
<1>6. IdsIn(q) = IdsIn(rs)
  BY <1>3, <1>5 DEF IdsIn
<1>7. ASSUME Pairwise(rs, IdDiffers)
      PROVE  Pairwise(q, IdDiffers)
  <2>1. ASSUME NEW j \in 1 .. Len(rs), NEW m \in 1 .. Len(rs), j # m
        PROVE  <<q[j], q[m]>> \in IdDiffers
    <3>1. <<rs[j], rs[m]>> \in IdDiffers
      BY <1>7, <2>1 DEF Pairwise
    <3>2. rs[j].id # rs[m].id
      BY <3>1 DEF IdDiffers
    <3>3. q[j].id # q[m].id /\ q[j] \in SharedRequests /\ q[m] \in SharedRequests
      BY <1>3, <3>2
    <3>4. QED
      BY <3>3 DEF IdDiffers
  <2>2. QED
    BY <1>4, <2>1 DEF Pairwise
<1>8. QED
  BY <1>3, <1>4, <1>6, <1>7 DEF q

\* The names of projects are finitely many.
LEMMA FiniteNames ==
    ASSUME NEW s \in Seq(SharedProjects)
    PROVE  IsFiniteSet({s[i].name : i \in DOMAIN s})
<1> DEFINE T == {s[i].name : i \in DOMAIN s}
           f == [i \in DOMAIN s |-> s[i].name]
<1>1. DOMAIN s = 1 .. Len(s) /\ Len(s) \in Nat
  OBVIOUS
<1>2. IsFiniteSet(DOMAIN s)
  BY <1>1, FS_Interval
<1>3. f \in Surjection(DOMAIN s, T)
  BY DEF Surjection
<1> HIDE DEF f, T
<1>4. IsFiniteSet(T)
  BY <1>2, <1>3, FS_Surjection
<1>5. QED
  BY <1>4 DEF T

\* uniqueName gives a name that is not taken.
LEMMA UniqueName ==
    ASSUME NEW names, IsFiniteSet(names), NEW base \in Seq(Nat)
    PROVE  uniqueName(names, base) \in Seq(Nat) /\ uniqueName(names, base) \notin names
<1>1. CASE base \notin names
  BY <1>1 DEF uniqueName
<1>2. CASE base \in names
  <2> DEFINE c == Cardinality(names)
             S == 2 .. c + 2
             T == {n \in S : Append(base, n) \notin names}
             Chosen(n) == /\ Append(base, n) \notin names
                          /\ \A m \in 2 .. n - 1 : Append(base, m) \in names
             f == [n \in S |-> Append(base, n)]
  <2>1. c \in Nat
    BY FS_CardinalityType
  <2> HIDE DEF c
  <2>2. IsFiniteSet(S) /\ Cardinality(S) = c + 1
    <3>1. 2 \in Int /\ c + 2 \in Int /\ ~(2 > c + 2) /\ (c + 2) - 2 + 1 = c + 1
      BY <2>1
    <3>2. IsFiniteSet(S) /\ Cardinality(S) = IF 2 > c + 2 THEN 0 ELSE (c + 2) - 2 + 1
      BY <3>1, FS_Interval, Zenon
    <3>3. QED
      BY <3>1, <3>2
  <2>3. T # {}
    <3>1. SUFFICES ASSUME T = {} PROVE FALSE
      OBVIOUS
    <3>2. f \in [S -> names]
      BY <3>1
    <3>3. \A n \in S : n \in Nat /\ f[n] = Append(base, n)
      BY <2>1
    <3> HIDE DEF S, f
    <3>4. Cardinality(names) < Cardinality(S)
      BY <2>1, <2>2 DEF c
    <3>5. PICK x, y \in S : x # y /\ f[x] = f[y]
      BY <2>2, <3>2, <3>4, FS_PigeonHole, Zenon
    <3>6. Append(base, x)[Len(base) + 1] = x /\ Append(base, y)[Len(base) + 1] = y
      BY <3>3
    <3>7. QED
      BY <3>3, <3>5, <3>6
  <2>4. T \subseteq Nat
    BY <2>1
  <2>5. PICK n \in T : \A m \in T : n <= m
    BY <2>3, <2>4, LeastNumber
  <2>6. n \in S /\ Chosen(n)
    <3>1. ASSUME NEW m \in 2 .. n - 1 PROVE Append(base, m) \in names
      <4>1. m \in S /\ ~(n <= m)
        BY <2>1, <2>4, <2>5, <3>1
      <4>2. QED
        BY <2>5, <4>1
    <3>2. QED
      BY <2>5, <3>1
  <2> DEFINE k == CHOOSE m \in S : Chosen(m)
  <2>7. k \in S /\ Chosen(k)
    BY <2>6
  <2>8. uniqueName(names, base) = Append(base, k)
    BY <1>2 DEF uniqueName, c
  <2> HIDE DEF k
  <2>9. k \in Nat
    BY <2>1, <2>7
  <2>10. QED
    BY <2>7, <2>8, <2>9
<1>3. QED
  BY <1>1, <1>2

\* A project that brings nothing is left out; another comes last, with what is new of it.
LEMMA ProjectBrought ==
    ASSUME NEW ws \in SharedWorkspaces, NEW done \in Seq(SharedProjects), NEW p \in SharedProjects
    PROVE  \/ WithProject(ws, done, p) = done
           \/ \E q \in SharedProjects :
                 /\ WithProject(ws, done, p) = Append(done, q)
                 /\ q.requests = New(ws, p.requests) /\ q.name \notin TakenNames(ws, done)
<1> DEFINE name == uniqueName(TakenNames(ws, done), p.name)
           rs == New(ws, p.requests)
           q == [p EXCEPT !.requests = rs, !.name = name]
<1>1. ws.projects \in Seq(SharedProjects) /\ p.name \in Seq(Nat) /\ p.requests \in Seq(SharedRequests)
  BY DEF SharedWorkspaces, SharedProjects
<1>2. IsFiniteSet(TakenNames(ws, done))
  <2>1. /\ IsFiniteSet({ws.projects[i].name : i \in DOMAIN ws.projects})
        /\ IsFiniteSet({done[i].name : i \in DOMAIN done})
    BY <1>1, FiniteNames
  <2>2. QED
    BY <2>1, FS_Union DEF TakenNames
<1>3. name \in Seq(Nat) /\ name \notin TakenNames(ws, done)
  BY <1>1, <1>2, UniqueName
<1>4. rs \in Seq(SharedRequests)
  BY <1>1, NewRequests
<1>5. WithProject(ws, done, p) = IF rs = <<>> /\ ~p.variables THEN done ELSE Append(done, q)
  BY DEF WithProject
<1> HIDE DEF name, rs
<1>6. q \in SharedProjects /\ q.requests = rs /\ q.name = name
  BY <1>3, <1>4 DEF SharedProjects
<1>7. QED
  BY <1>3, <1>5, <1>6 DEF rs

\* What was brought of the first n of the projects ps.
Brought(ws, done, ps, n) ==
    /\ done \in Seq(SharedProjects) /\ Pairwise(done, IdsDiffer) /\ Pairwise(done, NamesDiffer)
    /\ \A p \in ToSet(done) :
          /\ Pairwise(p.requests, IdDiffers)
          /\ \A i \in DOMAIN ws.projects : p.name # ws.projects[i].name
          /\ \E i \in 1 .. n : IdsIn(p.requests) \subseteq IdsIn(ps[i].requests)
          /\ \A r \in ToSet(p.requests) : Known(ws, r.url) = <<>>

\* One more project is brought, if it shares no id with those before it.
LEMMA OneMoreBrought ==
    ASSUME NEW ws \in SharedWorkspaces, NEW done, NEW ps \in Seq(SharedProjects),
           Pairwise(ps, IdsDiffer), \A p \in ToSet(ps) : Pairwise(p.requests, IdDiffers),
           NEW n \in Nat, n < Len(ps), Brought(ws, done, ps, n)
    PROVE  Brought(ws, WithProject(ws, done, ps[n + 1]), ps, n + 1)
<1> DEFINE p == ps[n + 1]
           new == WithProject(ws, done, p)
<1>1. done \in Seq(SharedProjects) /\ Pairwise(done, IdsDiffer) /\ Pairwise(done, NamesDiffer)
  BY DEF Brought
<1>2. n + 1 \in 1 .. Len(ps) /\ n + 1 \in 1 .. n + 1 /\ \A i \in 1 .. n : i \in 1 .. Len(ps) /\ i # n + 1
  OBVIOUS
<1>3. p \in SharedProjects /\ p \in ToSet(ps)
  BY <1>2, SetOfList
<1>4. ASSUME NEW e \in ToSet(done)
      PROVE  /\ Pairwise(e.requests, IdDiffers) /\ e \in SharedProjects
             /\ \A i \in DOMAIN ws.projects : e.name # ws.projects[i].name
             /\ \E i \in 1 .. n : IdsIn(e.requests) \subseteq IdsIn(ps[i].requests)
             /\ \A r \in ToSet(e.requests) : Known(ws, r.url) = <<>>
  BY <1>1, SetOfList DEF Brought
<1> HIDE DEF p
<1>5. CASE new = done
  <2>1. \A e \in ToSet(done) : \E i \in 1 .. n + 1 : IdsIn(e.requests) \subseteq IdsIn(ps[i].requests)
    <3>1. TAKE e \in ToSet(done)
    <3>2. PICK i \in 1 .. n : IdsIn(e.requests) \subseteq IdsIn(ps[i].requests)
      BY <1>4
    <3>3. i \in 1 .. n + 1
      OBVIOUS
    <3>4. QED
      BY <3>2, <3>3
  <2> HIDE DEF new
  <2>2. QED
    BY <1>1, <1>4, <1>5, <2>1 DEF Brought, new, p
<1>6. ASSUME NEW q \in SharedProjects, new = Append(done, q), q.requests = New(ws, p.requests),
             q.name \notin TakenNames(ws, done)
      PROVE  Brought(ws, new, ps, n + 1)
  <2>1. /\ p.requests \in Seq(SharedRequests) /\ Pairwise(p.requests, IdDiffers)
    BY <1>3 DEF SharedProjects
  <2>2. /\ Pairwise(q.requests, IdDiffers)
        /\ ToSet(q.requests) \subseteq {r \in ToSet(p.requests) : Known(ws, r.url) = <<>>}
    BY <1>6, <2>1, NewRequests
  <2>3. IdsIn(q.requests) \subseteq IdsIn(p.requests)
    BY <2>2 DEF IdsIn
  <2>4. Fits(q, ToSet(done), IdsDiffer)
    <3>1. ASSUME NEW e \in ToSet(done) PROVE <<e, q>> \in IdsDiffer /\ <<q, e>> \in IdsDiffer
      <4>1. PICK i \in 1 .. n : IdsIn(e.requests) \subseteq IdsIn(ps[i].requests)
        BY <1>4
      <4>2. <<ps[i], ps[n + 1]>> \in IdsDiffer
        BY <1>2 DEF Pairwise
      <4>3. IdsIn(ps[i].requests) \cap IdsIn(p.requests) = {}
        BY <4>2 DEF IdsDiffer, p
      <4>4. IdsIn(e.requests) \cap IdsIn(q.requests) = {} /\ e \in SharedProjects
        BY <1>4, <2>3, <4>1, <4>3
      <4>5. QED
        BY <4>4 DEF IdsDiffer
    <3>2. QED
      BY <3>1 DEF Fits
  <2>5. Fits(q, ToSet(done), NamesDiffer)
    <3>1. ASSUME NEW e \in ToSet(done) PROVE <<e, q>> \in NamesDiffer /\ <<q, e>> \in NamesDiffer
      <4>1. PICK i \in 1 .. Len(done) : e = done[i]
        BY <1>1, SetOfList
      <4>2. e.name \in TakenNames(ws, done)
        BY <1>1, <4>1 DEF TakenNames
      <4>3. e.name # q.name /\ e \in SharedProjects
        BY <1>4, <1>6, <4>2
      <4>4. QED
        BY <4>3 DEF NamesDiffer
    <3>2. QED
      BY <3>1 DEF Fits
  <2>6. /\ new \in Seq(SharedProjects) /\ ToSet(new) = ToSet(done) \cup {q}
        /\ Pairwise(new, IdsDiffer) /\ Pairwise(new, NamesDiffer)
    BY <1>1, <1>6, <2>4, <2>5, AppendedElement
  <2>7. ASSUME NEW e \in ToSet(new)
        PROVE  /\ Pairwise(e.requests, IdDiffers)
               /\ \A i \in DOMAIN ws.projects : e.name # ws.projects[i].name
               /\ \E i \in 1 .. n + 1 : IdsIn(e.requests) \subseteq IdsIn(ps[i].requests)
               /\ \A r \in ToSet(e.requests) : Known(ws, r.url) = <<>>
    <3>1. CASE e \in ToSet(done)
      <4>1. PICK i \in 1 .. n : IdsIn(e.requests) \subseteq IdsIn(ps[i].requests)
        BY <1>4, <3>1
      <4>2. i \in 1 .. n + 1
        OBVIOUS
      <4>3. QED
        BY <1>4, <3>1, <4>1, <4>2
    <3>2. CASE e = q
      <4>1. \A i \in DOMAIN ws.projects : q.name # ws.projects[i].name
        BY <1>6 DEF TakenNames
      <4>2. QED
        BY <1>2, <2>2, <2>3, <3>2, <4>1 DEF p
    <3>3. QED
      BY <2>6, <3>1, <3>2
  <2> HIDE DEF new
  <2>8. QED
    BY <2>6, <2>7 DEF Brought
<1>7. QED
  BY <1>1, <1>3, <1>5, <1>6, ProjectBrought DEF p

\* What an import brings of its projects.
LEMMA ProjectsBrought ==
    ASSUME NEW ws \in SharedWorkspaces, NEW ps \in Seq(SharedProjects),
           Pairwise(ps, IdsDiffer), \A p \in ToSet(ps) : Pairwise(p.requests, IdDiffers)
    PROVE  Brought(ws, ImportedProjects(ws, ps), ps, Len(ps))
<1> DEFINE N == Len(ps)
           S == Seq(SharedProjects)
           oneMore == [n \in 1 .. N |-> [q \in S |-> WithProject(ws, q, ps[n])]]
           done == CHOOSE g : g = [n \in 0 .. N |-> IF n = 0 THEN <<>> ELSE WithProject(ws, g[n - 1], ps[n])]
           Solves(g) == g = [n \in 0 .. N |-> IF n = 0 THEN <<>> ELSE WithProject(ws, g[n - 1], ps[n])]
<1>1. N \in Nat /\ \A n \in 1 .. N : ps[n] \in SharedProjects
  OBVIOUS
<1>2. ImportedProjects(ws, ps) = done[N]
  BY DEF ImportedProjects
<1>3. ASSUME NEW n \in 1 .. N, NEW q \in S PROVE WithProject(ws, q, ps[n]) \in S
  <2>1. ps[n] \in SharedProjects
    BY <1>1
  <2>2. CASE WithProject(ws, q, ps[n]) = q
    BY <2>2
  <2>3. CASE \E e \in SharedProjects : WithProject(ws, q, ps[n]) = Append(q, e)
    <3>1. PICK e \in SharedProjects : WithProject(ws, q, ps[n]) = Append(q, e)
      BY <2>3
    <3>2. Append(q, e) \in S
      BY AppendProperties
    <3>3. QED
      BY <3>1, <3>2
  <2>4. QED
    BY <2>1, <2>2, <2>3, ProjectBrought
<1>4. oneMore \in [1 .. N -> [S -> S]] /\ <<>> \in S
  BY <1>3
<1>5. \A n \in 1 .. N : \A q \in S : oneMore[n][q] = WithProject(ws, q, ps[n])
  OBVIOUS
<1> HIDE DEF oneMore
<1>6. PICK g \in [0 .. N -> S] : Recursion(g, N, <<>>, oneMore)
  BY <1>1, <1>4, RecursionInto
<1>7. Solves(g)
  <2>1. ASSUME NEW n \in 0 .. N
        PROVE  g[n] = IF n = 0 THEN <<>> ELSE WithProject(ws, g[n - 1], ps[n])
    <3>1. CASE n = 0
      BY <1>6, <3>1 DEF Recursion
    <3>2. CASE n # 0
      <4>1. n \in 1 .. N /\ n - 1 \in 0 .. N
        BY <1>1, <3>2
      <4>2. g[n - 1] \in S /\ g[n] = oneMore[n][g[n - 1]]
        BY <1>6, <4>1 DEF Recursion
      <4>3. QED
        BY <1>5, <3>2, <4>1, <4>2
    <3>3. QED
      BY <3>1, <3>2
  <2>2. QED
    BY <1>6, <2>1
<1>8. Solves(done)
  BY <1>7
<1> DEFINE T == {n \in 0 .. N : Brought(ws, done[n], ps, n)}
<1> HIDE DEF done
<1>9. 0 \in T
  <2>1. done[0] = <<>>
    BY <1>8
  <2>2. ToSet(<<>>) = {} /\ <<>> \in S /\ Len(<<>>) = 0
    BY DEF ToSet
  <2>3. Brought(ws, <<>>, ps, 0)
    BY <2>2 DEF Brought, Pairwise
  <2>4. QED
    BY <1>1, <2>1, <2>3
<1>10. ASSUME NEW n \in 0 .. N, n \in T, n < N
       PROVE  n + 1 \in T
  <2>1. n + 1 \in 0 .. N /\ n + 1 # 0 /\ (n + 1) - 1 = n /\ n \in Nat
    BY <1>1, <1>10
  <2>2. done[n + 1] = WithProject(ws, done[n], ps[n + 1])
    BY <1>8, <2>1
  <2>3. Brought(ws, done[n], ps, n)
    BY <1>10
  <2>4. Brought(ws, WithProject(ws, done[n], ps[n + 1]), ps, n + 1)
    BY <1>10, <2>1, <2>3, OneMoreBrought
  <2>5. QED
    BY <2>1, <2>2, <2>4
<1> HIDE DEF T
<1>11. N \in T
  <2>1. 0 .. N \subseteq T
    BY <1>1, <1>9, <1>10, UpToNumber
  <2>2. QED
    BY <1>1, <2>1
<1>12. QED
  BY <1>2, <1>11 DEF T

\* The ids of a workspace are each of one request, and are from lo + 1 to hi.
IdsDistinct(ws) ==
    /\ Pairwise(ws.requests, IdDiffers) /\ Pairwise(ws.projects, IdsDiffer)
    /\ \A p \in ToSet(ws.projects) :
          Pairwise(p.requests, IdDiffers) /\ IdsIn(p.requests) \cap IdsIn(ws.requests) = {}
IdsWithin(ws, lo, hi) ==
    /\ IdsIn(ws.requests) \subseteq (lo + 1) .. hi
    /\ \A p \in ToSet(ws.projects) : IdsIn(p.requests) \subseteq (lo + 1) .. hi

\* Each project gets ids after those of the projects before it.
LEMMA IdsAreGiven ==
    ASSUME NEW doc \in SharedWorkspaces
    PROVE  LET given == IdsUpTo(doc)
               N == Len(doc.projects)
           IN  /\ given \in [0 .. N -> Nat] /\ given[0] = Len(doc.requests)
               /\ \A n \in 1 .. N : given[n] = given[n - 1] + 1 + Len(doc.projects[n].requests)
               /\ \A n \in 0 .. N : \A m \in n .. N : given[n] <= given[m]
<1> DEFINE N == Len(doc.projects)
           ps == doc.projects
           base == Len(doc.requests)
           oneMore == [n \in 1 .. N |-> [q \in Nat |-> q + 1 + Len(ps[n].requests)]]
           Solves(g) == g = [n \in 0 .. N |-> IF n = 0 THEN base ELSE g[n - 1] + 1 + Len(ps[n].requests)]
           given == CHOOSE g : Solves(g)
<1>1. N \in Nat /\ base \in Nat /\ \A n \in 1 .. N : Len(ps[n].requests) \in Nat
  <2>1. ps \in Seq(SharedProjects) /\ doc.requests \in Seq(SharedRequests)
    BY DEF SharedWorkspaces
  <2>2. \A n \in 1 .. N : ps[n] \in SharedProjects
    BY <2>1
  <2>3. \A n \in 1 .. N : ps[n].requests \in Seq(SharedRequests)
    BY <2>2 DEF SharedProjects
  <2>4. QED
    BY <2>1, <2>3
<1>2. IdsUpTo(doc) = given
  BY DEF IdsUpTo
<1>3. oneMore \in [1 .. N -> [Nat -> Nat]] /\ \A n \in 1 .. N : \A q \in Nat : oneMore[n][q] = q + 1 + Len(ps[n].requests)
  <2>1. ASSUME NEW n \in 1 .. N, NEW q \in Nat PROVE q + 1 + Len(ps[n].requests) \in Nat
    <3>1. Len(ps[n].requests) \in Nat
      BY <1>1
    <3>2. \A k \in Nat : q + 1 + k \in Nat
      OBVIOUS
    <3>3. QED
      BY <3>1, <3>2, Zenon
  <2>2. QED
    BY <2>1
<1> HIDE DEF oneMore, base, ps, N
<1>4. PICK g \in [0 .. N -> Nat] : Recursion(g, N, base, oneMore)
  BY <1>1, <1>3, RecursionInto
<1>5. \A n \in 1 .. N : n - 1 \in 0 .. N /\ n \in 0 .. N
  BY <1>1
<1>6. g[0] = base /\ \A n \in 1 .. N : g[n] = g[n - 1] + 1 + Len(ps[n].requests)
  BY <1>3, <1>4, <1>5 DEF Recursion
<1>7. Solves(g)
  <2>1. ASSUME NEW n \in 0 .. N
        PROVE  g[n] = IF n = 0 THEN base ELSE g[n - 1] + 1 + Len(ps[n].requests)
    <3>1. n = 0 \/ n \in 1 .. N
      BY <1>1
    <3>2. QED
      BY <1>6, <3>1
  <2>2. QED
    BY <1>4, <2>1
<1>8. Solves(given)
  BY <1>7
<1> HIDE DEF given
<1>9. given[0] = base
  <2>1. 0 \in 0 .. N
    BY <1>1
  <2>2. QED
    BY <1>8, <2>1
<1>10. ASSUME NEW n \in 1 .. N PROVE given[n] = given[n - 1] + 1 + Len(ps[n].requests)
  <2>1. n \in 0 .. N /\ n # 0
    BY <1>1
  <2>2. QED
    BY <1>8, <2>1
<1>11. given \in [0 .. N -> Nat]
  <2> DEFINE T == {n \in 0 .. N : given[n] \in Nat}
  <2>1. 0 \in T
    BY <1>1, <1>9
  <2>2. ASSUME NEW n \in 0 .. N, n \in T, n < N PROVE n + 1 \in T
    <3>1. n + 1 \in 1 .. N /\ n + 1 \in 0 .. N /\ (n + 1) - 1 = n
      BY <1>1, <2>2
    <3>2. given[n + 1] = given[n] + 1 + Len(ps[n + 1].requests)
      BY <1>10, <3>1
    <3>3. QED
      BY <1>1, <2>2, <3>1, <3>2
  <2> HIDE DEF T
  <2>3. 0 .. N \subseteq T
    BY <1>1, <2>1, <2>2, UpToNumber
  <2>4. DOMAIN given = 0 .. N /\ given = [n \in DOMAIN given |-> given[n]]
    BY <1>8
  <2>5. \A n \in 0 .. N : given[n] \in Nat
    BY <2>3 DEF T
  <2>6. QED
    BY <2>4, <2>5
<1>12. ASSUME NEW n \in 0 .. N PROVE \A m \in n .. N : given[n] <= given[m]
  <2> DEFINE T == {m \in 0 .. N : n <= m => given[n] <= given[m]}
  <2>1. 0 \in T
    <3>1. n <= 0 => n = 0
      BY <1>1
    <3>2. given[0] \in Nat
      BY <1>1, <1>9
    <3>3. QED
      BY <1>1, <3>1, <3>2
  <2>2. ASSUME NEW m \in 0 .. N, m \in T, m < N PROVE m + 1 \in T
    <3>1. m + 1 \in 1 .. N /\ m + 1 \in 0 .. N /\ (m + 1) - 1 = m
      BY <1>1, <2>2
    <3>2. given[m + 1] = given[m] + 1 + Len(ps[m + 1].requests)
      BY <1>10, <3>1
    <3>3. given[m] \in Nat /\ given[m + 1] \in Nat /\ given[n] \in Nat /\ Len(ps[m + 1].requests) \in Nat
      BY <1>1, <1>11, <3>1
    <3>4. given[m] <= given[m + 1]
      BY <3>2, <3>3
    <3>5. CASE n <= m
      BY <2>2, <3>1, <3>3, <3>4, <3>5
    <3>6. CASE ~(n <= m)
      <4>1. n <= m + 1 => n = m + 1
        BY <1>1, <3>6
      <4>2. QED
        BY <3>1, <3>3, <4>1
    <3>7. QED
      BY <3>5, <3>6
  <2> HIDE DEF T
  <2>3. 0 .. N \subseteq T
    BY <1>1, <2>1, <2>2, UpToNumber
  <2>4. \A m \in n .. N : m \in 0 .. N /\ n <= m
    BY <1>1
  <2>5. QED
    BY <2>3, <2>4 DEF T
<1>13. QED
  BY <1>2, <1>9, <1>10, <1>11, <1>12 DEF ps, base, N

\* The requests of a list get the ids that follow from, and keep their addresses.
LEMMA RenumberedList ==
    ASSUME importText \in Nat, NEW rs \in Seq(SharedRequests), NEW from \in Nat
    PROVE  LET q == Renumbered(rs, from)
           IN  /\ q \in Seq(SharedRequests) /\ Len(q) = Len(rs)
               /\ \A i \in 1 .. Len(rs) : q[i].url = rs[i].url
               /\ Pairwise(q, IdDiffers) /\ IdsIn(q) \subseteq (from + 1) .. (from + Len(rs))
<1> DEFINE q == Renumbered(rs, from)
<1>1. \A i \in 1 .. Len(rs) : rs[i] \in SharedRequests /\ i \in Nat
  OBVIOUS
<1>2. \A i \in 1 .. Len(rs) : rs[i].url \in Urls
  BY <1>1 DEF SharedRequests
<1>3. q = [i \in 1 .. Len(rs) |-> [id |-> from + i, url |-> rs[i].url, text |-> importText + 1]]
  BY DEF Renumbered, Req
<1>4. ASSUME NEW i \in 1 .. Len(rs)
      PROVE  /\ q[i] \in SharedRequests /\ q[i].id = from + i /\ q[i].url = rs[i].url
             /\ from + i \in (from + 1) .. (from + Len(rs))
  <2>1. from + i \in Nat /\ importText + 1 \in Nat
    BY <1>1
  <2>2. [id |-> from + i, url |-> rs[i].url, text |-> importText + 1] \in SharedRequests
    BY <1>2, <2>1 DEF SharedRequests
  <2>3. from + i \in (from + 1) .. (from + Len(rs))
    OBVIOUS
  <2>4. QED
    BY <1>3, <2>2, <2>3
<1>5. q \in Seq(SharedRequests) /\ Len(q) = Len(rs)
  BY <1>3, <1>4
<1> HIDE DEF q
<1>6. ToSet(q) = {q[i] : i \in 1 .. Len(rs)}
  BY <1>5, SetOfList
<1>7. IdsIn(q) \subseteq (from + 1) .. (from + Len(rs))
  BY <1>4, <1>6 DEF IdsIn
<1>8. Pairwise(q, IdDiffers)
  <2>1. ASSUME NEW i \in 1 .. Len(rs), NEW j \in 1 .. Len(rs), i # j
        PROVE  <<q[i], q[j]>> \in IdDiffers
    <3>1. from + i # from + j
      BY <2>1
    <3>2. q[i].id # q[j].id /\ q[i] \in SharedRequests /\ q[j] \in SharedRequests
      BY <1>4, <3>1
    <3>3. QED
      BY <3>2 DEF IdDiffers
  <2>2. QED
    BY <1>5, <2>1 DEF Pairwise
<1>9. QED
  BY <1>4, <1>5, <1>7, <1>8 DEF q

\* A normalized workspace has an environment, and the active one is one of them.
LEMMA Normalized ==
    ASSUME NEW E, NEW w \in [requests : Seq(SharedRequests), projects : Seq(SharedProjects),
                              environments : Seq(Nat), environment : E],
           NEW fresh \in Nat
    PROVE  LET q == normalizeWorkspace(w, fresh)
           IN  /\ q \in SharedWorkspaces /\ q.requests = w.requests /\ q.projects = w.projects
               /\ q.environment \in ToSet(q.environments)
<1> DEFINE es == w.environments
           e == w.environment
           fs == IF es = <<>> THEN <<fresh>> ELSE es
           f == IF e \in ToSet(fs) THEN e ELSE fs[1]
           q == normalizeWorkspace(w, fresh)
<1>1. q = [w EXCEPT !.environments = fs, !.environment = f]
  BY DEF normalizeWorkspace
<1>2. fs \in Seq(Nat) /\ 1 \in 1 .. Len(fs)
  <2>1. CASE es = <<>>
    <3>1. fs = <<fresh>>
      BY <2>1
    <3>2. QED
      BY <3>1
  <2>2. CASE es # <<>>
    <3> es \in Seq(Nat)
      OBVIOUS
    <3>1. fs = es /\ Len(es) \in Nat /\ Len(es) # 0
      BY <2>2
    <3>2. QED
      BY <3>1
  <2>3. QED
    BY <2>1, <2>2
<1> HIDE DEF fs
<1>3. ToSet(fs) \subseteq Nat /\ fs[1] \in ToSet(fs)
  BY <1>2, SetOfList
<1>4. f \in ToSet(fs) /\ f \in Nat
  BY <1>3
<1> HIDE DEF f, q
<1>5. /\ q \in SharedWorkspaces /\ q.requests = w.requests /\ q.projects = w.projects
      /\ q.environments = fs /\ q.environment = f
  BY <1>1, <1>2, <1>4 DEF SharedWorkspaces
<1>6. QED
  BY <1>4, <1>5 DEF q

\* A document is read back with ids of its own, those that follow from, and is as it was.
LEMMA ImportedWorkspace ==
    ASSUME importText \in Nat, NEW doc \in SharedWorkspaces, NEW from \in Nat
    PROVE  LET q == normalizeImportedWorkspace(doc, from)
           IN  /\ q \in SharedWorkspaces /\ IdsOf(doc) \in Nat
               /\ IdsDistinct(q) /\ IdsWithin(q, from, from + IdsOf(doc))
               /\ q.environment \in ToSet(q.environments)
               /\ Len(q.requests) = Len(doc.requests) /\ Len(q.projects) = Len(doc.projects)
               /\ \A i \in 1 .. Len(doc.requests) : q.requests[i].url = doc.requests[i].url
               /\ \A i \in 1 .. Len(doc.projects) :
                     LET a == q.projects[i]
                         b == doc.projects[i]
                     IN  /\ a.name = b.name /\ Len(a.requests) = Len(b.requests)
                         /\ \A k \in 1 .. Len(b.requests) : a.requests[k].url = b.requests[k].url
<1> DEFINE given == IdsUpTo(doc)
           N == Len(doc.projects)
           ds == doc.projects
           last == from + given[N]
           start(i) == from + given[i - 1] + 1
           rs == Renumbered(doc.requests, from)
           es == [i \in DOMAIN doc.environments |-> last + i]
           ps == [i \in DOMAIN ds |->
                     [ds[i] EXCEPT !.id = start(i), !.requests = Renumbered(@, start(i))]]
           used == {i \in DOMAIN doc.environments : doc.environments[i] = doc.environment}
           e == IF used = {} THEN 0 ELSE es[CHOOSE i \in used : \A j \in used : j <= i]
           q == normalizeImportedWorkspace(doc, from)
           fresh == last + Len(es) + 1
<1>1. /\ doc.requests \in Seq(SharedRequests) /\ ds \in Seq(SharedProjects)
      /\ doc.environments \in Seq(Nat) /\ N \in Nat /\ Len(doc.requests) \in Nat
      /\ DOMAIN ds = 1 .. N
  BY DEF SharedWorkspaces
<1>2. /\ given \in [0 .. N -> Nat] /\ given[0] = Len(doc.requests)
      /\ \A n \in 1 .. N : given[n] = given[n - 1] + 1 + Len(ds[n].requests)
      /\ \A n \in 0 .. N : \A m \in n .. N : given[n] <= given[m]
  BY IdsAreGiven
<1>3. q = normalizeWorkspace([requests |-> rs, environments |-> es, environment |-> e,
                              projects |-> ps], fresh)
  BY DEF normalizeImportedWorkspace
<1>4. IdsOf(doc) = given[N] + Len(doc.environments) + 1
  BY DEF IdsOf
<1> HIDE DEF given, ds, q, e, N
<1>5. ASSUME NEW n \in 0 .. N PROVE given[n] \in Nat /\ given[n] <= given[N] /\ given[0] <= given[n]
  <2>1. N \in n .. N /\ 0 \in 0 .. N /\ n \in 0 .. N
    BY <1>1
  <2>2. QED
    BY <1>2, <2>1
<1>6. last \in Nat /\ Len(doc.environments) \in Nat
  BY <1>1, <1>5
<1>7. IdsOf(doc) \in Nat /\ given[N] <= IdsOf(doc)
  <2>1. given[N] \in Nat
    BY <1>1, <1>5
  <2>2. QED
    BY <1>4, <1>6, <2>1
<1>8. es \in Seq(Nat) /\ fresh \in Nat
  <2> HIDE DEF last
  <2>1. \A i \in DOMAIN doc.environments : last + i \in Nat
    BY <1>1, <1>6
  <2>2. DOMAIN doc.environments = 1 .. Len(doc.environments)
    BY <1>1
  <2>3. es \in Seq(Nat)
    BY <1>6, <2>1, <2>2
  <2>4. Len(es) \in Nat
    BY <2>3
  <2> HIDE DEF es
  <2>5. \A k \in Nat : last + k + 1 \in Nat
    BY <1>6
  <2>6. QED
    BY <2>3, <2>4, <2>5
<1>9. /\ rs \in Seq(SharedRequests) /\ Len(rs) = Len(doc.requests)
      /\ \A i \in 1 .. Len(doc.requests) : rs[i].url = doc.requests[i].url
      /\ Pairwise(rs, IdDiffers) /\ IdsIn(rs) \subseteq (from + 1) .. (from + given[0])
  BY <1>1, <1>2, RenumberedList
<1>10. ASSUME NEW i \in 1 .. N
       PROVE  /\ start(i) \in Nat /\ i - 1 \in 0 .. N /\ i \in 0 .. N /\ given[i] \in Nat
              /\ ds[i] \in SharedProjects /\ ds[i].requests \in Seq(SharedRequests)
              /\ start(i) + Len(ds[i].requests) = from + given[i]
  <2>1. i - 1 \in 0 .. N /\ i \in 0 .. N
    BY <1>1
  <2>2. ds[i] \in SharedProjects
    BY <1>1
  <2>3. ds[i].requests \in Seq(SharedRequests)
    BY <2>2 DEF SharedProjects
  <2>4. PICK k \in Nat : k = Len(ds[i].requests)
    BY <2>3
  <2>5. given[i - 1] \in Nat /\ given[i] \in Nat
    BY <1>5, <2>1
  <2>6. given[i] = given[i - 1] + 1 + k
    BY <1>2, <2>4, Zenon
  <2>7. start(i) \in Nat /\ start(i) + k = from + given[i]
    BY <2>5, <2>6
  <2> HIDE DEF start
  <2>8. QED
    BY <2>1, <2>2, <2>3, <2>4, <2>5, <2>7
<1>11. ASSUME NEW i \in 1 .. N
       PROVE  /\ ps[i] \in SharedProjects /\ ps[i].name = ds[i].name
              /\ ps[i].requests = Renumbered(ds[i].requests, start(i))
  <2> DEFINE p == [ds[i] EXCEPT !.id = start(i), !.requests = Renumbered(@, start(i))]
             r == Renumbered(ds[i].requests, start(i))
  <2>1. ps[i] = p
    BY <1>1
  <2>2. start(i) \in Nat /\ ds[i] \in SharedProjects /\ ds[i].requests \in Seq(SharedRequests)
    BY <1>10
  <2> HIDE DEF start, ps
  <2>3. r \in Seq(SharedRequests)
    BY <2>2, RenumberedList
  <2>4. p = [ds[i] EXCEPT !.id = start(i), !.requests = r]
    OBVIOUS
  <2> HIDE DEF p, r
  <2>5. p \in SharedProjects /\ p.name = ds[i].name /\ p.requests = r
    BY <2>2, <2>3, <2>4 DEF SharedProjects
  <2>6. QED
    BY <2>1, <2>5 DEF r
<1>12. ps \in Seq(SharedProjects) /\ Len(ps) = N
  <2>1. DOMAIN ps = 1 .. N /\ ps = [i \in DOMAIN ps |-> ps[i]]
    BY <1>1
  <2>2. \A i \in 1 .. N : ps[i] \in SharedProjects
    BY <1>11
  <2> HIDE DEF ps
  <2>3. QED
    BY <1>1, <2>1, <2>2
<1>13. q \in SharedWorkspaces /\ q.requests = rs /\ q.projects = ps /\ q.environment \in ToSet(q.environments)
  <2> DEFINE w == [requests |-> rs, environments |-> es, environment |-> e, projects |-> ps]
  <2> HIDE DEF rs, ps, es, fresh
  <2>1. w \in [requests : Seq(SharedRequests), projects : Seq(SharedProjects),
               environments : Seq(Nat), environment : {e}]
    BY <1>8, <1>9, <1>12
  <2>2. w.requests = rs /\ w.projects = ps /\ q = normalizeWorkspace(w, fresh)
    BY <1>3
  <2> HIDE DEF w
  <2>3. QED
    BY <1>8, <2>1, <2>2, Normalized
<1> HIDE DEF rs, ps, es, last, fresh
<1>14. ASSUME NEW i \in 1 .. N
       PROVE  /\ Pairwise(ps[i].requests, IdDiffers) /\ Len(ps[i].requests) = Len(ds[i].requests)
              /\ \A k \in 1 .. Len(ds[i].requests) : ps[i].requests[k].url = ds[i].requests[k].url
              /\ IdsIn(ps[i].requests) \subseteq (start(i) + 1) .. (from + given[i])
  <2>1. /\ start(i) \in Nat /\ ds[i].requests \in Seq(SharedRequests)
        /\ start(i) + Len(ds[i].requests) = from + given[i]
    BY <1>10
  <2> HIDE DEF start
  <2>2. /\ Pairwise(ps[i].requests, IdDiffers) /\ Len(ps[i].requests) = Len(ds[i].requests)
        /\ \A k \in 1 .. Len(ds[i].requests) : ps[i].requests[k].url = ds[i].requests[k].url
        /\ IdsIn(ps[i].requests) \subseteq (start(i) + 1) .. (start(i) + Len(ds[i].requests))
    BY <1>11, <2>1, RenumberedList
  <2>3. QED
    BY <2>1, <2>2
<1>15. ASSUME NEW i \in 1 .. N, NEW n \in IdsIn(ps[i].requests)
       PROVE  n \in Nat /\ n > from + given[i - 1] + 1 /\ n <= from + given[i]
  <2>1. n \in (start(i) + 1) .. (from + given[i])
    BY <1>14
  <2>2. given[i - 1] \in Nat /\ given[i] \in Nat
    BY <1>5, <1>10
  <2>3. QED
    BY <2>1, <2>2
<1>16. ASSUME NEW n \in IdsIn(rs) PROVE n \in Nat /\ n >= from + 1 /\ n <= from + given[0]
  <2>1. given[0] \in Nat
    BY <1>1, <1>5
  <2>2. n \in (from + 1) .. (from + given[0])
    BY <1>9
  <2>3. QED
    BY <2>1, <2>2
<1>17. Pairwise(ps, IdsDiffer)
  <2>1. ASSUME NEW i \in 1 .. N, NEW j \in 1 .. N, i < j
        PROVE  IdsIn(ps[i].requests) \cap IdsIn(ps[j].requests) = {}
    <3>1. ASSUME NEW n \in IdsIn(ps[i].requests), n \in IdsIn(ps[j].requests) PROVE FALSE
      <4>1. n \in Nat /\ n <= from + given[i] /\ n > from + given[j - 1] + 1
        BY <1>15, <3>1
      <4>2. i \in 0 .. N /\ j - 1 \in i .. N /\ j - 1 \in 0 .. N
        BY <1>1, <2>1
      <4>3. given[i] <= given[j - 1]
        BY <1>2, <4>2
      <4>4. given[i] \in Nat /\ given[j - 1] \in Nat
        BY <1>5, <4>2
      <4>5. QED
        BY <4>1, <4>3, <4>4
    <3>2. QED
      BY <3>1
  <2>2. ASSUME NEW i \in 1 .. N, NEW j \in 1 .. N, i # j PROVE <<ps[i], ps[j]>> \in IdsDiffer
    <3>1. i < j \/ j < i
      BY <2>2
    <3>2. IdsIn(ps[i].requests) \cap IdsIn(ps[j].requests) = {}
      BY <2>1, <3>1
    <3>3. ps[i] \in SharedProjects /\ ps[j] \in SharedProjects
      BY <1>11
    <3>4. QED
      BY <3>2, <3>3 DEF IdsDiffer
  <2>3. QED
    BY <1>12, <2>2 DEF Pairwise
<1>18. ASSUME NEW i \in 1 .. N
       PROVE  /\ IdsIn(ps[i].requests) \cap IdsIn(rs) = {}
              /\ IdsIn(ps[i].requests) \subseteq (from + 1) .. (from + IdsOf(doc))
  <2>1. /\ given[0] \in Nat /\ given[i - 1] \in Nat /\ given[i] \in Nat /\ given[N] \in Nat
        /\ given[0] <= given[i - 1] /\ given[i] <= given[N]
    BY <1>1, <1>5, <1>10
  <2>2. ASSUME NEW n \in IdsIn(ps[i].requests), n \in IdsIn(rs) PROVE FALSE
    <3>1. n <= from + given[0] /\ n > from + given[i - 1] + 1 /\ n \in Nat
      BY <1>15, <1>16, <2>2
    <3>2. QED
      BY <2>1, <3>1
  <2>3. ASSUME NEW n \in IdsIn(ps[i].requests) PROVE n \in (from + 1) .. (from + IdsOf(doc))
    <3>1. n \in Nat /\ n > from + given[i - 1] + 1 /\ n <= from + given[i]
      BY <1>15
    <3>2. QED
      BY <1>7, <2>1, <3>1
  <2>4. QED
    BY <2>2, <2>3
<1>19. IdsIn(rs) \subseteq (from + 1) .. (from + IdsOf(doc))
  <2>1. given[0] \in Nat /\ given[N] \in Nat /\ given[0] <= given[N]
    BY <1>1, <1>5
  <2>2. ASSUME NEW n \in IdsIn(rs) PROVE n \in (from + 1) .. (from + IdsOf(doc))
    BY <1>7, <1>16, <2>1, <2>2
  <2>3. QED
    BY <2>2
<1>20. ToSet(ps) = {ps[i] : i \in 1 .. N}
  BY <1>12, SetOfList
<1>21. IdsDistinct(q)
  BY <1>9, <1>13, <1>14, <1>17, <1>18, <1>20 DEF IdsDistinct
<1>22. IdsWithin(q, from, from + IdsOf(doc))
  BY <1>13, <1>18, <1>19, <1>20 DEF IdsWithin
<1>23. \A i \in 1 .. N : ps[i].name = ds[i].name
  BY <1>11
<1> HIDE DEF start
<1>24. QED
  BY <1>7, <1>9, <1>12, <1>13, <1>14, <1>21, <1>22, <1>23 DEF q, ds, N

\* A workspace q that comes of ws by an import has ids and names that differ;
\* the requests of ws keep their ids and their places in it, and what comes
\* after them has an address that was not known.
ComesOf(ws, q, hi) ==
    /\ q \in SharedWorkspaces /\ IdsDistinct(q) /\ IdsWithin(q, 0, hi)
    /\ Pairwise(q.projects, NamesDiffer)
    /\ Len(q.requests) >= Len(ws.requests) /\ Len(q.projects) >= Len(ws.projects)
    /\ \A k \in 1 .. Len(ws.requests) : q.requests[k].id = ws.requests[k].id
    /\ \A i \in 1 .. Len(ws.projects) :
          LET a == q.projects[i]
              b == ws.projects[i]
          IN  /\ Len(a.requests) = Len(b.requests)
              /\ \A k \in 1 .. Len(b.requests) : a.requests[k].id = b.requests[k].id
    /\ \A r \in RequestsIn(q) :
          r.id \in {s.id : s \in RequestsIn(ws)} \/ Known(ws, r.url) = <<>>

\* An import into a workspace makes such a one of it.
LEMMA Merged ==
    ASSUME NEW ws \in SharedWorkspaces, NEW imported \in SharedWorkspaces, NEW mode, NEW fresh \in Nat,
           NEW lo \in Nat, NEW hi \in Nat, lo <= hi,
           IdsDistinct(ws), IdsWithin(ws, 0, lo), Pairwise(ws.projects, NamesDiffer),
           IdsDistinct(imported), IdsWithin(imported, lo, hi)
    PROVE  ComesOf(ws, Merge(ws, imported, mode, fresh), hi)
<1> DEFINE over(rs) == Overwritten(ws, imported, mode, rs)
           os == over(ws.requests)
           ns == New(ws, imported.requests)
           N == Len(ws.projects)
           as == OverwrittenProjects(ws, imported, mode)
           bs == ImportedProjects(ws, imported.projects)
           es == ws.environments \o imported.environments
           w == [ws EXCEPT !.environments = es, !.requests = os \o ns, !.projects = as \o bs]
           q == Merge(ws, imported, mode, fresh)
<1>1. /\ ws.requests \in Seq(SharedRequests) /\ ws.projects \in Seq(SharedProjects)
      /\ imported.requests \in Seq(SharedRequests) /\ imported.projects \in Seq(SharedProjects)
      /\ ws.environments \in Seq(Nat) /\ imported.environments \in Seq(Nat)
      /\ N \in Nat /\ DOMAIN ws.projects = 1 .. N
  BY DEF SharedWorkspaces
<1>2. q = normalizeWorkspace(w, fresh)
  <2> HIDE DEF as, bs, ns, os
  <2>1. QED
    BY DEF Merge, as, bs, ns, os
<1> HIDE DEF q
<1>3. /\ os \in Seq(SharedRequests) /\ Len(os) = Len(ws.requests) /\ IdsIn(os) = IdsIn(ws.requests)
      /\ \A k \in 1 .. Len(ws.requests) : os[k].id = ws.requests[k].id
      /\ Pairwise(os, IdDiffers)
  <2>1. Pairwise(ws.requests, IdDiffers)
    BY DEF IdsDistinct
  <2>2. os = Overwritten(ws, imported, mode, ws.requests)
    OBVIOUS
  <2> DEFINE rs == ws.requests
  <2>3. rs \in Seq(SharedRequests) /\ Pairwise(rs, IdDiffers)
    BY <1>1, <2>1
  <2> HIDE DEF os, ns, as, bs, es, w, over, N, rs
  <2>4. LET o == Overwritten(ws, imported, mode, rs)
        IN  /\ o \in Seq(SharedRequests) /\ Len(o) = Len(rs) /\ IdsIn(o) = IdsIn(rs)
            /\ \A i \in 1 .. Len(rs) : o[i].id = rs[i].id
            /\ Pairwise(rs, IdDiffers) => Pairwise(o, IdDiffers)
    BY <2>3, OverwrittenList
  <2>5. QED
    BY <2>2, <2>3, <2>4 DEF rs
<1>4. /\ ns \in Seq(SharedRequests) /\ Pairwise(ns, IdDiffers)
      /\ ToSet(ns) \subseteq ToSet(imported.requests)
      /\ \A r \in ToSet(ns) : Known(ws, r.url) = <<>>
  <2>1. Pairwise(imported.requests, IdDiffers)
    BY DEF IdsDistinct
  <2>2. QED
    BY <1>1, <2>1, NewRequests
<1>5. IdsIn(ns) \subseteq IdsIn(imported.requests)
  BY <1>4 DEF IdsIn
<1>6. ASSUME NEW i \in 1 .. N
      PROVE  LET b == ws.projects[i]
             IN  /\ as[i] \in SharedProjects /\ as[i].name = b.name /\ b \in ToSet(ws.projects)
                 /\ Len(as[i].requests) = Len(b.requests) /\ IdsIn(as[i].requests) = IdsIn(b.requests)
                 /\ \A k \in 1 .. Len(b.requests) : as[i].requests[k].id = b.requests[k].id
                 /\ Pairwise(as[i].requests, IdDiffers) /\ Pairwise(b.requests, IdDiffers)
                 /\ as[i].requests \in Seq(SharedRequests)
  <2> DEFINE b == ws.projects[i]
             r == over(b.requests)
  <2>1. b \in SharedProjects /\ b \in ToSet(ws.projects)
    <3>1. ToSet(ws.projects) = {ws.projects[k] : k \in 1 .. N} /\ ToSet(ws.projects) \subseteq SharedProjects
      BY <1>1, SetOfList
    <3>2. QED
      BY <3>1
  <2>2. b.requests \in Seq(SharedRequests)
    BY <2>1 DEF SharedProjects
  <2>3. Pairwise(b.requests, IdDiffers)
    BY <2>1 DEF IdsDistinct
  <2>4. as[i] = [b EXCEPT !.requests = r]
    BY <1>1 DEF OverwrittenProjects
  <2>5. /\ r \in Seq(SharedRequests) /\ Len(r) = Len(b.requests) /\ IdsIn(r) = IdsIn(b.requests)
        /\ \A k \in 1 .. Len(b.requests) : r[k].id = b.requests[k].id
        /\ Pairwise(r, IdDiffers)
    BY <2>2, <2>3, OverwrittenList
  <2> HIDE DEF as, b, r
  <2>6. as[i] \in SharedProjects /\ as[i].name = b.name /\ as[i].requests = r
    BY <2>1, <2>4, <2>5 DEF SharedProjects
  <2>7. QED
    BY <2>1, <2>3, <2>5, <2>6 DEF b
<1>7. as \in Seq(SharedProjects) /\ Len(as) = N
  <2>1. DOMAIN as = 1 .. N /\ as = [i \in DOMAIN as |-> as[i]]
    BY <1>1 DEF OverwrittenProjects
  <2>2. \A i \in 1 .. N : as[i] \in SharedProjects
    BY <1>6
  <2>3. N \in Nat
    BY <1>1
  <2> HIDE DEF as, N
  <2>4. as \in [1 .. N -> SharedProjects]
    BY <2>1, <2>2
  <2>5. as \in Seq(SharedProjects)
    BY <2>3, <2>4, SeqDef, Zenon
  <2>6. Len(as) = N
    BY <2>3, <2>4, <2>5, LenProperties
  <2>7. QED
    BY <2>5, <2>6
<1>8. Brought(ws, bs, imported.projects, Len(imported.projects))
  BY <1>1, ProjectsBrought DEF IdsDistinct
<1> HIDE DEF os, ns, as, bs, N
<1>9. es \in Seq(Nat)
  BY <1>1, ConcatProperties
<1>10. bs \in Seq(SharedProjects) /\ Pairwise(bs, IdsDiffer) /\ Pairwise(bs, NamesDiffer)
  BY <1>8 DEF Brought
<1>11. ASSUME NEW p \in ToSet(bs)
       PROVE  /\ Pairwise(p.requests, IdDiffers) /\ p \in SharedProjects
              /\ p.requests \in Seq(SharedRequests)
              /\ \A i \in 1 .. N : p.name # ws.projects[i].name
              /\ \E e \in ToSet(imported.projects) : IdsIn(p.requests) \subseteq IdsIn(e.requests)
              /\ \A r \in ToSet(p.requests) : Known(ws, r.url) = <<>>
  <2>1. p \in SharedProjects
    BY <1>10, SetOfList
  <2>2. /\ Pairwise(p.requests, IdDiffers)
        /\ \A i \in DOMAIN ws.projects : p.name # ws.projects[i].name
        /\ \E i \in 1 .. Len(imported.projects) : IdsIn(p.requests) \subseteq IdsIn(imported.projects[i].requests)
        /\ \A r \in ToSet(p.requests) : Known(ws, r.url) = <<>>
    BY <1>8 DEF Brought
  <2>3. PICK i \in 1 .. Len(imported.projects) : IdsIn(p.requests) \subseteq IdsIn(imported.projects[i].requests)
    BY <2>2
  <2>4. imported.projects[i] \in ToSet(imported.projects)
    BY <1>1, SetOfList
  <2>5. p.requests \in Seq(SharedRequests)
    BY <2>1 DEF SharedProjects
  <2>6. QED
    BY <1>1, <2>1, <2>2, <2>3, <2>4, <2>5
<1>12. /\ os \o ns \in Seq(SharedRequests) /\ Len(os \o ns) = Len(os) + Len(ns)
       /\ \A k \in 1 .. Len(os) : (os \o ns)[k] = os[k]
       /\ ToSet(os \o ns) = ToSet(os) \cup ToSet(ns)
  BY <1>3, <1>4, JoinedLists, Zenon
<1>13. /\ as \o bs \in Seq(SharedProjects) /\ Len(as \o bs) = N + Len(bs)
       /\ \A i \in 1 .. N : (as \o bs)[i] = as[i]
       /\ ToSet(as \o bs) = ToSet(as) \cup ToSet(bs)
  BY <1>7, <1>10, JoinedLists, Zenon
<1>14. q \in SharedWorkspaces /\ q.requests = os \o ns /\ q.projects = as \o bs
  <2>1. w \in [requests : Seq(SharedRequests), projects : Seq(SharedProjects),
               environments : Seq(Nat), environment : Nat]
    BY <1>9, <1>12, <1>13 DEF SharedWorkspaces
  <2>2. w.requests = os \o ns /\ w.projects = as \o bs
    BY DEF SharedWorkspaces
  <2> HIDE DEF w
  <2>3. QED
    BY <1>2, <2>1, <2>2, Normalized
<1>15. ToSet(as) = {as[i] : i \in 1 .. N}
  BY <1>7, SetOfList
<1>16. ToSet(bs) = {bs[i] : i \in 1 .. Len(bs)}
  BY <1>10, SetOfList
<1>17. ASSUME NEW n \in (0 + 1) .. lo, NEW m \in (lo + 1) .. hi PROVE n # m
  OBVIOUS
<1>18. IdsIn(os) \subseteq (0 + 1) .. lo /\ IdsIn(ns) \subseteq (lo + 1) .. hi
  BY <1>3, <1>5 DEF IdsWithin
<1>19. ASSUME NEW p \in ToSet(as)
       PROVE  /\ IdsIn(p.requests) \subseteq (0 + 1) .. lo /\ Pairwise(p.requests, IdDiffers)
              /\ IdsIn(p.requests) \cap IdsIn(os) = {} /\ p \in SharedProjects
              /\ \E b \in ToSet(ws.projects) : IdsIn(p.requests) = IdsIn(b.requests) /\ p.name = b.name
  <2>1. PICK i \in 1 .. N : p = as[i]
    BY <1>15
  <2> DEFINE b == ws.projects[i]
  <2>2. /\ p \in SharedProjects /\ p.name = b.name /\ b \in ToSet(ws.projects)
        /\ IdsIn(p.requests) = IdsIn(b.requests) /\ Pairwise(p.requests, IdDiffers)
    BY <1>6, <2>1
  <2> HIDE DEF b
  <2>3. IdsIn(b.requests) \subseteq (0 + 1) .. lo
    BY <2>2 DEF IdsWithin
  <2>4. IdsIn(b.requests) \cap IdsIn(ws.requests) = {}
    BY <2>2 DEF IdsDistinct
  <2>5. QED
    BY <1>3, <2>2, <2>3, <2>4
<1>20. ASSUME NEW p \in ToSet(bs)
       PROVE  /\ IdsIn(p.requests) \subseteq (lo + 1) .. hi
              /\ IdsIn(p.requests) \cap IdsIn(ns) = {}
  <2>1. PICK e \in ToSet(imported.projects) : IdsIn(p.requests) \subseteq IdsIn(e.requests)
    BY <1>11
  <2>2. IdsIn(e.requests) \subseteq (lo + 1) .. hi
    BY DEF IdsWithin
  <2>3. IdsIn(e.requests) \cap IdsIn(imported.requests) = {}
    BY DEF IdsDistinct
  <2>4. QED
    BY <1>5, <2>1, <2>2, <2>3
<1>21. Pairwise(os \o ns, IdDiffers)
  <2>1. ASSUME NEW e \in ToSet(ns), NEW x \in ToSet(os)
        PROVE  <<x, e>> \in IdDiffers /\ <<e, x>> \in IdDiffers
    <3>1. e \in SharedRequests /\ x \in SharedRequests
      BY <1>3, <1>4, SetOfList
    <3>2. x.id \in (0 + 1) .. lo /\ e.id \in (lo + 1) .. hi
      BY <1>18 DEF IdsIn
    <3>3. x.id # e.id
      BY <1>17, <3>2
    <3>4. QED
      BY <3>1, <3>3 DEF IdDiffers
  <2>2. \A e \in ToSet(ns) : Fits(e, ToSet(os), IdDiffers)
    BY <2>1 DEF Fits
  <2>3. QED
    BY <1>3, <1>4, <2>2, JoinedLists, Zenon
<1>22. Pairwise(as, IdsDiffer) /\ Pairwise(as, NamesDiffer)
  <2>1. ASSUME NEW i \in 1 .. N, NEW j \in 1 .. N, i # j
        PROVE  <<as[i], as[j]>> \in IdsDiffer /\ <<as[i], as[j]>> \in NamesDiffer
    <3>1. <<ws.projects[i], ws.projects[j]>> \in IdsDiffer
      BY <2>1 DEF IdsDistinct, Pairwise, N
    <3>2. <<ws.projects[i], ws.projects[j]>> \in NamesDiffer
      BY <2>1 DEF Pairwise, N
    <3>3. /\ IdsIn(ws.projects[i].requests) \cap IdsIn(ws.projects[j].requests) = {}
          /\ ws.projects[i].name # ws.projects[j].name
      BY <3>1, <3>2 DEF IdsDiffer, NamesDiffer
    <3>4. /\ IdsIn(as[i].requests) = IdsIn(ws.projects[i].requests) /\ as[i].name = ws.projects[i].name
          /\ IdsIn(as[j].requests) = IdsIn(ws.projects[j].requests) /\ as[j].name = ws.projects[j].name
          /\ as[i] \in SharedProjects /\ as[j] \in SharedProjects
      BY <1>6
    <3>5. QED
      BY <3>3, <3>4 DEF IdsDiffer, NamesDiffer
  <2>2. QED
    BY <1>7, <2>1 DEF Pairwise
<1>23. ASSUME NEW e \in ToSet(bs), NEW x \in ToSet(as)
       PROVE  /\ <<x, e>> \in IdsDiffer /\ <<e, x>> \in IdsDiffer
              /\ <<x, e>> \in NamesDiffer /\ <<e, x>> \in NamesDiffer
  <2>1. e \in SharedProjects /\ x \in SharedProjects
    BY <1>11, <1>19
  <2>2. IdsIn(x.requests) \cap IdsIn(e.requests) = {}
    <3>1. IdsIn(x.requests) \subseteq (0 + 1) .. lo /\ IdsIn(e.requests) \subseteq (lo + 1) .. hi
      BY <1>19, <1>20
    <3>2. QED
      BY <1>17, <3>1
  <2>3. x.name # e.name
    <3>1. PICK i \in 1 .. N : x = as[i]
      BY <1>15
    <3>2. x.name = ws.projects[i].name
      BY <1>6, <3>1
    <3>3. e.name # ws.projects[i].name
      BY <1>11
    <3>4. QED
      BY <3>2, <3>3
  <2>4. QED
    BY <2>1, <2>2, <2>3 DEF IdsDiffer, NamesDiffer
<1>24. Pairwise(as \o bs, IdsDiffer)
  <2>1. \A e \in ToSet(bs) : Fits(e, ToSet(as), IdsDiffer)
    BY <1>23 DEF Fits
  <2>2. QED
    BY <1>7, <1>10, <1>22, <2>1, JoinedLists, Zenon
<1>25. Pairwise(as \o bs, NamesDiffer)
  <2>1. \A e \in ToSet(bs) : Fits(e, ToSet(as), NamesDiffer)
    BY <1>23 DEF Fits
  <2>2. QED
    BY <1>7, <1>10, <1>22, <2>1, JoinedLists, Zenon
<1>26. IdsIn(os \o ns) = IdsIn(os) \cup IdsIn(ns)
  BY <1>12 DEF IdsIn
<1>27. ASSUME NEW p \in ToSet(as \o bs)
       PROVE  /\ Pairwise(p.requests, IdDiffers) /\ IdsIn(p.requests) \cap IdsIn(os \o ns) = {}
              /\ IdsIn(p.requests) \subseteq (0 + 1) .. lo \/ IdsIn(p.requests) \subseteq (lo + 1) .. hi
  <2>1. CASE p \in ToSet(as)
    <3>1. /\ IdsIn(p.requests) \subseteq (0 + 1) .. lo /\ Pairwise(p.requests, IdDiffers)
          /\ IdsIn(p.requests) \cap IdsIn(os) = {}
      BY <1>19, <2>1
    <3>2. IdsIn(p.requests) \cap IdsIn(ns) = {}
      BY <1>17, <1>18, <3>1
    <3>3. QED
      BY <1>26, <3>1, <3>2
  <2>2. CASE p \in ToSet(bs)
    <3>1. /\ IdsIn(p.requests) \subseteq (lo + 1) .. hi /\ Pairwise(p.requests, IdDiffers)
          /\ IdsIn(p.requests) \cap IdsIn(ns) = {}
      BY <1>11, <1>20, <2>2
    <3>2. IdsIn(p.requests) \cap IdsIn(os) = {}
      BY <1>17, <1>18, <3>1
    <3>3. QED
      BY <1>26, <3>1, <3>2
  <2>3. QED
    BY <1>13, <2>1, <2>2
<1>28. IdsDistinct(q)
  BY <1>14, <1>21, <1>24, <1>27 DEF IdsDistinct
<1>29. IdsWithin(q, 0, hi)
  <2>1. (0 + 1) .. lo \subseteq (0 + 1) .. hi /\ (lo + 1) .. hi \subseteq (0 + 1) .. hi
    OBVIOUS
  <2>2. IdsIn(q.requests) \subseteq (0 + 1) .. hi
    BY <1>14, <1>18, <1>26, <2>1
  <2>3. \A p \in ToSet(q.projects) : IdsIn(p.requests) \subseteq (0 + 1) .. hi
    BY <1>14, <1>27, <2>1
  <2>4. QED
    BY <2>2, <2>3 DEF IdsWithin
<1>30. /\ Len(q.requests) >= Len(ws.requests) /\ Len(q.projects) >= N
       /\ \A k \in 1 .. Len(ws.requests) : q.requests[k].id = ws.requests[k].id
  <2>1. Len(ns) \in Nat /\ Len(bs) \in Nat /\ Len(os) \in Nat
    BY <1>3, <1>4, <1>10
  <2>2. Len(q.requests) >= Len(os) /\ Len(q.projects) >= N
    <3>1. \A x, y \in Nat : x + y >= x
      OBVIOUS
    <3>2. Len(q.requests) = Len(os) + Len(ns) /\ Len(q.projects) = N + Len(bs)
      BY <1>12, <1>13, <1>14, Zenon
    <3>3. Len(os) + Len(ns) >= Len(os) /\ N + Len(bs) >= N
      BY <1>1, <2>1, <3>1, Zenon
    <3>4. QED
      BY <3>2, <3>3, Zenon
  <2>3. QED
    BY <1>3, <1>12, <1>14, <2>2
<1>31. ASSUME NEW i \in 1 .. N
       PROVE  LET a == q.projects[i]
                  b == ws.projects[i]
              IN  /\ Len(a.requests) = Len(b.requests)
                  /\ \A k \in 1 .. Len(b.requests) : a.requests[k].id = b.requests[k].id
  <2>1. q.projects[i] = as[i]
    BY <1>13, <1>14
  <2>2. QED
    BY <1>6, <2>1
<1>32. ASSUME NEW r \in RequestsIn(q)
       PROVE  r.id \in {s.id : s \in RequestsIn(ws)} \/ Known(ws, r.url) = <<>>
  <2>1. RequestsIn(ws) = ToSet(ws.requests) \cup UNION {ToSet(p.requests) : p \in ToSet(ws.projects)}
    BY RequestsCollected
  <2>2. IdsIn(ws.requests) \subseteq {s.id : s \in RequestsIn(ws)}
    BY <2>1 DEF IdsIn
  <2>3. \A p \in ToSet(ws.projects) : IdsIn(p.requests) \subseteq {s.id : s \in RequestsIn(ws)}
    BY <2>1 DEF IdsIn
  <2>4. RequestsIn(q) = ToSet(q.requests) \cup UNION {ToSet(p.requests) : p \in ToSet(q.projects)}
    BY <1>14, RequestsCollected
  <2>5. CASE r \in ToSet(os)
    <3>1. r.id \in IdsIn(ws.requests)
      BY <1>3, <2>5 DEF IdsIn
    <3>2. QED
      BY <2>2, <3>1
  <2>6. CASE r \in ToSet(ns)
    BY <1>4, <2>6
  <2>7. ASSUME NEW p \in ToSet(as), r \in ToSet(p.requests)
        PROVE  r.id \in {s.id : s \in RequestsIn(ws)}
    <3>1. PICK b \in ToSet(ws.projects) : IdsIn(p.requests) = IdsIn(b.requests)
      BY <1>19
    <3>2. r.id \in IdsIn(p.requests)
      BY <2>7 DEF IdsIn
    <3>3. QED
      BY <2>3, <3>1, <3>2
  <2>8. ASSUME NEW p \in ToSet(bs), r \in ToSet(p.requests)
        PROVE  Known(ws, r.url) = <<>>
    BY <1>11, <2>8
  <2>9. QED
    BY <1>12, <1>13, <1>14, <2>4, <2>5, <2>6, <2>7, <2>8
<1>33. QED
  BY <1>14, <1>25, <1>28, <1>29, <1>30, <1>31, <1>32 DEF ComesOf, q, N

\* If ids are apart, each is that of the request at one place.
LEMMA IdsAreOnce ==
    ASSUME NEW ws \in SharedWorkspaces, IdsDistinct(ws)
    PROVE  EachIdOnce(ws)
<1> DEFINE N == Len(ws.projects)
           at(i) == RequestsAt(ws, i)
<1>1. /\ ws.requests \in Seq(SharedRequests) /\ ws.projects \in Seq(SharedProjects) /\ N \in Nat
      /\ ToSet(ws.projects) = {ws.projects[i] : i \in 1 .. N}
  BY SetOfList DEF SharedWorkspaces
<1>2. ASSUME NEW i \in 0 .. N
      PROVE  /\ i # 0 => i \in 1 .. N /\ ws.projects[i] \in SharedProjects
                         /\ ws.projects[i] \in ToSet(ws.projects) /\ at(i) = ws.projects[i].requests
             /\ i = 0 => at(i) = ws.requests
             /\ at(i) \in Seq(SharedRequests) /\ Pairwise(at(i), IdDiffers)
  <2>1. CASE i = 0
    BY <1>1, <2>1 DEF RequestsAt, IdsDistinct
  <2>2. CASE i # 0
    <3>1. i \in 1 .. N /\ ws.projects[i] \in ToSet(ws.projects) /\ ws.projects[i] \in SharedProjects
      BY <1>1, <2>2
    <3>2. at(i) = ws.projects[i].requests
      BY <2>2 DEF RequestsAt
    <3>3. at(i) \in Seq(SharedRequests)
      BY <3>1, <3>2 DEF SharedProjects
    <3>4. Pairwise(at(i), IdDiffers)
      BY <3>1, <3>2 DEF IdsDistinct
    <3>5. QED
      BY <2>2, <3>1, <3>2, <3>3, <3>4
  <2>3. QED
    BY <2>1, <2>2
<1>3. ASSUME NEW i \in 0 .. N, NEW j \in 0 .. N, i # j
      PROVE  IdsIn(at(i)) \cap IdsIn(at(j)) = {}
  <2>1. CASE i = 0
    <3>1. j # 0
      BY <1>3, <2>1
    <3>2. QED
      BY <1>2, <2>1, <3>1 DEF IdsDistinct
  <2>2. CASE j = 0
    <3>1. i # 0
      BY <1>3, <2>2
    <3>2. QED
      BY <1>2, <2>2, <3>1 DEF IdsDistinct
  <2>3. CASE i # 0 /\ j # 0
    <3>1. <<ws.projects[i], ws.projects[j]>> \in IdsDiffer
      BY <1>2, <1>3, <2>3 DEF IdsDistinct, Pairwise
    <3>2. QED
      BY <1>2, <2>3, <3>1 DEF IdsDiffer
  <2>4. QED
    BY <2>1, <2>2, <2>3
<1>4. ASSUME NEW i \in 0 .. N, NEW j \in 0 .. N, NEW k \in DOMAIN at(i), NEW m \in DOMAIN at(j),
             at(i)[k].id = at(j)[m].id
      PROVE  i = j /\ k = m
  <2>1. /\ DOMAIN at(i) = 1 .. Len(at(i)) /\ ToSet(at(i)) = {at(i)[x] : x \in 1 .. Len(at(i))}
        /\ DOMAIN at(j) = 1 .. Len(at(j)) /\ ToSet(at(j)) = {at(j)[x] : x \in 1 .. Len(at(j))}
    BY <1>2, SetOfList
  <2>2. at(i)[k].id \in IdsIn(at(i)) /\ at(j)[m].id \in IdsIn(at(j))
    BY <2>1 DEF IdsIn
  <2>3. i = j
    BY <1>3, <1>4, <2>2
  <2>4. k = m
    <3>1. SUFFICES ASSUME k # m PROVE FALSE
      OBVIOUS
    <3>2. Pairwise(at(i), IdDiffers) /\ k \in 1 .. Len(at(i)) /\ m \in 1 .. Len(at(i))
      BY <1>2, <2>1, <2>3
    <3>3. <<at(i)[k], at(i)[m]>> \in IdDiffers
      BY <3>1, <3>2 DEF Pairwise
    <3>4. QED
      BY <1>4, <2>3, <3>3 DEF IdDiffers
  <2>5. QED
    BY <2>3, <2>4
<1>5. QED
  BY <1>4 DEF EachIdOnce

\* What is shared is a workspace, and no project of it is empty.
LEMMA SharedIsFull ==
    ASSUME NEW ws \in SharedWorkspaces, NEW ids
    PROVE  LET d == buildShareWorkspace(ws, ids)
           IN  d \in SharedWorkspaces /\ \A p \in ToSet(d.projects) : p.requests # <<>>
<1> DEFINE ps == [i \in DOMAIN ws.projects |->
                     [ws.projects[i] EXCEPT !.requests = Selected(@, ids)]]
           P == {i \in DOMAIN ps : ps[i].requests # <<>>}
           rs == Selected(ws.requests, ids)
           qs == Kept(ps, P)
           d == buildShareWorkspace(ws, ids)
<1>1. ws.requests \in Seq(SharedRequests) /\ ws.projects \in Seq(SharedProjects)
  BY DEF SharedWorkspaces
<1>2. ASSUME NEW s \in Seq(SharedRequests) PROVE Selected(s, ids) \in Seq(SharedRequests)
  BY KeptElements DEF Selected
<1>3. ASSUME NEW i \in DOMAIN ws.projects PROVE ps[i] \in SharedProjects
  <2>1. ws.projects[i] \in SharedProjects
    BY <1>1
  <2>2. ws.projects[i].requests \in Seq(SharedRequests)
    BY <2>1 DEF SharedProjects
  <2>3. Selected(ws.projects[i].requests, ids) \in Seq(SharedRequests)
    BY <1>2, <2>2
  <2>4. QED
    BY <2>1, <2>3 DEF SharedProjects
<1>4. ps \in Seq(SharedProjects)
  <2>1. DOMAIN ps = 1 .. Len(ws.projects) /\ ps = [i \in DOMAIN ps |-> ps[i]] /\ Len(ws.projects) \in Nat
    BY <1>1
  <2>2. \A i \in DOMAIN ps : ps[i] \in SharedProjects
    BY <1>3
  <2> DEFINE N == Len(ws.projects)
  <2>3. N \in Nat
    BY <1>1
  <2> HIDE DEF ps, N
  <2>4. ps \in [1 .. N -> SharedProjects]
    BY <2>1, <2>2 DEF N
  <2>5. QED
    BY <2>3, <2>4, SeqDef, Zenon
<1>5. rs \in Seq(SharedRequests)
  BY <1>1, <1>2
<1>6. d = [ws EXCEPT !.requests = rs, !.projects = qs]
  <2> HIDE DEF rs, ps, P
  <2>1. SharedOf(ws, ids) = qs
    BY DEF SharedOf, ps, P
  <2>2. QED
    BY <2>1 DEF buildShareWorkspace, rs
<1>7. \A i \in P : ps[i].requests # <<>>
  OBVIOUS
<1> HIDE DEF ps, P, rs
<1>8. qs \in Seq(SharedProjects) /\ ToSet(qs) = {ps[i] : i \in P \cap (1 .. Len(ps))}
  BY <1>4, KeptPairs
<1> HIDE DEF qs, d
<1>9. d \in SharedWorkspaces /\ d.projects = qs
  BY <1>5, <1>6, <1>8 DEF SharedWorkspaces
<1>10. QED
  BY <1>7, <1>8, <1>9 DEF d

\* A workspace that was read back is the document it is from.
ReadBack(n) ==
    /\ LET urls(rs) == [i \in DOMAIN rs |-> rs[i].url]
           shape(ws) == <<urls(ws.requests), [i \in DOMAIN ws.projects |->
                            <<ws.projects[i].name, urls(ws.projects[i].requests)>>]>>
       IN  shape(n.is) = shape(n.of)
    /\ n.is.environment \in ToSet(n.is.environments)
    /\ EachIdOnce(n.is)
    /\ n.of \notin Documents => \A p \in ToSet(n.of.projects) : p.requests # <<>>

LEMMA DocumentReadBack ==
    ASSUME importText \in Nat, NEW from \in Nat, NEW doc \in SharedWorkspaces,
           doc \notin Documents => \A p \in ToSet(doc.projects) : p.requests # <<>>
    PROVE  ReadBack([of |-> doc, is |-> normalizeImportedWorkspace(doc, from)])
<1> DEFINE q == normalizeImportedWorkspace(doc, from)
           N == Len(doc.projects)
           urls(rs) == [i \in DOMAIN rs |-> rs[i].url]
           shape(ws) == <<urls(ws.requests), [i \in DOMAIN ws.projects |->
                            <<ws.projects[i].name, urls(ws.projects[i].requests)>>]>>
<1>1. /\ q \in SharedWorkspaces /\ IdsDistinct(q)
      /\ q.environment \in ToSet(q.environments)
      /\ Len(q.requests) = Len(doc.requests) /\ Len(q.projects) = N
      /\ \A i \in 1 .. Len(doc.requests) : q.requests[i].url = doc.requests[i].url
      /\ \A i \in 1 .. N :
            LET a == q.projects[i]
                b == doc.projects[i]
            IN  /\ a.name = b.name /\ Len(a.requests) = Len(b.requests)
                /\ \A k \in 1 .. Len(b.requests) : a.requests[k].url = b.requests[k].url
  BY ImportedWorkspace
<1> HIDE DEF q
<1>2. EachIdOnce(q)
  BY <1>1, IdsAreOnce
<1>3. ASSUME NEW a \in Seq(SharedRequests), NEW b \in Seq(SharedRequests), Len(a) = Len(b),
             \A k \in 1 .. Len(b) : a[k].url = b[k].url
      PROVE  urls(a) = urls(b)
  <2>1. DOMAIN a = DOMAIN b /\ DOMAIN b = 1 .. Len(b)
    BY <1>3
  <2>2. QED
    BY <1>3, <2>1
<1>4. /\ q.requests \in Seq(SharedRequests) /\ q.projects \in Seq(SharedProjects)
      /\ doc.requests \in Seq(SharedRequests) /\ doc.projects \in Seq(SharedProjects)
  BY <1>1 DEF SharedWorkspaces
<1>5. urls(q.requests) = urls(doc.requests)
  BY <1>1, <1>3, <1>4
<1>6. DOMAIN q.projects = 1 .. N /\ DOMAIN doc.projects = 1 .. N
  BY <1>1, <1>4
<1>7. ASSUME NEW i \in 1 .. N
      PROVE  /\ q.projects[i].name = doc.projects[i].name
             /\ urls(q.projects[i].requests) = urls(doc.projects[i].requests)
  <2> DEFINE a == q.projects[i]
             b == doc.projects[i]
  <2>1. a \in SharedProjects /\ b \in SharedProjects
    BY <1>4, <1>6
  <2>2. a.requests \in Seq(SharedRequests) /\ b.requests \in Seq(SharedRequests)
    BY <2>1 DEF SharedProjects
  <2>3. /\ a.name = b.name /\ Len(a.requests) = Len(b.requests)
        /\ \A k \in 1 .. Len(b.requests) : a.requests[k].url = b.requests[k].url
    BY <1>1
  <2>4. urls(a.requests) = urls(b.requests)
    BY <1>3, <2>2, <2>3
  <2>5. QED
    BY <2>3, <2>4
<1> HIDE DEF urls
<1>8. shape(q) = shape(doc)
  BY <1>5, <1>6, <1>7
<1>9. QED
  BY <1>1, <1>2, <1>8 DEF ReadBack, q, urls

(* The invariant.                                                          *)

ImportInv ==
    /\ importIds \in Nat /\ importText \in Nat
    /\ current \in SharedWorkspaces /\ IdsDistinct(current) /\ IdsWithin(current, 0, importIds)
    /\ Pairwise(current.projects, NamesDiffer)
    /\ document = <<>> \/ \E d \in SharedWorkspaces :
          /\ document = <<d>>
          /\ d \notin Documents => \A p \in ToSet(d.projects) : p.requests # <<>>
    /\ another = <<>> \/ \E n : another = <<n>> /\ ReadBack(n)

LEMMA ImportStarts == ImportInit => ImportInv
<1>1. SUFFICES ASSUME ImportInit PROVE ImportInv
  OBVIOUS
<1> DEFINE r(i, u) == [id |-> i, url |-> u, text |-> 0]
           p(v) == [id |-> 4, name |-> <<1>>, requests |-> <<r(2, v)>>, variables |-> FALSE]
<1>2. PICK u \in Urls, v \in Urls :
        current = [requests |-> <<r(1, u)>>, environments |-> <<3>>, environment |-> 3,
                   projects |-> <<p(v)>>]
  BY <1>1 DEF ImportInit, Req
<1>3. r(1, u) \in SharedRequests /\ r(2, v) \in SharedRequests /\ r(1, u).id = 1 /\ r(2, v).id = 2
  BY DEF SharedRequests
<1> HIDE DEF r
<1>4. <<r(1, u)>> \in Seq(SharedRequests) /\ <<r(2, v)>> \in Seq(SharedRequests)
  BY <1>3
<1>5. <<1>> \in Seq(Nat) /\ <<3>> \in Seq(Nat)
  OBVIOUS
<1>6. p(v) \in SharedProjects /\ p(v).requests = <<r(2, v)>>
  BY <1>4, <1>5 DEF SharedProjects
<1> HIDE DEF p
<1>7. <<p(v)>> \in Seq(SharedProjects)
  BY <1>6
<1>8. /\ current \in SharedWorkspaces /\ current.requests = <<r(1, u)>> /\ current.projects = <<p(v)>>
  BY <1>2, <1>4, <1>5, <1>7 DEF SharedWorkspaces
<1>9. \A x : ToSet(<<x>>) = {x}
  BY DEF ToSet
<1>10. \A x, B : Pairwise(<<x>>, B)
  BY DEF Pairwise
<1>11. IdsIn(<<r(1, u)>>) = {1} /\ IdsIn(<<r(2, v)>>) = {2}
  BY <1>3, <1>9 DEF IdsIn
<1>12. IdsDistinct(current)
  BY <1>6, <1>8, <1>9, <1>10, <1>11 DEF IdsDistinct
<1>13. IdsWithin(current, 0, 4)
  <2>1. \A q \in ToSet(current.projects) : IdsIn(q.requests) = {2}
    BY <1>6, <1>8, <1>9, <1>11
  <2>2. IdsIn(current.requests) = {1}
    BY <1>8, <1>11
  <2>3. {1} \subseteq (0 + 1) .. 4 /\ {2} \subseteq (0 + 1) .. 4
    OBVIOUS
  <2>4. QED
    BY <2>1, <2>2, <2>3 DEF IdsWithin
<1>14. importIds = 4 /\ importText = 0 /\ document = <<>> /\ another = <<>>
  BY <1>1 DEF ImportInit
<1>15. QED
  BY <1>8, <1>10, <1>12, <1>13, <1>14 DEF ImportInv

\* An import keeps the invariant, what was there before its own ids, and adds what was not known.
LEMMA ImportMerges ==
    ASSUME ImportInv, NEW mode, ImportIntoCurrent(mode)
    PROVE  ImportInv' /\ ComesOf(current, current', importIds')
<1>1. PICK d \in SharedWorkspaces : document = <<d>>
  BY DEF ImportInv, ImportIntoCurrent, Begins
<1>2. document[1] = d
  BY <1>1
<1> DEFINE imported == normalizeImportedWorkspace(d, importIds)
           hi == importIds + IdsOf(d)
<1>3. /\ current' = Merge(current, imported, mode, hi) /\ importIds' = hi
      /\ importText' = importText + 1 /\ document' = <<>> /\ another' = another
  BY <1>2 DEF ImportIntoCurrent, Begins
<1>4. /\ importIds \in Nat /\ importText \in Nat /\ current \in SharedWorkspaces
      /\ IdsDistinct(current) /\ IdsWithin(current, 0, importIds) /\ Pairwise(current.projects, NamesDiffer)
  BY DEF ImportInv
<1>5. /\ imported \in SharedWorkspaces /\ IdsOf(d) \in Nat
      /\ IdsDistinct(imported) /\ IdsWithin(imported, importIds, hi)
  BY <1>4, ImportedWorkspace
<1> HIDE DEF imported
<1>6. hi \in Nat /\ importIds <= hi
  BY <1>4, <1>5
<1> HIDE DEF hi
<1>7. ComesOf(current, Merge(current, imported, mode, hi), hi)
  BY <1>4, <1>5, <1>6, Merged
<1>8. importText + 1 \in Nat
  BY <1>4
<1>9. another = <<>> \/ \E n : another = <<n>> /\ ReadBack(n)
  BY DEF ImportInv
<1>10. ImportInv'
  BY <1>3, <1>6, <1>7, <1>8, <1>9 DEF ImportInv, ComesOf
<1>11. QED
  BY <1>3, <1>7, <1>10

LEMMA ImportStep == ImportInv /\ [ImportNext]_importVars => ImportInv'
<1>1. SUFFICES ASSUME ImportInv, [ImportNext]_importVars PROVE ImportInv'
  OBVIOUS
<1>2. ASSUME NEW ids, Share(ids) PROVE ImportInv'
  <2> DEFINE d == buildShareWorkspace(current, ids)
  <2>1. d \in SharedWorkspaces /\ \A p \in ToSet(d.projects) : p.requests # <<>>
    BY <1>1, SharedIsFull DEF ImportInv
  <2>2. document' = <<d>> /\ UNCHANGED <<current, importIds, importText, another>>
    BY <1>2 DEF Share
  <2> HIDE DEF d
  <2>3. QED
    BY <1>1, <2>1, <2>2 DEF ImportInv
<1>3. ASSUME NEW doc \in Documents, Receive(doc) PROVE ImportInv'
  <2>1. doc \in SharedWorkspaces
    BY ImportAssumption
  <2>2. document' = <<doc>> /\ UNCHANGED <<current, importIds, importText, another>>
    BY <1>3 DEF Receive
  <2>3. QED
    BY <1>1, <2>1, <2>2 DEF ImportInv
<1>4. ASSUME NEW mode, ImportIntoCurrent(mode) PROVE ImportInv'
  BY <1>1, <1>4, ImportMerges
<1>5. CASE ImportAsNew
  <2>1. PICK d \in SharedWorkspaces :
          /\ document = <<d>>
          /\ d \notin Documents => \A p \in ToSet(d.projects) : p.requests # <<>>
    BY <1>1, <1>5 DEF ImportInv, ImportAsNew, Begins
  <2>2. document[1] = d
    BY <2>1
  <2> DEFINE q == normalizeImportedWorkspace(d, importIds)
             n == [of |-> d, is |-> q]
  <2>3. /\ another' = <<n>> /\ importIds' = importIds + IdsOf(d) /\ importText' = importText + 1
        /\ document' = <<>> /\ current' = current
    BY <1>5, <2>2 DEF ImportAsNew, Begins
  <2>4. importIds \in Nat /\ importText \in Nat
    BY <1>1 DEF ImportInv
  <2>5. IdsOf(d) \in Nat
    BY <2>4, ImportedWorkspace
  <2>6. ReadBack(n)
    BY <2>1, <2>4, DocumentReadBack
  <2> HIDE DEF n
  <2>7. importIds' \in Nat /\ importText' \in Nat
    BY <2>3, <2>4, <2>5
  <2>8. \E x : another' = <<x>> /\ ReadBack(x)
    BY <2>3, <2>6
  <2>9. IdsWithin(current, 0, importIds + IdsOf(d))
    <3>1. IdsWithin(current, 0, importIds)
      BY <1>1 DEF ImportInv
    <3>2. (0 + 1) .. importIds \subseteq (0 + 1) .. (importIds + IdsOf(d))
      BY <2>4, <2>5
    <3>3. QED
      BY <3>1, <3>2 DEF IdsWithin
  <2>10. /\ current \in SharedWorkspaces /\ IdsDistinct(current)
         /\ Pairwise(current.projects, NamesDiffer)
    BY <1>1 DEF ImportInv
  <2>11. QED
    BY <2>3, <2>7, <2>8, <2>9, <2>10 DEF ImportInv
<1>6. CASE UNCHANGED importVars
  BY <1>1, <1>6 DEF ImportInv, importVars
<1>7. QED
  BY <1>1, <1>2, <1>3, <1>4, <1>5, <1>6 DEF ImportNext

\* A list of ids that goes on is a prefix of what it goes on to.
LEMMA GoesOn ==
    ASSUME NEW S, NEW s \in Seq(S), NEW t \in Seq(S), Len(t) >= Len(s),
           \A k \in 1 .. Len(s) : t[k] = s[k]
    PROVE  IsPrefix(s, t)
<1>1. Len(s) \in Nat /\ Len(t) \in Nat
  OBVIOUS
<1>2. \A k \in 1 .. Len(s) : t[k] \in S
  BY <1>1
<1>3. /\ SubSeq(t, 1, Len(s)) \in Seq(S)
      /\ Len(SubSeq(t, 1, Len(s))) = IF 1 <= Len(s) THEN Len(s) - 1 + 1 ELSE 0
      /\ \A k \in 1 .. (Len(s) - 1 + 1) : SubSeq(t, 1, Len(s))[k] = t[1 + k - 1]
  BY <1>1, <1>2, SubSeqProperties
<1> DEFINE u == SubSeq(t, 1, Len(s))
<1>4. u \in Seq(S) /\ Len(u) = Len(s) /\ \A k \in 1 .. Len(s) : u[k] = s[k]
  BY <1>1, <1>3
<1> HIDE DEF u
<1>5. u = s
  BY <1>4, SeqEqual
<1>6. QED
  BY <1>1, <1>5 DEF IsPrefix, u

\* What is given for each place up to one is a list.
LEMMA PlacesMakeAList ==
    ASSUME NEW S, NEW n \in Nat, NEW s \in [1 .. n -> S]
    PROVE  s \in Seq(S)
  BY SeqDef, Zenon

\* A workspace that comes of another by an import has its ids in their places, and what
\* is new in it has addresses that were not there.
LEMMA IdsGoOn ==
    ASSUME NEW ws \in SharedWorkspaces, NEW q, NEW hi, ComesOf(ws, q, hi)
    PROVE  IsPrefix(IdList(ws), IdList(q)) /\ IsPrefix(ProjectIdLists(ws), ProjectIdLists(q))
<1>1. /\ q \in SharedWorkspaces
      /\ Len(q.requests) >= Len(ws.requests) /\ Len(q.projects) >= Len(ws.projects)
      /\ \A k \in 1 .. Len(ws.requests) : q.requests[k].id = ws.requests[k].id
      /\ \A i \in 1 .. Len(ws.projects) :
            LET a == q.projects[i]
                b == ws.projects[i]
            IN  /\ Len(a.requests) = Len(b.requests)
                /\ \A k \in 1 .. Len(b.requests) : a.requests[k].id = b.requests[k].id
  BY DEF ComesOf
<1> DEFINE ids(rs) == [i \in DOMAIN rs |-> rs[i].id]
<1>2. ASSUME NEW rs \in Seq(SharedRequests)
      PROVE  ids(rs) \in Seq(Nat) /\ Len(ids(rs)) = Len(rs) /\ \A k \in 1 .. Len(rs) : ids(rs)[k] = rs[k].id
  <2>1. Len(rs) \in Nat /\ DOMAIN rs = 1 .. Len(rs) /\ \A i \in 1 .. Len(rs) : rs[i] \in SharedRequests
    OBVIOUS
  <2>2. \A i \in 1 .. Len(rs) : rs[i].id \in Nat
    BY <2>1 DEF SharedRequests
  <2> DEFINE n == Len(rs)
             x == ids(rs)
  <2>3. x \in [1 .. n -> Nat] /\ n \in Nat
    BY <2>1, <2>2
  <2> HIDE DEF x, n
  <2>4. x \in Seq(Nat)
    BY <2>3, PlacesMakeAList
  <2>5. QED
    BY <2>1, <2>4 DEF x
<1>3. /\ ws.requests \in Seq(SharedRequests) /\ ws.projects \in Seq(SharedProjects)
      /\ q.requests \in Seq(SharedRequests) /\ q.projects \in Seq(SharedProjects)
  BY <1>1 DEF SharedWorkspaces
<1>4. IdList(ws) = ids(ws.requests) /\ IdList(q) = ids(q.requests)
  BY DEF IdList
<1>5. ASSUME NEW w \in SharedWorkspaces
      PROVE  /\ ProjectIdLists(w) \in Seq(Seq(Nat)) /\ Len(ProjectIdLists(w)) = Len(w.projects)
             /\ \A i \in 1 .. Len(w.projects) : ProjectIdLists(w)[i] = ids(w.projects[i].requests)
  <2>1. w.projects \in Seq(SharedProjects)
    BY DEF SharedWorkspaces
  <2>2. /\ Len(w.projects) \in Nat /\ DOMAIN w.projects = 1 .. Len(w.projects)
        /\ \A i \in 1 .. Len(w.projects) : w.projects[i] \in SharedProjects
    BY <2>1
  <2>3. \A i \in 1 .. Len(w.projects) : w.projects[i].requests \in Seq(SharedRequests)
    BY <2>2 DEF SharedProjects
  <2>4. ProjectIdLists(w) = [i \in 1 .. Len(w.projects) |-> ids(w.projects[i].requests)]
    BY <2>2 DEF ProjectIdLists
  <2>5. \A i \in 1 .. Len(w.projects) : ids(w.projects[i].requests) \in Seq(Nat)
    BY <1>2, <2>3
  <2> HIDE DEF ids
  <2> DEFINE n == Len(w.projects)
             lists == ProjectIdLists(w)
  <2>6. lists \in [1 .. n -> Seq(Nat)] /\ n \in Nat
    BY <2>2, <2>4, <2>5
  <2> HIDE DEF n, lists
  <2>7. lists \in Seq(Seq(Nat))
    BY <2>6, PlacesMakeAList
  <2>8. QED
    BY <2>2, <2>4, <2>7 DEF lists
<1> HIDE DEF ids
<1>6. IsPrefix(IdList(ws), IdList(q))
  <2>1. /\ IdList(ws) \in Seq(Nat) /\ IdList(q) \in Seq(Nat)
        /\ Len(IdList(ws)) = Len(ws.requests) /\ Len(IdList(q)) = Len(q.requests)
        /\ \A k \in 1 .. Len(ws.requests) : IdList(ws)[k] = ws.requests[k].id
        /\ \A k \in 1 .. Len(q.requests) : IdList(q)[k] = q.requests[k].id
    BY <1>2, <1>3, <1>4
  <2>2. \A k \in 1 .. Len(ws.requests) : k \in 1 .. Len(q.requests)
    BY <1>1, <1>3
  <2>3. \A k \in 1 .. Len(IdList(ws)) : IdList(q)[k] = IdList(ws)[k]
    BY <1>1, <2>1, <2>2
  <2>4. Len(IdList(q)) >= Len(IdList(ws))
    BY <1>1, <2>1
  <2>5. QED
    BY <2>1, <2>3, <2>4, GoesOn, Zenon
<1>7. IsPrefix(ProjectIdLists(ws), ProjectIdLists(q))
  <2> DEFINE a == ProjectIdLists(ws)
             b == ProjectIdLists(q)
  <2>1. /\ a \in Seq(Seq(Nat)) /\ b \in Seq(Seq(Nat))
        /\ Len(a) = Len(ws.projects) /\ Len(b) = Len(q.projects)
    BY <1>1, <1>5
  <2>2. ASSUME NEW i \in 1 .. Len(ws.projects) PROVE b[i] = a[i]
    <3>1. i \in 1 .. Len(q.projects)
      BY <1>1, <1>3
    <3>2. a[i] = ids(ws.projects[i].requests) /\ b[i] = ids(q.projects[i].requests)
      BY <1>1, <1>5, <3>1
    <3>3. ws.projects[i] \in SharedProjects /\ q.projects[i] \in SharedProjects
      BY <1>3, <3>1
    <3>4. ws.projects[i].requests \in Seq(SharedRequests) /\ q.projects[i].requests \in Seq(SharedRequests)
      BY <3>3 DEF SharedProjects
    <3> DEFINE x == ids(ws.projects[i].requests)
               y == ids(q.projects[i].requests)
    <3>5. /\ x \in Seq(Nat) /\ Len(x) = Len(ws.projects[i].requests)
          /\ \A k \in 1 .. Len(ws.projects[i].requests) : x[k] = ws.projects[i].requests[k].id
      BY <1>2, <3>4
    <3>a. /\ y \in Seq(Nat) /\ Len(y) = Len(q.projects[i].requests)
          /\ \A k \in 1 .. Len(q.projects[i].requests) : y[k] = q.projects[i].requests[k].id
      BY <1>2, <3>4
    <3>b. /\ Len(q.projects[i].requests) = Len(ws.projects[i].requests)
          /\ \A k \in 1 .. Len(ws.projects[i].requests) :
                q.projects[i].requests[k].id = ws.projects[i].requests[k].id
      BY <1>1
    <3> HIDE DEF x, y
    <3>6. x = y
      BY <3>5, <3>a, <3>b, SeqEqual
    <3>7. QED
      BY <3>2, <3>6 DEF x, y
  <2>3. Len(b) >= Len(a) /\ \A i \in 1 .. Len(a) : b[i] = a[i]
    BY <1>1, <2>1, <2>2
  <2> HIDE DEF a, b
  <2>4. IsPrefix(a, b)
    BY <2>1, <2>3, GoesOn, Zenon
  <2>5. QED
    BY <2>4 DEF a, b
<1>8. QED
  BY <1>6, <1>7

\* The addresses of what is in q and not in ws.
NewAddresses(ws, q) ==
    LET old == {r.id : r \in RequestsIn(ws)}
    IN  Addresses({r \in RequestsIn(q) : r.id \notin old})

LEMMA AddressesAreNew ==
    ASSUME NEW ws \in SharedWorkspaces, NEW q, NEW hi, ComesOf(ws, q, hi)
    PROVE  NewAddresses(ws, q) \cap Addresses(RequestsIn(ws)) = {}
<1> DEFINE old == {r.id : r \in RequestsIn(ws)}
<1>1. \A r \in RequestsIn(q) : r.id \in old \/ Known(ws, r.url) = <<>>
  BY DEF ComesOf
<1>2. SUFFICES ASSUME NEW u \in NewAddresses(ws, q), u \in Addresses(RequestsIn(ws)) PROVE FALSE
  OBVIOUS
<1>3. PICK r \in RequestsIn(q) : r.id \notin old /\ r.url = u /\ u # NoUrl
  BY <1>2 DEF NewAddresses, Addresses
<1>4. Known(ws, u) = <<>>
  BY <1>1, <1>3
<1>5. \A s \in RequestsIn(ws) : s.url # u
  BY <1>3, <1>4, KnownRequests
<1>6. QED
  BY <1>2, <1>5 DEF Addresses

\* A workspace is a prefix of itself.
LEMMA SameIds ==
    ASSUME NEW ws \in SharedWorkspaces
    PROVE  IsPrefix(IdList(ws), IdList(ws)) /\ IsPrefix(ProjectIdLists(ws), ProjectIdLists(ws))
<1> DEFINE n == Len(ws.requests)
           m == Len(ws.projects)
<1>1. ws.requests \in Seq(SharedRequests) /\ ws.projects \in Seq(SharedProjects)
  BY DEF SharedWorkspaces
<1>2. n \in Nat /\ m \in Nat /\ DOMAIN ws.requests = 1 .. n /\ DOMAIN ws.projects = 1 .. m
  BY <1>1
<1> DEFINE AllIds == {ws.requests[i].id : i \in 1 .. n}
           AllLists == {[j \in DOMAIN ws.projects[i].requests |-> ws.projects[i].requests[j].id] : i \in 1 .. m}
<1>3. IdList(ws) \in [1 .. n -> AllIds]
  BY <1>2 DEF IdList
<1>4. ProjectIdLists(ws) \in [1 .. m -> AllLists]
  BY <1>2 DEF ProjectIdLists
<1> HIDE DEF AllIds, AllLists, n, m
<1>5. IdList(ws) \in Seq(AllIds) /\ ProjectIdLists(ws) \in Seq(AllLists)
  BY <1>2, <1>3, <1>4, PlacesMakeAList
<1>6. ASSUME NEW S, NEW s \in Seq(S) PROVE IsPrefix(s, s)
  <2>1. Len(s) >= Len(s) /\ \A k \in 1 .. Len(s) : s[k] = s[k]
    OBVIOUS
  <2>2. QED
    BY <2>1, GoesOn
<1>7. QED
  BY <1>5, <1>6

\* Whatever else is done leaves the workspace as it is.
LEMMA ImportChanges ==
    ASSUME ImportInv, [ImportNext]_importVars
    PROVE  current' = current \/ ComesOf(current, current', importIds')
<1>1. ASSUME NEW mode, ImportIntoCurrent(mode) PROVE ComesOf(current, current', importIds')
  BY <1>1, ImportMerges
<1>2. ASSUME NEW ids, Share(ids) PROVE current' = current
  BY <1>2 DEF Share
<1>3. ASSUME NEW doc, Receive(doc) PROVE current' = current
  BY <1>3 DEF Receive
<1>4. ImportAsNew \/ UNCHANGED importVars => current' = current
  BY DEF ImportAsNew, importVars
<1>5. QED
  BY <1>1, <1>2, <1>3, <1>4 DEF ImportNext

LEMMA ImportKeeps ==
    ASSUME ImportInv, [ImportNext]_importVars
    PROVE  /\ [/\ IsPrefix(IdList(current), IdList(current'))
               /\ IsPrefix(ProjectIdLists(current), ProjectIdLists(current'))]_importVars
           /\ [LET old == {r.id : r \in RequestsIn(current)}
                   added == {r \in RequestsIn(current') : r.id \notin old}
               IN  Addresses(added) \cap Addresses(RequestsIn(current)) = {}]_importVars
<1>1. current \in SharedWorkspaces
  BY DEF ImportInv
<1>2. IsPrefix(IdList(current), IdList(current')) /\ IsPrefix(ProjectIdLists(current), ProjectIdLists(current'))
  <2>1. CASE current' = current
    BY <1>1, <2>1, SameIds
  <2>2. CASE ComesOf(current, current', importIds')
    BY <1>1, <2>2, IdsGoOn
  <2>3. QED
    BY <2>1, <2>2, ImportChanges
<1>3. NewAddresses(current, current') \cap Addresses(RequestsIn(current)) = {}
  <2>1. CASE current' = current
    <3>1. {r \in RequestsIn(current) : r.id \notin {s.id : s \in RequestsIn(current)}} = {}
      OBVIOUS
    <3>2. Addresses({}) = {}
      BY DEF Addresses
    <3>3. QED
      BY <2>1, <3>1, <3>2 DEF NewAddresses
  <2>2. CASE ComesOf(current, current', importIds')
    BY <1>1, <2>2, AddressesAreNew
  <2>3. QED
    BY <2>1, <2>2, ImportChanges
<1>4. QED
  BY <1>2, <1>3 DEF NewAddresses

LEMMA ImportIsApart == ImportInv => ImportedApart /\ SharedComesBack
<1> SUFFICES ASSUME ImportInv PROVE ImportedApart /\ SharedComesBack
  OBVIOUS
<1>1. ImportedApart
  <2>1. EachIdOnce(current)
    BY IdsAreOnce DEF ImportInv
  <2>2. DOMAIN current.projects = 1 .. Len(current.projects)
    BY DEF ImportInv, SharedWorkspaces
  <2>3. \A i, j \in 1 .. Len(current.projects) :
           i # j => <<current.projects[i], current.projects[j]>> \in NamesDiffer
    BY DEF ImportInv, Pairwise
  <2>4. \A i, j \in DOMAIN current.projects : current.projects[i].name = current.projects[j].name => i = j
    BY <2>2, <2>3 DEF NamesDiffer
  <2>5. QED
    BY <2>1, <2>4 DEF ImportedApart
<1>2. \A n \in ToSet(another) : ReadBack(n)
  <2>1. another = <<>> => ToSet(another) = {}
    BY DEF ToSet
  <2>2. \A n : another = <<n>> => ToSet(another) = {n}
    BY DEF ToSet
  <2>3. QED
    BY <2>1, <2>2 DEF ImportInv
<1>3. QED
  BY <1>1, <1>2 DEF SharedComesBack, ReadBack

\* However documents are shared and imported, an import moves, renames and drops no
\* request, adds only what has a new address, gives no id and no name of a project twice,
\* and what was shared comes back as it was.
THEOREM ImportIsSound == ImportSpec => ImportSound
<1>1. ImportInit => ImportInv
  BY ImportStarts
<1>2. ImportInv /\ [ImportNext]_importVars => ImportInv'
  BY ImportStep
<1>3. ImportInv => ImportedApart /\ SharedComesBack
  BY ImportIsApart
<1>4. ImportInv /\ [ImportNext]_importVars =>
         /\ [/\ IsPrefix(IdList(current), IdList(current'))
             /\ IsPrefix(ProjectIdLists(current), ProjectIdLists(current'))]_importVars
         /\ [LET old == {r.id : r \in RequestsIn(current)}
                 added == {r \in RequestsIn(current') : r.id \notin old}
             IN  Addresses(added) \cap Addresses(RequestsIn(current)) = {}]_importVars
  BY ImportKeeps
<1>5. QED
  BY <1>1, <1>2, <1>3, <1>4, PTL DEF ImportSpec, ImportSound, ImportKeepsIds, ImportAddsNew
=============================================================================
