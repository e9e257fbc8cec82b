------------------------------- MODULE HttpImport -------------------------------
(***************************************************************************)
(* Sharing a workspace of the HTTP console and importing one               *)
(* (HttpConsolePanel.tsx): a document is made of the selected requests of  *)
(* a workspace; it is read back with new ids, as a workspace of its own or *)
(* into the current one, where requests with an address that is there      *)
(* already are put over the one that has it, or are left out.              *)
(*                                                                         *)
(* An address is a model value, NoUrl the blank one; a name is a sequence, *)
(* a number for its words and the numbers that were put after them.  Of a  *)
(* request that was overwritten, text says which document it is from.      *)
(***************************************************************************)
EXTENDS Naturals, Sequences, SequencesExt, FiniteSets, Lists

CONSTANTS Urls, NoUrl,  \* addresses
          Documents,    \* documents others may have shared
          MaxImportId   \* the largest id ever given

SharedRequests   == [id : Nat, url : Urls, text : Nat]
SharedProjects   == [id : Nat, name : Seq(Nat), requests : Seq(SharedRequests), variables : BOOLEAN]
SharedWorkspaces == [requests : Seq(SharedRequests), projects : Seq(SharedProjects),
                     environments : Seq(Nat), environment : Nat]

ASSUME ImportAssumption ==
    NoUrl \in Urls /\ MaxImportId \in Nat /\ Documents \subseteq SharedWorkspaces

Dialogs == {"overwrite", "ignore"}

VARIABLES
    current,    \* the active workspace
    document,   \* the JSON in the import box, <<>> when it is empty
    importIds,  \* ids given so far
    importText, \* documents imported so far, the text of what comes from them
    another     \* the workspace imported last as one of its own, <<>> before

importVars == <<current, document, importIds, importText, another>>

Req(id, url, text) == [id |-> id, url |-> url, text |-> text]

ImportInit ==
    /\ \E u, v \in Urls :
          current = [requests |-> <<Req(1, u, 0)>>, environments |-> <<3>>, environment |-> 3,
                     projects |-> <<[id |-> 4, name |-> <<1>>, requests |-> <<Req(2, v, 0)>>,
                                     variables |-> FALSE]>>]
    /\ document = <<>>
    /\ importIds = 4
    /\ importText = 0
    /\ another = <<>>

-----------------------------------------------------------------------------
\* uniqueName
uniqueName(names, base) ==
    IF base \notin names THEN base
    ELSE Append(base, CHOOSE n \in 2 .. Cardinality(names) + 2 :
                        /\ Append(base, n) \notin names
                        /\ \A m \in 2 .. n - 1 : Append(base, m) \in names)

ProjectRequests(ws) == FlattenSeq([i \in DOMAIN ws.projects |-> ws.projects[i].requests])
\* collectShareRequestOptions: in the order in which they are listed.
collectShareRequestOptions(ws) == ws.requests \o ProjectRequests(ws)

\* normalizeWorkspace: there is an environment, and the active one is one of
\* them; fresh is the id of the one made when there is none.
normalizeWorkspace(ws, fresh) ==
    LET es == IF ws.environments = <<>> THEN <<fresh>> ELSE ws.environments
    IN  [ws EXCEPT !.environments = es,
                   !.environment = IF @ \in ToSet(es) THEN @ ELSE es[1]]

-----------------------------------------------------------------------------
(* Faulty variants of what follows, for the properties to tell apart.      *)

\* The request keeps the id it was imported with.
ReplacedAnew(r, new) == new

-----------------------------------------------------------------------------
\* buildShareWorkspace: the selected requests and the projects of them.
Selected(rs, ids) == Kept(rs, {i \in DOMAIN rs : rs[i].id \in ids})
SharedOf(ws, ids) ==
    LET ps == [i \in DOMAIN ws.projects |-> [ws.projects[i] EXCEPT !.requests = Selected(@, ids)]]
    IN  Kept(ps, {i \in DOMAIN ps : ps[i].requests # <<>>})

buildShareWorkspace(ws, ids) ==
    [ws EXCEPT !.requests = Selected(@, ids), !.projects = SharedOf(ws, ids)]

\* normalizeImportedWorkspace: everything gets an id of its own, in the order
\* in which it is listed, after those given so far.
Renumbered(rs, from) == [i \in DOMAIN rs |-> Req(from + i, rs[i].url, importText + 1)]
\* How many ids the requests and the first n projects get.
IdsUpTo(doc) ==
    LET given[n \in 0 .. Len(doc.projects)] ==
          IF n = 0 THEN Len(doc.requests) ELSE given[n - 1] + 1 + Len(doc.projects[n].requests)
    IN  given
normalizeImportedWorkspace(doc, from) ==
    LET given == IdsUpTo(doc)
        last == from + given[Len(doc.projects)]
        es == [i \in DOMAIN doc.environments |-> last + i]
        active == {i \in DOMAIN doc.environments : doc.environments[i] = doc.environment}
    IN  normalizeWorkspace(
          [requests |-> Renumbered(doc.requests, from),
           environments |-> es,
           environment |-> IF active = {} THEN 0 ELSE es[CHOOSE i \in active : \A j \in active : j <= i],
           projects |-> [i \in DOMAIN doc.projects |->
                [doc.projects[i] EXCEPT !.id = from + given[i - 1] + 1,
                                        !.requests = Renumbered(@, from + given[i - 1] + 1)]]],
          last + Len(es) + 1)

IdsOf(doc) == IdsUpTo(doc)[Len(doc.projects)] + Len(doc.environments) + 1

-----------------------------------------------------------------------------
(* mergeImportedWorkspaceIntoCurrent.                                       *)

\* existingRequestIdByUrl: the requests with that address, the first counts; a
\* blank address is nobody's.
Known(ws, url) ==
    LET all == collectShareRequestOptions(ws)
    IN  Kept(all, {i \in DOMAIN all : all[i].url = url /\ url # NoUrl})

\* overwrittenRequests: the last imported request for r, which keeps its id.
Replaced(r, new) == [new EXCEPT !.id = r.id]
Over(ws, imported, mode, r) ==
    LET all == collectShareRequestOptions(imported)
        new == Kept(all, {i \in DOMAIN all : /\ Known(ws, all[i].url) # <<>>
                                             /\ Known(ws, all[i].url)[1].id = r.id})
    IN  IF mode = "ignore" \/ new = <<>> THEN r ELSE Replaced(r, new[Len(new)])

Overwritten(ws, imported, mode, rs) == [i \in DOMAIN rs |-> Over(ws, imported, mode, rs[i])]
OverwrittenProjects(ws, imported, mode) ==
    [i \in DOMAIN ws.projects |->
        [ws.projects[i] EXCEPT !.requests = Overwritten(ws, imported, mode, @)]]

\* The requests of a list that are new.
New(ws, rs) == Kept(rs, {i \in DOMAIN rs : Known(ws, rs[i].url) = <<>>})

\* The names a further imported project may not have.
TakenNames(ws, done) ==
    {ws.projects[i].name : i \in DOMAIN ws.projects} \cup {done[i].name : i \in DOMAIN done}

\* The imported projects that bring something, each with a name of its own.
WithProject(ws, done, p) ==
    LET rs == New(ws, p.requests)
    IN  IF rs = <<>> /\ ~p.variables THEN done
        ELSE Append(done, [p EXCEPT !.requests = rs, !.name = uniqueName(TakenNames(ws, done), p.name)])
ImportedProjects(ws, projects) ==
    LET done[n \in 0 .. Len(projects)] ==
          IF n = 0 THEN <<>> ELSE WithProject(ws, done[n - 1], projects[n])
    IN  done[Len(projects)]

Merge(ws, imported, mode, fresh) ==
    normalizeWorkspace(
        [ws EXCEPT !.environments = @ \o imported.environments,
                   !.requests = Overwritten(ws, imported, mode, @) \o New(ws, imported.requests),
                   !.projects = OverwrittenProjects(ws, imported, mode)
                                \o ImportedProjects(ws, imported.projects)],
        fresh)

-----------------------------------------------------------------------------
\* copyShareJson or downloadShareJson of what is selected.
Share(ids) ==
    /\ document = <<>>
    /\ document' = <<buildShareWorkspace(current, ids)>>
    /\ UNCHANGED <<current, importIds, importText, another>>

Receive(doc) ==
    /\ document = <<>>
    /\ document' = <<doc>>
    /\ UNCHANGED <<current, importIds, importText, another>>

Begins ==
    /\ document # <<>>
    /\ importIds + IdsOf(document[1]) <= MaxImportId
    /\ importIds' = importIds + IdsOf(document[1])
    /\ importText' = importText + 1
    /\ document' = <<>>

\* importShareJson into the current workspace.
ImportIntoCurrent(mode) ==
    /\ Begins
    /\ current' = Merge(current, normalizeImportedWorkspace(document[1], importIds), mode, importIds')
    /\ UNCHANGED another

\* importShareJson as a workspace of its own.
ImportAsNew ==
    /\ Begins
    /\ another' = <<[of |-> document[1], is |-> normalizeImportedWorkspace(document[1], importIds)]>>
    /\ UNCHANGED current

ImportNext ==
    \/ \E ids \in SUBSET {r.id : r \in ToSet(collectShareRequestOptions(current))} :
          ids # {} /\ Share(ids)
    \/ \E doc \in Documents : Receive(doc)
    \/ \E mode \in Dialogs : ImportIntoCurrent(mode)
    \/ ImportAsNew

ImportSpec == ImportInit /\ [][ImportNext]_importVars

-----------------------------------------------------------------------------
IdList(ws) == [i \in DOMAIN ws.requests |-> ws.requests[i].id]
ProjectIdLists(ws) ==
    [i \in DOMAIN ws.projects |->
        [j \in DOMAIN ws.projects[i].requests |-> ws.projects[i].requests[j].id]]
Addresses(rs) == {r.url : r \in rs} \ {NoUrl}
RequestsIn(ws) == ToSet(collectShareRequestOptions(ws))

\* The requests of the workspace (0) and of its projects; an id is that of one of them.
RequestsAt(ws, i) == IF i = 0 THEN ws.requests ELSE ws.projects[i].requests
EachIdOnce(ws) ==
    \A i, j \in 0 .. Len(ws.projects) :
        \A k \in DOMAIN RequestsAt(ws, i), m \in DOMAIN RequestsAt(ws, j) :
            RequestsAt(ws, i)[k].id = RequestsAt(ws, j)[m].id => i = j /\ k = m

\* An import moves, renames and drops no request of the workspace: each keeps
\* its id, and what is new comes after it.
ImportKeepsIds ==
    [][/\ IsPrefix(IdList(current), IdList(current'))
       /\ IsPrefix(ProjectIdLists(current), ProjectIdLists(current'))]_importVars

\* What an import adds has an address that no request had: importing a
\* document again adds only its requests without an address.
ImportAddsNew ==
    [][LET old == {r.id : r \in RequestsIn(current)}
           added == {r \in RequestsIn(current') : r.id \notin old}
       IN  Addresses(added) \cap Addresses(RequestsIn(current)) = {}]_importVars

\* However often documents are imported, no id is given twice and no two
\* projects of the workspace have the same name.
ImportedApart ==
    /\ EachIdOnce(current)
    /\ \A i, j \in DOMAIN current.projects : current.projects[i].name = current.projects[j].name => i = j

\* What is shared and imported again is the same: the projects by their names,
\* the addresses in their order, and no project that has nothing in it.
SharedComesBack ==
    \A n \in ToSet(another) :
        LET urls(rs) == [i \in DOMAIN rs |-> rs[i].url]
            shape(ws) == <<urls(ws.requests), [i \in DOMAIN ws.projects |->
                             <<ws.projects[i].name, urls(ws.projects[i].requests)>>]>>
        IN  /\ shape(n.is) = shape(n.of)
            /\ n.is.environment \in ToSet(n.is.environments)
            /\ EachIdOnce(n.is)
            /\ n.of \notin Documents => \A p \in ToSet(n.of.projects) : p.requests # <<>>

\* An import changes what it names and nothing else, and what it brings has ids of its own.
ImportSound == ImportKeepsIds /\ ImportAddsNew /\ []ImportedApart /\ []SharedComesBack
=============================================================================
