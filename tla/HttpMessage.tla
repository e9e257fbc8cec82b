------------------------------ MODULE HttpMessage ------------------------------
(***************************************************************************)
(* What the HTTP console makes of a request before it is sent              *)
(* (HttpConsolePanel.tsx): variables are replaced, of several scopes the   *)
(* nearest one's; the query, the headers, the body or the parts of a form  *)
(* are built from the rows that are in use; a Content-Type is added when   *)
(* the body has one and no row gives it.                                   *)
(*                                                                         *)
(* A text is blank, one of a few words or Ref, a reference to the one      *)
(* variable there is: words stand for texts without a reference, so that a *)
(* variable's value never refers to a variable itself.  ContentType is the *)
(* word that names that header.                                            *)
(***************************************************************************)
EXTENDS Naturals, Sequences, SequencesExt, Lists

CONSTANTS Scopes,       \* how many scopes may define the variable (4 in the code)
          MaxGiven      \* rows of a request

ASSUME MessageAssumption == Scopes \in Nat \ {0} /\ MaxGiven \in Nat

Empty == "blank"
Word == "word"
ContentType == "content-type"
Ref == "{{variable}}"

\* A row of headers, of the query or of a form.
Row(enabled, key, value, kind) == [enabled |-> enabled, key |-> key, value |-> value, kind |-> kind]
RowsOf(keys, kinds) == {Row(e, k, v, t) : e \in BOOLEAN, k \in keys, v \in {Word, Ref}, t \in kinds}
Given(keys, kinds, most) == BoundedSeq(RowsOf(keys, kinds), most)

Auths == {[type |-> t, in |-> l, name |-> n, secret |-> s] :
             t \in {"none", "bearer", "basic", "api-key"}, l \in {"header", "query"},
             n \in {Empty, ContentType, Ref}, s \in {Empty, Ref}}

VARIABLES
    draft,      \* the request
    scoped,     \* scoped[i]: what scope i says of the variable, from the workspace to the request
    payload     \* what is sent, <<>> before

messageVars == <<draft, scoped, payload>>

\* Requests of three kinds: what the other kinds use is left blank.
Drafts(modes, headers, params, forms, bodies) ==
    [method : {"GET", "POST"}, mode : modes, params : params, form : forms, body : bodies,
     headers : headers, url : {Word},
     auth : {a \in Auths : (a.type # "api-key" => a.in = "header" /\ a.name = Empty)
                           /\ (a.type = "none" => a.secret = Empty)}]

MessageInit ==
    /\ \E most \in 0 .. MaxGiven :
         LET headers == Given({ContentType, Ref}, {"text"}, most)
             rest    == MaxGiven - most
         IN  \/ draft \in Drafts({"none", "json"}, headers, {<<>>}, {<<>>}, {Word, Ref})
             \/ draft \in Drafts({"none"}, headers, Given({Word, Ref}, {"text"}, rest), {<<>>}, {Word})
             \/ draft \in Drafts({"form"}, headers, {<<>>}, Given({Word, Ref}, {"text", "file"}, rest), {Word})
    /\ scoped \in [1 .. Scopes -> {<<>>, <<[enabled |-> FALSE, value |-> Word]>>,
                                   <<[enabled |-> TRUE, value |-> Empty]>>,
                                   <<[enabled |-> TRUE, value |-> ContentType]>>}]
    /\ payload = <<>>

-----------------------------------------------------------------------------
\* variableMapByScope: the rows of the scopes in their order, a later one
\* replacing an earlier one; Ref when no row in use defines the variable.
Defined == {i \in DOMAIN scoped : scoped[i] # <<>> /\ scoped[i][1].enabled}
Variable == IF Defined = {} THEN Ref
            ELSE scoped[CHOOSE i \in Defined : \A j \in Defined : j <= i][1].value

\* resolveVariables: a reference without a definition stays.
Resolve(text) == IF text = Ref THEN Variable ELSE text
ResolveRow(row) == [row EXCEPT !.key = Resolve(@), !.value = Resolve(@)]

\* missingVariables
Missing(text) == text = Ref /\ Variable = Ref

\* enabledRows
Enabled(s) == Kept(s, {i \in DOMAIN s : s[i].enabled /\ s[i].key # Empty})
ResolveAll(s) == [i \in DOMAIN s |-> ResolveRow(s[i])]

\* hasHeader
HasHeader(s, key) == \E r \in ToSet(Enabled(s)) : r.key = key

requestUsesMultipart(d) == d.mode = "form" /\ \E r \in ToSet(Enabled(d.form)) : r.kind = "file"

-----------------------------------------------------------------------------
(* Faulty variants of what follows, for the properties to tell apart.      *)

\* The Content-Type is looked for in the rows of the user only.
HeadersBeforeAuth(d, added, auth) ==
    LET own == ResolveAll(Enabled(d.headers))
    IN  own \o auth \o (IF added # Empty /\ ~HasHeader(own, ContentType)
                        THEN <<Row(TRUE, ContentType, added, "text")>> ELSE <<>>)

-----------------------------------------------------------------------------
\* missingRequestVariables looks at every row, in use or not, at every field of
\* the authentication, and of a file only at its key.
PartTexts(r) == IF r.kind = "file" THEN {r.key} ELSE {r.key, r.value}

TextsOf(d) ==
    {d.url, d.body, d.auth.name, d.auth.secret}
    \cup (UNION {{r.key, r.value} : r \in ToSet(d.params) \cup ToSet(d.headers)})
    \cup (UNION {PartTexts(r) : r \in ToSet(d.form)})

missingRequestVariables(d) == {t \in TextsOf(d) : Missing(t)}

\* authHeaderRows
authHeaderRows(a) ==
    CASE a.type = "bearer" /\ a.secret # Empty -> <<Row(TRUE, "authorization", Resolve(a.secret), "text")>>
      [] a.type = "basic" /\ a.secret # Empty -> <<Row(TRUE, "authorization", Resolve(a.secret), "text")>>
      [] a.type = "api-key" /\ a.in = "header" /\ a.name # Empty ->
            <<Row(TRUE, Resolve(a.name), Resolve(a.secret), "text")>>
      [] OTHER -> <<>>

\* bodyContentType
bodyContentType(d) ==
    IF d.method = "GET" \/ d.mode = "none" THEN Empty
    ELSE IF d.mode \in {"json", "text"} THEN d.mode
    ELSE IF requestUsesMultipart(d) THEN Empty ELSE "urlencoded"

\* The rows of the user and of the authentication, and the Content-Type when
\* none of them gives it.
HeadersWith(d, added, auth) ==
    LET given == ResolveAll(Enabled(d.headers)) \o auth
    IN  given \o (IF added # Empty /\ ~HasHeader(given, ContentType)
                  THEN <<Row(TRUE, ContentType, added, "text")>> ELSE <<>>)

\* requestHeaderRows: a form of parts says its type itself.
requestHeaderRows(d) ==
    LET rows == HeadersWith(d, bodyContentType(d), authHeaderRows(d.auth))
    IN  Kept(rows, {i \in DOMAIN rows : ~(requestUsesMultipart(d) /\ rows[i].key = ContentType)})

\* requestBodyFor
requestBodyFor(d) ==
    LET rows == Enabled(d.form) IN
    IF d.method = "GET" \/ d.mode = "none" \/ requestUsesMultipart(d) THEN <<>>
    ELSE IF d.mode = "form" THEN ResolveAll(Kept(rows, {i \in DOMAIN rows : rows[i].kind = "text"}))
    ELSE IF d.body = Empty THEN <<>> ELSE <<Row(TRUE, Word, Resolve(d.body), "text")>>

\* requestMultipartFor, when every file is found: a row whose name resolves to
\* nothing is left out, and without rows there are no parts.
PartOf(r) == IF r.kind = "file" THEN [r EXCEPT !.key = Resolve(@), !.value = Word] ELSE ResolveRow(r)

requestMultipartFor(d) ==
    LET rows  == Enabled(d.form)
        parts == [i \in DOMAIN rows |-> PartOf(rows[i])]
    IN  IF d.method = "GET" \/ ~requestUsesMultipart(d) THEN <<>>
        ELSE Kept(parts, {i \in DOMAIN parts : parts[i].key # Empty})

\* requestUrlFor and appendEnabledQueryParams
requestQueryFor(d) ==
    LET key == IF d.auth.type = "api-key" /\ d.auth.in = "query" /\ d.auth.name # Empty
               THEN <<Row(TRUE, Resolve(d.auth.name), Resolve(d.auth.secret), "text")>> ELSE <<>>
    IN  IF d.url = Empty THEN <<>> ELSE Enabled(ResolveAll(d.params) \o key)

\* buildHttpPayload
buildHttpPayload(d) ==
    LET parts == requestMultipartFor(d)
    IN  [body |-> IF parts # <<>> THEN <<>> ELSE requestBodyFor(d),
         headers |-> requestHeaderRows(d), method |-> d.method, parts |-> parts,
         url |-> Resolve(d.url), query |-> requestQueryFor(d)]

\* sendPreviewRequest up to the call: not while a variable is undefined.
Build ==
    /\ payload = <<>>
    /\ missingRequestVariables(draft) = {}
    /\ payload' = <<buildHttpPayload(draft)>>
    /\ UNCHANGED <<draft, scoped>>

MessageNext == Build
MessageSpec == MessageInit /\ [][MessageNext]_messageVars

-----------------------------------------------------------------------------
ContentTypes(p) == {i \in DOMAIN p.headers : p.headers[i].key = ContentType}

\* The type of what is sent is said once: a body that is no form of parts has
\* a Content-Type, parts have none, and there are not two unless the user wrote
\* two in the headers, or one there and one as the key of the authentication.
TypeSaidOnce ==
    LET own == Enabled(draft.headers)
        Written == {i \in DOMAIN own : Resolve(own[i].key) = ContentType}
    IN \A p \in ToSet(payload) :
        /\ p.body # <<>> => ContentTypes(p) # {}
        /\ p.parts # <<>> => ContentTypes(p) = {} /\ p.body = <<>>
        /\ \A i, j \in ContentTypes(p) : i < j =>
              \/ \E m, n \in Written : m < n
              \/ Written # {} /\ draft.auth.type = "api-key" /\ Resolve(draft.auth.name) = ContentType

\* No reference to a variable is sent, wherever in the request it stands.
SentIsResolved ==
    \A p \in ToSet(payload) :
        /\ p.url # Ref
        /\ \A r \in ToSet(p.headers) \cup ToSet(p.body) \cup ToSet(p.parts) \cup ToSet(p.query) :
              r.key # Ref /\ r.value # Ref

\* What is sent says its type once and refers to nothing.
MessageSound == TypeSaidOnce /\ SentIsResolved
=============================================================================
