-------------------------- MODULE WorkspaceDocuments --------------------------
(***************************************************************************)
(* Approved roots and ingested documents (yoma/app.py 1463-1629,           *)
(* document_index.py, retrieval.py, authorized_document at app.py 727).    *)
(* SQLite gives a new root the id after the largest one in the table, so   *)
(* the id of a removed root is used again.  A removal and an ingestion     *)
(* read the root, and act on its id in a later transaction; the text is    *)
(* extracted in between.                                                   *)
(***************************************************************************)
EXTENDS Integers, FiniteSetsExt

CONSTANTS
  Users, Paths, Files,
  In,          \* In[f]: the directories of Paths the file f is under
  Workers,     \* threads that serve requests
  MaxVersion,  \* bound: times a file is changed
  MaxAdds,     \* bound: roots added
  NoRow        \* fetchone() returned None, or no such row

ASSUME DocumentAssumption ==
  /\ In \in [Files -> SUBSET Paths]
  /\ Users # {} /\ Files # {}
  /\ MaxVersion \in Nat /\ MaxAdds \in Nat \ {0}

VARIABLES
  dirs,    \* directories that exist
  file,    \* version of each file
  roots,   \* workspace_roots by id; "since" orders created_at
  adds,    \* roots added so far
  docs,    \* documents by document_id
  index,   \* document_index and document_fts by document_id
  serving, request,
  solo     \* history: per document, the version its last ingestion alone must have stored

docVars == <<dirs, file, roots, adds, docs, index, serving, request, solo>>

Ids == 1 .. MaxAdds
Root == [user : Users, path : Paths, since : Nat]
\* document_id_for(): the user, the id of the root and the path, hashed.
Keys == [user : Users, root : Ids, file : Files]
Doc == [status : {"extracted", "failed"}, text : Nat]

\* None of fetchone() is no row.
ASSUME NoRowAssumption == NoRow \notin Root /\ NoRow \notin Doc /\ NoRow \notin Nat

\* "row" is the root found last; "hits" is what a search or retrieval has still to check, "seen"
\* the roots a retrieval found with them, "passed" what will be served.
DocRequest == [kind : {"ingest", "remove", "search", "retrieve"},
          user : Users, root : Ids, file : Files,
          row : Root \cup {NoRow}, text : Nat \cup {NoRow}, alone : BOOLEAN, start : Nat,
          seen : [Ids -> Root \cup {NoRow}], hits : SUBSET Keys, passed : SUBSET Keys]

NoRoots == [i \in Ids |-> NoRow]

DocIdle(u, i, f) == [kind |-> "search", user |-> u, root |-> i, file |-> f, row |-> NoRow,
                  text |-> 0, alone |-> TRUE, start |-> 0,
                  seen |-> NoRoots, hits |-> {}, passed |-> {}]

NoRequest == CHOOSE l \in {DocIdle(u, i, f) : u \in Users, i \in Ids, f \in Files} : TRUE

DocInit ==
  /\ dirs = Paths
  /\ file = [f \in Files |-> 0]
  /\ roots = NoRoots /\ adds = 0
  /\ docs = [k \in Keys |-> NoRow] /\ index = [k \in Keys |-> NoRow]
  /\ serving = [w \in Workers |-> "new"]
  /\ request = [w \in Workers |-> NoRequest]
  /\ solo = [k \in Keys |-> 0]

docStore == <<dirs, file, roots, adds, docs, index>>

DocGoto(w, p) == serving' = [serving EXCEPT ![w] = p]
\* A worker goes on with one request, or answers it and takes another.
DocGoes(w, l, p) == request' = [request EXCEPT ![w] = l] /\ DocGoto(w, p)
DocEnds(w) == DocGoes(w, NoRequest, "new")
KeyOf(w) == [user |-> request[w].user, root |-> request[w].root, file |-> request[w].file]

-----------------------------------------------------------------------------
(* The file system.                                                          *)

ChangeFile(f) ==
  /\ file[f] < MaxVersion
  /\ file' = [file EXCEPT ![f] = @ + 1]
  /\ UNCHANGED <<dirs, roots, adds, docs, index, serving, request, solo>>

RemoveDirectory(p) ==
  /\ p \in dirs
  /\ dirs' = dirs \ {p}
  /\ UNCHANGED <<file, roots, adds, docs, index, serving, request, solo>>

-----------------------------------------------------------------------------
(* Roots.                                                                    *)

PresentRoots == {i \in Ids : roots[i] # NoRow}
NextRootId == IF PresentRoots = {} THEN 1 ELSE Max(PresentRoots) + 1
Duplicate(u, p) == \E i \in PresentRoots : roots[i].user = u /\ roots[i].path = p

AddRoot(u, p) ==
  /\ p \in dirs /\ ~ Duplicate(u, p) /\ adds < MaxAdds
  /\ adds' = adds + 1
  /\ roots' = [roots EXCEPT ![NextRootId] = [user |-> u, path |-> p, since |-> adds']]
  /\ UNCHANGED <<dirs, file, docs, index, serving, request, solo>>

OwnedRow(u, i) == IF roots[i] # NoRow /\ roots[i].user = u THEN roots[i] ELSE NoRow

\* A request that is refused here, or below, changes nothing and is left out.
RemoveSelect(w, u, i) ==
  /\ serving[w] = "new" /\ OwnedRow(u, i) # NoRow
  /\ DocGoes(w, [DocIdle(u, i, request[w].file) EXCEPT !.kind = "remove", !.row = OwnedRow(u, i)],
             "remove")
  /\ UNCHANGED <<docStore, solo>>

Referenced(i) == \E k \in Keys : k.root = i /\ docs[k] # NoRow

DeleteUnchecked(i) == roots' = [roots EXCEPT ![i] = NoRow] /\ UNCHANGED <<docs, index>>

\* DELETE FROM workspace_roots WHERE id = ?: the foreign key of a document refuses it.
DeleteRoot(i) ==
  /\ roots' = IF Referenced(i) THEN roots ELSE [roots EXCEPT ![i] = NoRow]
  /\ UNCHANGED <<docs, index>>

RemoveDelete(w) ==
  /\ serving[w] = "remove"
  /\ DeleteRoot(request[w].root)
  /\ DocEnds(w)
  /\ UNCHANGED <<dirs, file, adds, solo>>

-----------------------------------------------------------------------------
(* Ingestion.                                                                *)

Ingesting(k) ==
  {w \in Workers :
     serving[w] \in {"extract", "store"} /\ request[w].kind = "ingest" /\ KeyOf(w) = k}

\* validate_document(): the file is under the root (its type and size are not modelled).
ValidDocument(row, f) == row.path \in In[f]

\* The row of the root, then validate_document() on the path under it.
IngestSelect(w, u, i, f) ==
  /\ serving[w] = "new"
  /\ LET row == OwnedRow(u, i)
         others == Ingesting([user |-> u, root |-> i, file |-> f]) IN
     /\ row # NoRow /\ ValidDocument(row, f)
     /\ request' = [v \in Workers |->
          IF v = w THEN [DocIdle(u, i, f) EXCEPT !.kind = "ingest", !.row = row, !.start = file[f],
                                              !.alone = others = {}]
          ELSE IF v \in others THEN [request[v] EXCEPT !.alone = FALSE] ELSE request[v]]
  /\ DocGoto(w, "extract")
  /\ UNCHANGED <<docStore, solo>>

Extracted(w) == file[request[w].file]

\* extract_document(): no text, when the file is malformed, too large or inaccessible.
Extract(w) ==
  /\ serving[w] = "extract"
  /\ \E text \in {Extracted(w), NoRow} : request' = [request EXCEPT ![w].text = text]
  /\ DocGoto(w, "store")
  /\ UNCHANGED <<docStore, solo>>

FirstRow(k, d) == IF docs[k] = NoRow THEN d ELSE docs[k]
UpsertRow(k, d) == d

IndexRow(k, d) == IF d.status = "extracted" THEN d.text ELSE NoRow

\* upsert_document() and record_failed_document(): one transaction, refused by the
\* foreign key when the id of the root is gone.
Store(w) ==
  /\ serving[w] = "store"
  /\ LET k == KeyOf(w)
         v == request[w].text
         bad == v = NoRow
         d == [status |-> IF bad THEN "failed" ELSE "extracted", text |-> IF bad THEN 0 ELSE v] IN
     IF roots[k.root] = NoRow
     THEN UNCHANGED <<docs, index, solo>>
     ELSE /\ docs' = [docs EXCEPT ![k] = UpsertRow(k, d)]
          /\ index' = [index EXCEPT ![k] = IndexRow(k, d)]
          /\ solo' = [solo EXCEPT ![k] = IF request[w].alone /\ ~ bad THEN request[w].start ELSE 0]
  /\ DocEnds(w)
  /\ UNCHANGED <<dirs, file, roots, adds>>

-----------------------------------------------------------------------------
(* Search, retrieval and reading.  No transaction spans two of their steps.  *)

Joined(u, k) == docs[k] # NoRow /\ roots[k.root] # NoRow /\ k.user = u /\ roots[k.root].user = u

\* search_documents(): one SELECT over the index, the documents and the roots.
SearchSelect(w, u, kind) ==
  /\ serving[w] = "new"
  /\ DocGoes(w, [DocIdle(u, request[w].root, request[w].file) EXCEPT
                   !.kind = kind, !.seen = IF kind = "retrieve" THEN roots ELSE NoRoots,
                   !.hits = {k \in Keys : Joined(u, k) /\ index[k] # NoRow}], "next")
  /\ UNCHANGED <<docStore, solo>>

\* The next hit: a search looks it up again, a retrieval goes on with the row it has.
LookUp(w) ==
  /\ serving[w] = "next"
  /\ \E k \in request[w].hits :
       LET again == request[w].kind = "search" IN
       DocGoes(w, [request[w] EXCEPT !.root = k.root, !.file = k.file, !.hits = @ \ {k},
                                     !.row = (IF again THEN roots ELSE request[w].seen)[k.root]],
               IF again /\ ~ Joined(request[w].user, k) THEN "next" ELSE "check")
  /\ UNCHANGED <<docStore, solo>>

\* GET /documents/{id}, and /documents/{id}/text for an extracted one: a search with its only
\* hit looked up
ReadSelect(w, u, k) ==
  /\ serving[w] = "new" /\ Joined(u, k)
  /\ DocGoes(w, [DocIdle(u, k.root, k.file) EXCEPT !.row = roots[k.root]], "check")
  /\ UNCHANGED <<docStore, solo>>

\* validate_child(path, validate_root(root)): the root still exists and holds the file.
Contained(root, f) == root.path \in In[f] \cap dirs

CheckFile(w) ==
  /\ serving[w] = "check"
  /\ LET passes == Contained(request[w].row, request[w].file) IN
     DocGoes(w, [request[w] EXCEPT !.passed = IF passes THEN @ \cup {KeyOf(w)} ELSE @,
                                   !.row = NoRow], "next")
  /\ UNCHANGED <<docStore, solo>>

\* What has passed is served, with the text found first.
Serve(w) ==
  /\ serving[w] = "next" /\ request[w].hits = {}
  /\ DocEnds(w)
  /\ UNCHANGED <<docStore, solo>>

DocNext ==
  \/ \E f \in Files : ChangeFile(f)
  \/ \E p \in Paths : RemoveDirectory(p)
  \/ \E u \in Users, p \in Paths : AddRoot(u, p)
  \/ \E w \in Workers, u \in Users, i \in Ids : RemoveSelect(w, u, i)
  \/ \E w \in Workers, u \in Users, i \in Ids, f \in Files : IngestSelect(w, u, i, f)
  \/ \E w \in Workers, u \in Users, kind \in {"search", "retrieve"} : SearchSelect(w, u, kind)
  \/ \E w \in Workers, u \in Users, k \in Keys : ReadSelect(w, u, k)
  \/ \E w \in Workers :
       RemoveDelete(w) \/ Extract(w) \/ Store(w) \/ LookUp(w) \/ CheckFile(w) \/ Serve(w)

DocSpec == DocInit /\ [][DocNext]_docVars

-----------------------------------------------------------------------------

DocTypeOK ==
  /\ dirs \subseteq Paths /\ file \in [Files -> 0 .. MaxVersion]
  /\ roots \in [Ids -> Root \cup {NoRow}] /\ adds \in 0 .. MaxAdds
  /\ docs \in [Keys -> Doc \cup {NoRow}]
  /\ index \in [Keys -> (0 .. MaxVersion) \cup {NoRow}]
  /\ request \in [Workers -> DocRequest]
  /\ solo \in [Keys -> 0 .. MaxVersion]

\* What is searched is what is stored: a document is in the index with its own
\* text exactly when its extraction succeeded.
IndexAgrees ==
  \A k \in Keys :
    index[k] = IF docs[k] # NoRow /\ docs[k].status = "extracted"
               THEN docs[k].text ELSE NoRow

\* No document is left without a root, whichever of an ingestion and a removal
\* is served first.
DocumentsHaveRoots == \A k \in Keys : docs[k] # NoRow => roots[k.root] # NoRow

\* A root of the owner of the document, with the file under it.
Approved(k) ==
  \E i \in Ids : /\ roots[i] # NoRow /\ roots[i].user = k.user
                 /\ roots[i].path \in In[k.file]

\* What a search, a retrieval or a read serves is under a root its owner has approved at the
\* moment of the answer, though it was looked up and checked before, each hit at its own time:
\* also when a root was meanwhile removed and its id given to another directory or user.
ServedIsApproved ==
  [\A w \in Workers : serving[w] = "next" /\ serving'[w] = "new" =>
     \A k \in request[w].passed : Approved(k)]_docVars

\* A removal, whose DELETE names the id only, takes away a root of another user only
\* if that root was given the id after the request had looked it up.
RemovesWhatItSaw ==
  [\A i \in Ids : roots[i] # NoRow /\ roots'[i] = NoRow =>
     \E w \in Workers : /\ serving[w] = "remove" /\ request[w].root = i
                        /\ roots[i].user = request[w].user
                           \/ roots[i].since > request[w].row.since]_docVars

\* An ingestion that no other of the same file overlapped leaves a text at least as
\* new as the file was when it was asked for.
AloneIsFresh ==
  \A k \in Keys : docs[k] # NoRow /\ docs[k].status = "extracted" => docs[k].text >= solo[k]
=============================================================================
