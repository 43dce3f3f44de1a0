----------------------------- MODULE Changesets -----------------------------
(***************************************************************************)
(* Palette's records and their changesets: RFCs and ADRs that depend on    *)
(* and supersede one another, each with pending edits of the maintained    *)
(* documents, which a promotion lands (src/shared/mcp-servers/palette/src: *)
(* ops/records.rs, records.rs, changeset.rs, lint/).  Write calls run one  *)
(* at a time (PaletteCommit), so an action here is a whole call: what it   *)
(* writes, and the lint errors in the files it touches that refuse it.     *)
(***************************************************************************)
EXTENDS Naturals, FiniteSets, SequencesExt, Lists

CONSTANTS
    Documents,  \* the maintained documents
    Inputs,     \* what a caller may ask for: a kind, a document, a target, and
                \* the title its body begins with
    NoDocument, \* the document does not exist
    Fails,      \* the edit does not resolve
    Projects,   \* bounds: records and documents at the start, and how many
                \* calls write a record or an edit at most
    Repeats     \* callers may name one edit twice

ASSUME ChangesetsAssumption == Repeats \in BOOLEAN /\ NoDocument # Fails

\* A record is named by its kind and number; RFCs sort before ADRs.
RFC == 1
ADR == 2
Sooner(a, b) == a[1] < b[1] \/ (a[1] = b[1] /\ a[2] < b[2])

VARIABLES
    recs,      \* record -> status, implementation, Depends and whole Supersedes
    sets,      \* record -> the edits of its changeset, when it has one
    docs,      \* document -> its headings in order, or NoDocument
    creates, updates,  \* how many records are still to be created and updated
    texts,     \* how many edits were written; each is known by its number
    maxTexts,
    landed,    \* the numbers of the edits promoted, in that order
    dropped    \* those a later call replaced or removed

recordVars == <<recs, sets, docs, creates, updates, texts, maxTexts, landed, dropped>>

Checked == {"Draft", "Proposed", "Accepted"}
EditsOf(S, id) == IF id \in DOMAIN S THEN S[id] ELSE <<>>

\* The function f with v for x (TLC's @@ is unknown to the proof system).
Holding(f, x, v) == [y \in DOMAIN f \cup {x} |-> IF y = x THEN v ELSE f[y]]

-----------------------------------------------------------------------------
(***************************************************************************)
(* Relations, as functions of the records R.  All records are dated alike: *)
(* a link to the other kind is never one to a later record.                *)
(***************************************************************************)
Closure(R, id) ==
  LET reach[n \in Nat] ==
        IF n = 0 THEN R[id].depends
        ELSE LET near == reach[n - 1] IN near \cup UNION {R[x].depends : x \in near}
  IN  reach[Cardinality(DOMAIN R)] \ {id}

Links(R, id) == R[id].depends \cup R[id].whole

Reachable(R, id) ==
  LET reach[n \in Nat] ==
        IF n = 0 THEN Links(R, id)
        ELSE LET near == reach[n - 1] IN near \cup UNION {Links(R, x) : x \in near}
  IN  reach[Cardinality(DOMAIN R)]

WhollySupersededBy(R, id) == {n \in DOMAIN R : id \in R[n].whole}

NamedRight(R) ==
  \A r \in DOMAIN R : R[r].status = "Superseded" <=> WhollySupersededBy(R, r) # {}

RecordsAmong(ids) ==
  [status : {"Draft", "Proposed", "Accepted", "Rejected", "Withdrawn", "Superseded"},
   impl : {"open", "partial", "complete"}, depends : SUBSET ids, whole : SUBSET ids]

\* A project as palette keeps it: lint has nothing to say of what its records supersede.
ASSUME ProjectsAssumption ==
  \A p \in Projects :
    /\ DOMAIN p.recs \subseteq {RFC, ADR} \X Nat /\ IsFiniteSet(DOMAIN p.recs)
    /\ p.recs \in [DOMAIN p.recs -> RecordsAmong(DOMAIN p.recs)]
    /\ NamedRight(p.recs)

\* The number of an edit is the model's; a caller does not give one.
ASSUME InputsAssumption == \A edit \in Inputs : "text" \notin DOMAIN edit

\* Every record after those of its closure, the sooner first.
DependencyOrder(R, ids) ==
  LET order[left \in SUBSET ids] ==
        IF left = {} THEN <<>>
        ELSE LET free == {id \in left : Closure(R, id) \cap left = {}}
                 from == IF free = {} THEN left ELSE free
                 next == CHOOSE id \in from : \A o \in from \ {id} : Sooner(id, o)
             IN  <<next>> \o order[left \ {next}]
  IN  order[ids]

-----------------------------------------------------------------------------
(***************************************************************************)
(* Documents: a sequence of headings with their level and text.  A section *)
(* ends before the next heading of its level or above.                     *)
(***************************************************************************)
Heading(level, title, text) == [level |-> level, title |-> title, text |-> text]

SectionEnd(doc, i) ==
  CHOOSE j \in i + 1 .. Len(doc) + 1 :
    /\ j = Len(doc) + 1 \/ doc[j].level <= doc[i].level
    /\ \A k \in i + 1 .. j - 1 : doc[k].level > doc[i].level

Parent(doc, i) ==
  LET above == {j \in 1 .. i - 1 : doc[j].level < doc[i].level /\ SectionEnd(doc, j) > i}
  IN  IF above = {} THEN "none" ELSE doc[CHOOSE j \in above : \A k \in above : k <= j].title

\* A target is a title, or a title with its parent's before it.
Named(doc, at) ==
  {i \in DOMAIN doc : /\ doc[i].title = at[Len(at)]
                      /\ Len(at) = 2 => Parent(doc, i) = at[1]}

ApplyAt(doc, e, i) ==
  LET l == doc[i].level
      to == SectionEnd(doc, i)
      before == SubSeq(doc, 1, i - 1)
      own == SubSeq(doc, i, to - 1)
      after == SubSeq(doc, to, Len(doc))
  IN  CASE e.kind = "delete"       -> before \o after
        [] e.kind = "replace"      -> before \o <<Heading(l, e.title, e.text)>> \o after
        [] e.kind = "replace_body" -> before \o <<Heading(l, e.title, e.text)>> \o Tail(own) \o after
        [] e.kind = "insert_after" -> before \o own \o <<Heading(l, e.title, e.text)>> \o after
        [] e.kind = "insert_into"  -> before \o own \o <<Heading(l + 1, e.title, e.text)>> \o after

\* The document after the edit, or Fails.
ApplyEdit(doc, e) ==
  IF e.kind = "create"
  THEN IF doc = NoDocument THEN <<Heading(2, e.title, e.text)>> ELSE Fails
  ELSE IF doc = NoDocument \/ Cardinality(Named(doc, e.at)) # 1 THEN Fails
  ELSE ApplyAt(doc, e, CHOOSE i \in Named(doc, e.at) : TRUE)

\* The edits one after the other; one that does not resolve is skipped.
Applied(D, es) ==
  FoldLeft(LAMBDA acc, e :
             LET now == ApplyEdit(acc.docs[e.doc], e)
             IN  IF now = Fails THEN [acc EXCEPT !.resolved = FALSE]
                 ELSE [acc EXCEPT !.docs[e.doc] = now],
           [docs |-> D, resolved |-> TRUE], es)

ApplyAll(D, S, order) ==
  FoldLeft(LAMBDA acc, id : Applied(acc, EditsOf(S, id)).docs, D, order)

\* The edits of id against the documents with its closure's edits.
Resolves(R, S, D, id) ==
  Applied(ApplyAll(D, S, DependencyOrder(R, Closure(R, id))), EditsOf(S, id)).resolved

\* Staging: the changesets of every Accepted record, in dependency order.
Staged(R, S, D) ==
  ApplyAll(D, S, DependencyOrder(R, {id \in DOMAIN S : R[id].status = "Accepted"}))

-----------------------------------------------------------------------------
(***************************************************************************)
(* Lint, of the records and changesets a call touches.                     *)
(***************************************************************************)
LinksToOlder(R, r) ==
  \A x \in Links(R, r) : x \in DOMAIN R /\ x # r /\ (x[1] = r[1] => x[2] < r[2])

\* A cycle is reported in the file of its first record.
HeadsCycle(R, r) ==
  LET cycle == {x \in Reachable(R, r) : r \in Reachable(R, x)}
  IN  cycle \ {r} # {} /\ \A x \in cycle \ {r} : Sooner(r, x)

RecordClean(R, S, r) ==
  /\ LinksToOlder(R, r)
  /\ ~HeadsCycle(R, r)
  /\ \A x \in R[r].whole : R[x].status = "Superseded"
  /\ R[r].status = "Superseded" => WhollySupersededBy(R, r) # {}
  /\ R[r].impl = "complete" => EditsOf(S, r) = <<>>

\* The same target string in one document; two new documents.
SameTarget(e, f) ==
  e.doc = f.doc /\ (IF e.kind = "create" THEN f.kind = "create"
                    ELSE f.kind # "create" /\ e.at = f.at)

Conflicting(R, S, a, b) ==
  /\ a # b
  /\ {R[a].status, R[b].status} \subseteq Checked
  /\ \E e \in Range(EditsOf(S, a)), f \in Range(EditsOf(S, b)) : SameTarget(e, f)
  /\ a \notin Closure(R, b) /\ b \notin Closure(R, a)

ChangesetClean(R, S, D, id) ==
  /\ R[id].status \in Checked => Resolves(R, S, D, id)
  /\ \A o \in DOMAIN S : ~Conflicting(R, S, id, o)

Clean(touchedRecs, touchedSets) ==
  /\ \A r \in touchedRecs : RecordClean(recs', sets', r)
  /\ \A id \in touchedSets \cap DOMAIN sets' : ChangesetClean(recs', sets', docs', id)

-----------------------------------------------------------------------------
(***************************************************************************)
(* mark_superseded of the records named as a whole: each is Accepted, or   *)
(* already Superseded.                                                     *)
(***************************************************************************)
CanSupersede(named) ==
  \A x \in named : x \in DOMAIN recs /\ recs[x].status \in {"Accepted", "Superseded"}

Marked(R, named) ==
  [r \in DOMAIN R |-> IF r \in named THEN [R[r] EXCEPT !.status = "Superseded"] ELSE R[r]]

Fresh(named) == {x \in named : recs[x].status = "Accepted"}

NextNumber(kind) == Max({0} \cup {r[2] : r \in {x \in DOMAIN recs : x[1] = kind}}) + 1

RecordCreate(kind, depends, whole) ==
  LET id == <<kind, NextNumber(kind)>>
      new == [status |-> "Draft", impl |-> "open", depends |-> depends, whole |-> whole]
  IN /\ creates > 0
     /\ creates' = creates - 1
     /\ CanSupersede(whole)
     /\ recs' = Holding(Marked(recs, whole), id, new)
     /\ UNCHANGED <<updates, sets, docs, texts, maxTexts, landed, dropped>>
     /\ Clean({id} \cup Fresh(whole), {})

StatusMoves(from) ==
  {from} \cup
  (CASE from = "Draft"    -> {"Proposed", "Rejected", "Withdrawn"}
     [] from = "Proposed" -> {"Accepted", "Rejected", "Withdrawn"}
     [] from = "Accepted" -> {"Rejected", "Withdrawn"}
     [] OTHER             -> {})

\* Mutant: a record may stop naming what it superseded.
RecordUpdate_Unnames(id, to, depends, whole) ==
  LET old == recs[id]
  IN /\ updates > 0
     /\ to \in StatusMoves(old.status)
     /\ CanSupersede(whole \ old.whole)
     /\ recs' = [Marked(recs, whole \ old.whole) EXCEPT ![id] =
                   [old EXCEPT !.status = to, !.depends = depends, !.whole = whole]]
     /\ updates' = updates - 1
     /\ UNCHANGED <<creates, sets, docs, texts, maxTexts, landed, dropped>>
     /\ Clean({id} \cup Fresh(whole \ old.whole), {})

(***************************************************************************)
(* record_update: a status move, a change of the relations (on a record    *)
(* that is no longer free, as a clarification), or both.  What a record    *)
(* supersedes as a whole it goes on superseding.                           *)
(***************************************************************************)
RecordUpdate(id, to, depends, whole) ==
  LET old == recs[id]
  IN /\ updates > 0
     /\ to \in StatusMoves(old.status)
     /\ old.whole \subseteq whole
     /\ CanSupersede(whole \ old.whole)
     /\ recs' = [Marked(recs, whole \ old.whole) EXCEPT ![id] =
                   [old EXCEPT !.status = to, !.depends = depends, !.whole = whole]]
     /\ recs' # recs
     /\ updates' = updates - 1
     /\ UNCHANGED <<creates, sets, docs, texts, maxTexts, landed, dropped>>
     /\ Clean({id} \cup Fresh(whole \ old.whole), {})

(***************************************************************************)
(* record_refresh: a given implementation is written as given, complete    *)
(* only when no edit remains; without one the changeset decides.           *)
(***************************************************************************)
RecordRefresh(id, given) ==
  LET old == recs[id]
      remain == EditsOf(sets, id) # <<>>
      named == WhollySupersededBy(recs, id) # {}
  IN /\ old.status \notin {"Draft", "Proposed"}
     /\ given = "complete" => ~remain
     /\ given = "none" /\ remain => old.impl = "partial"
     /\ recs' = [recs EXCEPT ![id].impl = IF given # "none" THEN given
                                          ELSE IF remain THEN "partial" ELSE "complete",
                             ![id].status = IF named THEN "Superseded" ELSE @]
     /\ recs' # recs
     /\ UNCHANGED <<creates, updates, sets, docs, texts, maxTexts, landed, dropped>>
     /\ Clean({id}, {})

-----------------------------------------------------------------------------
(***************************************************************************)
(* changeset_edit.  An edit is known by its document, kind and target; its *)
(* body is known by the number of the call that wrote it.                  *)
(***************************************************************************)
SameEdit(e, f) == e.doc = f.doc /\ e.kind = f.kind /\ e.at = f.at
Place(es, e) == {i \in DOMAIN es : SameEdit(es[i], e)}

Written(id, es, e, gone) ==
  /\ sets' = IF es = <<>> THEN Restrict(sets, DOMAIN sets \ {id}) ELSE Holding(sets, id, es)
  /\ texts' = texts + (IF e \in Range(es) THEN 1 ELSE 0)
  /\ dropped' = dropped \cup gone
  /\ UNCHANGED <<recs, docs, creates, updates, maxTexts, landed>>
  /\ Clean({}, {id})

ChangesetEdit(id, action, edit) ==
  LET es == EditsOf(sets, id)
      e == Holding(edit, "text", texts + 1)
      at == Place(es, e)
  IN /\ recs[id].status \in Checked
     /\ action # "remove" => texts < maxTexts
     /\ \/ action = "add" /\ at = {} /\ Written(id, Append(es, e), e, {})
        \/ /\ action = "replace"
           /\ \E i \in at : Written(id, [es EXCEPT ![i] = e], e, {es[i].text})
        \/ /\ action = "remove"
           /\ \E i \in at : Written(id, RemoveAt(es, i), e, {es[i].text})

-----------------------------------------------------------------------------
(***************************************************************************)
(* changeset_promote.                                                      *)
(***************************************************************************)
\* What a caller may name: some of the edits in some order, also one twice.
Selections(es) ==
  {s \in UNION {[1 .. n -> Range(es)] : n \in 1 .. Len(es)} : Repeats \/ IsInjective(s)}

\* Mutant: a dependency's edits of other sections do not matter.
Waits_SameTarget(id, sel) ==
  \E dep \in Closure(recs, id) :
    \E e \in Range(EditsOf(sets, dep)) : \E f \in Range(sel) : SameTarget(e, f)

\* A dependency, of any status, still has edits of a selected document.
Waits(id, sel) ==
  \E dep \in Closure(recs, id) :
    \E e \in Range(EditsOf(sets, dep)) : \E f \in Range(sel) : e.doc = f.doc

\* Mutant: an edit's document goes from the changeset with it.
Remaining_Documents(es, sel) ==
  KeptAt(es, {i \in DOMAIN es : \A f \in Range(sel) : f.doc # es[i].doc})

\* What stays in the changeset; the whole file goes when the count says so.
Remaining(es, sel) ==
  IF Len(sel) = Len(es) THEN <<>> ELSE KeptAt(es, {i \in DOMAIN es : es[i] \notin Range(sel)})

ChangesetPromote(id, sel) ==
  LET es == EditsOf(sets, id)
      now == Applied(docs, sel)
      left == Remaining(es, sel)
  IN /\ recs[id].status = "Accepted"
     /\ ~Waits(id, sel)
     /\ now.resolved
     /\ docs' = now.docs
     /\ sets' = IF left = <<>> THEN Restrict(sets, DOMAIN sets \ {id})
                ELSE [sets EXCEPT ![id] = left]
     /\ recs' = [recs EXCEPT ![id].impl = IF Len(sel) = Len(es) THEN "complete" ELSE "partial"]
     /\ landed' = landed \o [i \in DOMAIN sel |-> sel[i].text]
     /\ UNCHANGED <<creates, updates, texts, maxTexts, dropped>>
     /\ Clean({id}, {id})

-----------------------------------------------------------------------------
RecordInit ==
  /\ \E p \in Projects :
        /\ recs = p.recs /\ docs = p.docs
        /\ creates = p.creates /\ updates = p.updates /\ maxTexts = p.texts
  /\ sets = <<>>
  /\ texts = 0
  /\ landed = <<>>
  /\ dropped = {}

RecordNext ==
  \/ creates > 0 /\ \E kind \in {RFC, ADR} :
        \E depends \in SUBSET DOMAIN recs, whole \in SUBSET DOMAIN recs :
           RecordCreate(kind, depends, whole)
  \/ updates > 0 /\ \E id \in DOMAIN recs : \E to \in StatusMoves(recs[id].status) :
        \E depends \in SUBSET DOMAIN recs, whole \in SUBSET DOMAIN recs :
           RecordUpdate(id, to, depends, whole)
  \/ \E id \in DOMAIN recs :
        \/ \E given \in {"none", "open", "partial", "complete"} : RecordRefresh(id, given)
        \/ \E action \in {"add", "replace", "remove"}, edit \in Inputs :
              ChangesetEdit(id, action, edit)
        \/ \E sel \in Selections(EditsOf(sets, id)) : ChangesetPromote(id, sel)

RecordSpec == RecordInit /\ [][RecordNext]_recordVars

-----------------------------------------------------------------------------
(***************************************************************************)
(* docs/spec/palette-server.rst:119-120: a record is Superseded exactly    *)
(* when at least one whole entry names it, through every order of creating,*)
(* superseding, rejecting and clarifying records.                          *)
(***************************************************************************)
SupersededIsNamed == NamedRight(recs)

(***************************************************************************)
(* An edit that was written is pending, landed, or was replaced or removed *)
(* by a call that named it, and never two of these: promotions in any      *)
(* order and number lose no edit and land none twice.                      *)
(***************************************************************************)
Pending == UNION {{e.text : e \in Range(sets[id])} : id \in DOMAIN sets}

EditsAccountedFor ==
  /\ Pending \cup Range(landed) \cup dropped = 1 .. texts
  /\ Pending \cap Range(landed) = {}
  /\ (Pending \cup Range(landed)) \cap dropped = {}
  /\ IsInjective(landed)

(***************************************************************************)
(* docs/spec/palette-server.rst:181-182: staging is the documents with the *)
(* accepted edits applied in dependency order.  So the edits that come     *)
(* first in the changeset of an accepted record land as staging showed     *)
(* them, and staging stays as it was, when the other accepted records that *)
(* edit its documents depend on it or it on them.                          *)
(***************************************************************************)
Sharing(id) ==
  {o \in DOMAIN sets \ {id} :
     /\ recs[o].status = "Accepted"
     /\ \E e \in Range(sets[o]), f \in Range(sets[id]) : e.doc = f.doc}

LandsFirst(id) ==
  \E n \in DOMAIN sets[id] :
    landed' = landed \o [i \in 1 .. n |-> sets[id][i].text]

PromoteKeepsStaging ==
  [][\A id \in DOMAIN sets :
       (/\ LandsFirst(id)
        /\ \A o \in Sharing(id) : id \in Closure(recs, o) \/ o \in Closure(recs, id))
         => Staged(recs', sets', docs') = Staged(recs, sets, docs)]_recordVars
=============================================================================
