------------------------------- MODULE Layout -------------------------------
(***************************************************************************)
(* Where palette's documents live: `layout.rst` places thirteen families,  *)
(* every file is read as a member of the family that claims its path, a    *)
(* changeset names documents by spellings that are resolved against the    *)
(* placements, and `palette_layout_set` moves a family's files, rewrites  *)
(* the links to and from them and regenerates the mirrors.  A step is a    *)
(* whole tool call, a hand edit of `layout.rst`, or a checkout, which has  *)
(* no `_palette/` because that folder is not committed.                    *)
(*                                                                         *)
(* A path is the sequence of names below the project folder.               *)
(***************************************************************************)
EXTENDS Naturals, Sequences, SequencesExt, FiniteSets, TLC

CONSTANTS
  Folders,     \* names of folders; every other name is that of a file
  NotRst,      \* file names that do not end in `.rst`
  Folded,      \* names with capitals, and each in lower case
  PhaseFolders,\* the folders named `phase-<N>`
  Sites,       \* the projects a behaviour starts from
  MaxSteps     \* calls, edits of the layout and checkouts in a behaviour

VARIABLES
  site,      \* the project: its documents, links, calls to come
  lines,     \* the placement written for each family, or NoLayout
  tree,      \* the files: contents by path
  linkText,  \* the target written in each link
  targeted,  \* the spellings each changeset edits
  layoutSteps

layoutVars == <<site, lines, tree, linkText, targeted, layoutSteps>>

-----------------------------------------------------------------------------
SingleFile == {"backlog", "state", "principles", "glossary", "contributing"}
Order == <<"backlog", "phase", "deliverable", "state", "rfc", "adr", "changeset",
           "staging", "design", "spec", "principles", "glossary", "contributing">>
Families == Range(Order)
Logical == {"principles", "glossary", "contributing"}
Indexed == {"rfc", "adr", "changeset"}

Internal == <<>>
Absent == <<"absent">>
NoLayout == <<"no layout">>
Palette == <<"_palette">>
Rst(f) == f \o ".rst"

IsRst(name) == name \notin Folders \cup NotRst
Lower(name) == IF name \in DOMAIN Folded THEN Folded[name] ELSE name
NoCase(path) == [i \in DOMAIN path |-> Lower(path[i])]
Under(path, base) == IsPrefix(NoCase(base), NoCase(path))
Same(p, q) == NoCase(p) = NoCase(q)

Climb(path, name) ==
  CASE name = "." -> path
    [] name = ".." -> IF path \in {<<>>, Absent} THEN Absent ELSE Front(path)
    [] OTHER -> IF path = Absent THEN Absent ELSE Append(path, name)
\* A placement as a path, or Absent when it is not one.
NormalizePath(f, spelled) ==
  LET path == IF Range(spelled) \cap {".", ".."} = {} THEN spelled
              ELSE FoldLeft(Climb, <<>>, spelled)
  IN  IF path \notin {<<>>, Absent} /\ Head(path) # "_palette"
         /\ (f \in SingleFile <=> IsRst(Last(path)))
      THEN path ELSE Absent

-----------------------------------------------------------------------------
(***************************************************************************)
(* Reading the layout.  Of two families at one path the later line is not  *)
(* placed, except that staging yields; a phase and its deliverables share. *)
(* A staging folder around another family is not placed.  A family without *)
(* a placement is internal.                                                *)
(***************************************************************************)
Shares(f, g) == {f, g} = {"phase", "deliverable"}
Before(g, f) == \E i, j \in DOMAIN Order : i < j /\ Order[i] = g /\ Order[j] = f

Placed(path) == { f \in Families : path[f] \notin {Internal, Absent} }
Yields(path, f) ==
  \E g \in Placed(path) : /\ f # g /\ path[f] = path[g] /\ ~Shares(f, g)
                         /\ (f = "staging" \/ (g # "staging" /\ Before(g, f)))
Around(path, f) ==
  f = "staging" /\ \E g \in Placed(path) : Under(path[g], path[f]) /\ ~Same(path[g], path[f])
LostOf(path) ==
  { f \in Families : path[f] = Absent
                     \/ (f \in Placed(path) /\ (Yields(path, f) \/ Around(path, f))) }
Settled(path, lost) ==
  [staged |-> "staging" \notin lost, wrong |-> lost # {}, at |-> [f \in lost |-> Internal] @@ path]
NormalPaths(w) ==
  [f \in { g \in Families : w[g] \notin {Internal, Absent} } |-> NormalizePath(f, w[f])] @@ w
ParseLayout(w) ==
  LET path == NormalPaths(w) IN Settled(path, LostOf(path))

-----------------------------------------------------------------------------
\* The places of the families under placements l.
Base(l, f) == IF l[f] = Internal THEN Append(Palette, f) ELSE l[f]
FileOf(l, f) == IF l[f] = Internal THEN Append(Palette, Rst(f)) ELSE l[f]
PhaseRoot(l, f) == IF l[f] = Internal THEN Palette ELSE l[f]
RootOf(l, f) == IF f \in {"phase", "deliverable"} THEN PhaseRoot(l, f)
                ELSE IF f \in SingleFile THEN FileOf(l, f) ELSE Base(l, f)
IndexFile(l, f) == Append(Base(l, f), "index.rst")
DocumentRoot(l) == Front(Base(l, "staging"))

\* The family that claims a path; the first in the order of discovery.
Claims(l, f, p) ==
  /\ IsRst(Last(p))
  /\ CASE f = "staging" -> IsStrictPrefix(Base(l, f), p)
       [] f \in SingleFile -> p = FileOf(l, f)
       [] f = "phase" -> \E n \in PhaseFolders : p = PhaseRoot(l, f) \o <<n, "phase.rst">>
       [] f = "deliverable" ->
            \E n \in PhaseFolders : Front(p) = PhaseRoot(l, f) \o <<n, "deliverables">>
       [] OTHER -> Front(p) = Base(l, f)
Discovery == <<"staging", "backlog", "state", "principles", "glossary", "contributing",
               "phase", "deliverable", "rfc", "adr", "changeset", "design", "spec">>
RoleOf(l, p) ==
  LET claims == { i \in DOMAIN Discovery : Claims(l, Discovery[i], p) }
  IN  IF claims = {} THEN "none"
      ELSE Discovery[CHOOSE i \in claims : \A j \in claims : i <= j]

-----------------------------------------------------------------------------
(***************************************************************************)
(* Targets.  A spelling names a family's document wherever the family is,  *)
(* or another document by its path, which must be one that the families    *)
(* and the staging folder leave alone.                                     *)
(***************************************************************************)
TargetIs(f, path) == [fam |-> f, path |-> path]
Refused == TargetIs("none", <<>>)

RootRelative(l, p) == SubSeq(p, Len(DocumentRoot(l)) + 1, Len(p))
\* The same, for the mirrors of folders only.
ReservedFolder(m) == Len(m) >= 2 /\ Lower(m[1]) \in {"design", "spec"}
ReservedMirror(m) ==
  \/ Len(m) >= 2 /\ Lower(m[1]) \in {"design", "spec"}
  \/ Len(m) = 1 /\ Lower(m[1]) \in {Rst(f) : f \in Logical}
OutsideFamilies(l, p) ==
  /\ ~Under(p, Palette)
  /\ \A f \in Families \ SingleFile : l[f] # Internal => ~Under(p, l[f])
  /\ \A f \in SingleFile : l[f] # Internal => ~Same(p, l[f])

ResolveTarget(l, s) ==
  IF Len(s) = 2 /\ s[1] \in {"design", "spec"}
  THEN IF IsRst(s[2]) THEN TargetIs(s[1], s) ELSE Refused
  ELSE IF \E f \in Logical : s = <<Rst(f)>>
  THEN TargetIs(CHOOSE f \in Logical : s = <<Rst(f)>>, s)
  ELSE IF /\ IsRst(Last(s)) /\ Under(s, DocumentRoot(l))
          /\ OutsideFamilies(l, s) /\ ~ReservedMirror(RootRelative(l, s))
  THEN TargetIs("document", s) ELSE Refused

TargetFile(l, t) ==
  CASE t.fam \in SingleFile -> FileOf(l, t.fam)
    [] t.fam = "document" -> t.path
    [] OTHER -> Append(Base(l, t.fam), Last(t.path))
MirrorFile(l, t) ==
  Base(l, "staging") \o
    CASE t.fam \in SingleFile -> <<Rst(t.fam)>>
      [] t.fam = "document" -> RootRelative(l, t.path)
      [] OTHER -> <<t.fam, Last(t.path)>>

\* What the snapshot adds: another document exists, spelled as it is on disk, and is
\* no palette document.
OnDisk(l, fs, t) ==
  IF t.fam = "document"
     /\ \/ t.path \notin DOMAIN fs
        \/ \E p \in DOMAIN fs : Same(p, t.path) /\ RoleOf(l, p) # "none"
  THEN Refused ELSE t
SnapTarget(l, fs, s) == OnDisk(l, fs, ResolveTarget(l, s))

-----------------------------------------------------------------------------
(***************************************************************************)
(* Contents: a document of the project, an index, or the mirror of what a  *)
(* spelling names.                                                         *)
(***************************************************************************)
DocumentIs(d) == [is |-> "doc", of |-> d]
IndexOf(f) == [is |-> "index", of |-> f]
MirrorOf(s) == [is |-> "mirror", of |-> s]

\* What a file looks like from its title and status.
KindOf(c) ==
  CASE c.is = "doc" -> site.kind[c.of]
    [] c.is = "mirror" /\ Len(c.of) = 2 /\ c.of[1] \in {"design", "spec"} -> c.of[1]
    [] c.is = "mirror" /\ \E f \in Logical : c.of = <<Rst(f)>> ->
         CHOOSE f \in Logical : c.of = <<Rst(f)>>
    [] OTHER -> "plain"

\* Changesets that a project with these files reads.
Sets(l, fs) ==
  { d \in DOMAIN targeted :
      \E p \in DOMAIN fs : fs[p] = DocumentIs(d) /\ RoleOf(l, p) = "changeset" }
ReadSets(l, fs) == Sets(l, fs) \ site.unreadable
Spellings(l, fs) == UNION { targeted[d] : d \in ReadSets(l, fs) }

(***************************************************************************)
(* Inference, in a project without a layout: a family is where one of its  *)
(* documents was found, the first in the order of the walk, which is left  *)
(* to CHOOSE.                                                              *)
(***************************************************************************)
Skipped == {"_palette", ".git", "target", "node_modules", "fixtures"}
Walked(fs) == { p \in DOMAIN fs : IsRst(Last(p)) /\ Range(p) \cap Skipped = {} }
Implied(fs, p) ==
  LET k == KindOf(fs[p])
  IN  CASE k \in SingleFile -> p
        [] k = "phase" -> SubSeq(p, 1, Len(p) - 2)
        [] k = "deliverable" -> SubSeq(p, 1, Len(p) - 3)
        [] OTHER -> Front(p)
Classified(fs, p) ==
  LET k == KindOf(fs[p])
  IN  /\ k # "plain"
      /\ k = "phase" => Len(p) > 1 /\ p[Len(p) - 1] \in PhaseFolders
      /\ k = "deliverable" => Len(p) > 2 /\ p[Len(p) - 1] = "deliverables"

StagingDirs(fs) ==
  { d \in UNION { Prefixes(p) : p \in Walked(fs) } : d # <<>> /\ Last(d) = "staging" }
Within(p, dirs) == \E d \in dirs : IsPrefix(d, p)
\* The same, with a mirror folder only.
MirrorFolders(fs) ==
  { d \in StagingDirs(fs) :
      \E p \in Walked(fs), f \in {"design", "spec"} : IsStrictPrefix(Append(d, f), p) }
\* The folders that count as staging: with a mirror folder, or beside the records.
Stagings(fs) ==
  LET plain == { p \in Walked(fs) : ~Within(p, StagingDirs(fs)) /\ Classified(fs, p) }
      beside == { Front(Implied(fs, p)) : p \in
                  { q \in plain : KindOf(fs[q]) \in {"rfc", "adr", "design", "spec"}
                                  /\ Implied(fs, q) # <<>> } }
  IN  { d \in StagingDirs(fs) :
          \/ \E p \in Walked(fs), f \in {"design", "spec"} : IsStrictPrefix(Append(d, f), p)
          \/ Front(d) \in beside }

Inferred(fs, st, read) ==
  LET found == { p \in read : ~Within(p, st) }
      seen == { KindOf(fs[p]) : p \in found }
  IN  [f \in {"staging"} |-> IF st = {} THEN Internal ELSE CHOOSE d \in st : TRUE]
      @@ [f \in seen |-> Implied(fs, CHOOSE p \in found : KindOf(fs[p]) = f)]
      @@ [f \in Families |-> Internal]
InferLayout(fs) == Inferred(fs, Stagings(fs), { p \in Walked(fs) : Classified(fs, p) })

\* The placements a call works with.
Placements(w, fs) == IF w = NoLayout THEN InferLayout(fs) ELSE ParseLayout(w).at
-----------------------------------------------------------------------------
\* LinkIds are relative: so many folders up, then these names.
RelativeLink(from, to) ==
  LET common == CHOOSE n \in 0..Len(from) :
                  /\ n <= Len(to) /\ SubSeq(from, 1, n) = SubSeq(to, 1, n)
                  /\ n < Len(from) /\ n < Len(to) => from[n + 1] # to[n + 1]
  IN  [up |-> Len(from) - common, down |-> SubSeq(to, common + 1, Len(to))]
JoinLexical(base, r) == SubSeq(base, 1, Len(base) - r.up) \o r.down

LinkIds == DOMAIN site.links
PlaceOf(fs, d) == { p \in DOMAIN fs : fs[p] = DocumentIs(d) }
HolderOf(fs, k) == CHOOSE p \in PlaceOf(fs, site.links[k].in) : TRUE
\* The document whose edit holds the link, if the link is in the body of an edit.
Body(l, fs, k) ==
  IF site.links[k].body = <<>> THEN Refused ELSE SnapTarget(l, fs, site.links[k].body)
\* The folder a link is read from.
TextFile(l, fs, k, t) == IF t = Refused THEN HolderOf(fs, k) ELSE TargetFile(l, t)
FromDir(l, fs, k) == Front(TextFile(l, fs, k, Body(l, fs, k)))
Leads(l, fs, tx, k) == JoinLexical(FromDir(l, fs, k), tx[k])
\* What a link is about: a document, or one that a changeset creates.
Means(l, fs, k) ==
  LET to == site.links[k].to
  IN  IF to.created = <<>> THEN PlaceOf(fs, to.doc)
      ELSE { TargetFile(l, ResolveTarget(l, to.created)) }
LinkFollows(l, fs, tx, k) ==
  /\ PlaceOf(fs, site.links[k].in) # {} /\ Leads(l, fs, tx, k) \in Means(l, fs, k)

-----------------------------------------------------------------------------
(***************************************************************************)
(* The end of every call: indexes and mirrors are generated, mirrors that  *)
(* no accepted changeset produces are deleted, and an error in a file the  *)
(* call changes refuses it.                                                *)
(***************************************************************************)
StagedTargets(l, fs, e) ==
  { s \in UNION { e[d] : d \in ReadSets(l, fs) \cap site.accepted } :
      SnapTarget(l, fs, s) # Refused }
Wanted(l, fs, e) ==
  LET indexes == { f \in Indexed : \E p \in DOMAIN fs : RoleOf(l, p) = f }
  IN  { <<IndexFile(l, f), IndexOf(f)>> : f \in indexes }
      \cup { <<MirrorFile(l, SnapTarget(l, fs, s)), MirrorOf(s)>> : s \in StagedTargets(l, fs, e) }
Rebuilt(l, fs, wanted) ==
  LET at == { w[1] : w \in wanted }
      kept == { p \in DOMAIN fs : RoleOf(l, p) # "staging" } \ at
  IN  [p \in at |-> (CHOOSE w \in wanted : w[1] = p)[2]] @@ [p \in kept |-> fs[p]]
Regenerate(l, fs, e) == Rebuilt(l, fs, Wanted(l, fs, e))

\* P004: a link leads nowhere, or from a committed document into `_palette/`.
BrokenLink(l, fs, tx, k) ==
  \E from \in { TextFile(l, fs, k, Body(l, fs, k)) } :
  \E to \in { JoinLexical(Front(from), tx[k]) } :
    \/ ~IsPrefix(Palette, from) /\ IsPrefix(Palette, to)
    \/ to \notin DOMAIN fs
       /\ ~(site.links[k].to.created # <<>> /\ to \in Means(l, fs, k))
\* P002 and P003: a document that is not what its place says.
ErrorIn(l, fs, tx, p) ==
  /\ fs[p].is = "doc" /\ RoleOf(l, p) \notin {"none", "staging"}
  /\ \/ KindOf(fs[p]) # RoleOf(l, p)
     \/ \E k \in LinkIds : fs[p] = DocumentIs(site.links[k].in) /\ BrokenLink(l, fs, tx, k)

\* The call that wrote w, fs and tx, generated what follows from them, and passed.
Touches(out, tx, p) ==
  \/ p \notin DOMAIN tree \/ out[p] # tree[p]
  \/ \E k \in LinkIds : out[p] = DocumentIs(site.links[k].in) /\ tx[k] # linkText[k]
FinishCall(w, fs, tx, e) ==
  \E l \in { Placements(w, fs) } : \E out \in { Regenerate(l, fs, e) } :
    /\ \A p \in DOMAIN out : Touches(out, tx, p) => ~ErrorIn(l, out, tx, p)
    /\ lines' = w /\ tree' = out /\ linkText' = tx /\ targeted' = e

LayoutStep == layoutSteps < MaxSteps /\ layoutSteps' = layoutSteps + 1 /\ UNCHANGED site
\* A write tool needs a layout, and one that places the staging folder.
NeedsLayout == lines # NoLayout /\ ParseLayout(lines).staged

-----------------------------------------------------------------------------
\* palette_init: the layout, and a backlog and a state document unless there are some.
PaletteInit ==
  /\ LayoutStep /\ lines = NoLayout
  /\ \E asked \in site.inits :
     \E w \in { [f \in DOMAIN asked |-> NormalizePath(f, asked[f])]
               @@ [f \in Families |-> Internal] } :
       LET fresh(f) == IF FileOf(w, f) \in DOMAIN tree THEN <<>> ELSE FileOf(w, f) :> DocumentIs(f)
       IN  /\ Absent \notin Range(w) /\ ~ParseLayout(w).wrong
           /\ FinishCall(w, tree @@ fresh("backlog") @@ fresh("state"), linkText, targeted)

(***************************************************************************)
(* palette_layout_set.  No target of any changeset may become one that a   *)
(* changeset may not edit, and no file may be in the way of a moved one.   *)
(***************************************************************************)
Strands(l, new) ==
  \/ Sets(l, tree) \cap site.unreadable # {}
  \/ \E s \in Spellings(l, tree) :
       SnapTarget(l, tree, s) # Refused /\ ResolveTarget(new, s) = Refused

MovedFiles(l, new, f) ==
  LET members == { p \in DOMAIN tree : RoleOf(l, p) = f }
      goes(p) == RootOf(new, f) \o SubSeq(p, Len(RootOf(l, f)) + 1, Len(p))
  IN  [p \in { q \in members : goes(q) # q } |-> goes(p)]

\* Where the documents that changesets edit or create go.
Edited(l, new) ==
  LET targets == { SnapTarget(l, tree, s) : s \in Spellings(l, tree) } \ {Refused}
  IN  [p \in { TargetFile(l, t) : t \in targets } |->
         TargetFile(new, CHOOSE t \in targets : TargetFile(l, t) = p)]

\* The same, reading a link in an edit from the changeset's own folder.
RewrittenInPlace(l, new, moved, edited, k) ==
  LET at == HolderOf(tree, k)
      fromNew == Front(IF at \in DOMAIN moved THEN moved[at] ELSE at)
      toOld == JoinLexical(Front(at), linkText[k])
      toNew == IF toOld \in DOMAIN moved THEN moved[toOld] ELSE toOld
  IN  IF toNew = toOld /\ fromNew = Front(at)
      THEN linkText[k] ELSE RelativeLink(fromNew, toNew)

MovedText(l, new, moved, edited, k, t) ==
  LET at == HolderOf(tree, k)
      fromOld == Front(TextFile(l, tree, k, t))
      fromNew == IF t # Refused THEN Front(TargetFile(new, t))
                 ELSE IF at \in DOMAIN moved THEN Front(moved[at]) ELSE Front(at)
      toOld == JoinLexical(fromOld, linkText[k])
      toNew == IF toOld \in DOMAIN moved THEN moved[toOld]
               ELSE IF t # Refused /\ toOld \in DOMAIN edited THEN edited[toOld] ELSE toOld
  IN  IF \/ RoleOf(l, at) \in {"none", "staging"}
         \/ toNew = toOld /\ fromNew = fromOld
      THEN linkText[k] ELSE RelativeLink(fromNew, toNew)
Rewritten(l, new, moved, edited, k) == MovedText(l, new, moved, edited, k, Body(l, tree, k))

\* What has moved is at its new place, with its links.
Arrived(moved) ==
  [p \in Range(moved) |-> tree[CHOOSE q \in DOMAIN moved : moved[q] = p]]
    @@ [p \in DOMAIN tree \ DOMAIN moved |-> tree[p]]
MovedLinks(l, new, moved, edited) ==
  [k \in { k \in LinkIds : PlaceOf(tree, site.links[k].in) # {} } |->
     Rewritten(l, new, moved, edited, k)] @@ linkText

LayoutSet ==
  /\ LayoutStep /\ NeedsLayout
  /\ \E m \in site.moves, l \in { ParseLayout(lines).at } :
     \E to \in { IF m[2] = Internal THEN Internal ELSE NormalizePath(m[1], m[2]) } :
     \E new \in { [l EXCEPT ![m[1]] = to] } :
     \E moved \in { MovedFiles(l, new, m[1]) } :
       /\ to # Absent /\ l[m[1]] # to /\ lines[m[1]] # Absent
       /\ ~Strands(l, new)
       /\ Range(moved) \cap DOMAIN tree = {}
       /\ ~ParseLayout([lines EXCEPT ![m[1]] = to]).wrong
       /\ FinishCall([lines EXCEPT ![m[1]] = to], Arrived(moved),
                     MovedLinks(l, new, moved, Edited(l, new)), targeted)

-----------------------------------------------------------------------------
\* A changeset gains an edit of a document.
AddEdit ==
  /\ LayoutStep /\ NeedsLayout
  /\ LET l == ParseLayout(lines).at
     IN  \E d \in ReadSets(l, tree), s \in site.spellings :
           /\ s \notin targeted[d] /\ SnapTarget(l, tree, s) # Refused
           /\ FinishCall(lines, tree, linkText, [targeted EXCEPT ![d] = @ \cup {s}])

\* palette_generate, which also runs in a project without a layout.
GenerateCall ==
  /\ LayoutStep /\ (lines = NoLayout \/ NeedsLayout)
  /\ FinishCall(lines, tree, linkText, targeted)

\* A person edits a line of layout.rst, or removes it.
EditLayout ==
  /\ LayoutStep /\ lines # NoLayout
  /\ \E m \in site.handEdits : lines' = [lines EXCEPT ![m[1]] = m[2]]
  /\ UNCHANGED <<tree, linkText, targeted>>

\* What is committed, somewhere else.
Outside(fs) == [p \in { q \in DOMAIN fs : ~IsPrefix(Palette, q) } |-> fs[p]]
Checkout ==
  /\ LayoutStep /\ lines # NoLayout
  /\ lines' = NoLayout /\ tree' = Outside(tree)
  /\ UNCHANGED <<linkText, targeted>>

LayoutInit ==
  /\ site \in Sites
  /\ lines = site.lines /\ targeted = site.edits /\ layoutSteps = 0
  /\ LET l == Placements(lines, site.files)
     IN  /\ tree = Regenerate(l, site.files, site.edits)
         /\ linkText = [k \in LinkIds |->
                      RelativeLink(FromDir(l, tree, k),
                                   CHOOSE p \in Means(l, tree, k) : TRUE)]

LayoutNext == PaletteInit \/ LayoutSet \/ AddEdit \/ GenerateCall \/ EditLayout \/ Checkout
LayoutSpec == LayoutInit /\ [][LayoutNext]_layoutVars

-----------------------------------------------------------------------------
\* A move that changes a document or where it is.
FamilyMoves ==
  /\ lines # NoLayout /\ lines' \notin {lines, NoLayout}
  /\ <<tree, linkText>>' # <<tree, linkText>>

(***************************************************************************)
(* A move of a family leaves every link of a palette document, and every   *)
(* link in the text of an edit, leading to the document it led to before:  *)
(* move_family rewrites both ends, and reads a link in an edit from the    *)
(* place of the document that is edited.                                   *)
(***************************************************************************)
LinksFollow ==
  [][FamilyMoves => \A k \in LinkIds :
       LET l == ParseLayout(lines).at
       IN  /\ LinkFollows(l, tree, linkText, k)
           /\ RoleOf(l, HolderOf(tree, k)) \notin {"none", "staging"}
           => LinkFollows(ParseLayout(lines').at, tree', linkText', k)]_layoutVars

(***************************************************************************)
(* Two targets of changesets that can be read have different files and     *)
(* different mirrors, whatever the order of edits and moves: otherwise one    *)
(* staging document would hold the edits of two.  Only documents whose        *)
(* names differ in case alone may have mirrors that do.                    *)
(***************************************************************************)
MirrorsApart ==
  lines # NoLayout =>
  LET l == ParseLayout(lines).at
      targets == { SnapTarget(l, tree, s) : s \in Spellings(l, tree) } \ {Refused}
  IN  \A t1, t2 \in targets :
        /\ t1 # t2 => TargetFile(l, t1) # TargetFile(l, t2)
        /\ t1 # t2 /\ Same(MirrorFile(l, t1), MirrorFile(l, t2))
           => t1.fam = "document" /\ t2.fam = "document" /\ Same(t1.path, t2.path)

(***************************************************************************)
(* A checkout, which has no layout, is read as the project it came from:   *)
(* the families with committed documents are found where the layout placed *)
(* them, so that a check there judges the same documents.  The layout must *)
(* read every document as what it is, avoid the folders the walk skips,    *)
(* and place the staging folder where infer's comment says it is found.    *)
(***************************************************************************)
StagingShows(l, fs) ==
  LET shown(f) == \E p \in DOMAIN fs : RoleOf(l, p) = f
  IN  \/ \A p \in DOMAIN fs : RoleOf(l, p) # "staging"
      \/ /\ Last(l["staging"]) = "staging"
         /\ \/ \E p \in DOMAIN fs, f \in {"design", "spec"} :
                 IsStrictPrefix(Append(l["staging"], f), p)
            \/ \E f \in {"rfc", "adr", "design", "spec"} :
                 l[f] # Internal /\ shown(f) /\ Front(l[f]) = Front(l["staging"])
ReadsTheSame(l, fs, inferred) ==
  /\ \A p \in DOMAIN fs :
       /\ RoleOf(l, p) = "staging"
          \/ fs[p].is = "index"
          \/ KindOf(fs[p]) = IF RoleOf(l, p) = "none" THEN "plain" ELSE RoleOf(l, p)
       /\ Range(p) \cap Skipped = {}
       /\ "staging" \in Range(p) => RoleOf(l, p) = "staging"
  /\ StagingShows(l, fs)
  => \A p \in DOMAIN fs :
       /\ fs[p].is # "index" => RoleOf(inferred, p) = RoleOf(l, p)
       /\ RoleOf(l, p) # "none" /\ fs[p].is # "index" =>
            inferred[RoleOf(l, p)] = l[RoleOf(l, p)]
CheckoutAgrees ==
  lines # NoLayout /\ ~ParseLayout(lines).wrong =>
  ReadsTheSame(ParseLayout(lines).at, Outside(tree), InferLayout(Outside(tree)))

(***************************************************************************)
(* A move of a family removes no document.  palette_layout_set says that   *)
(* it refuses "a destination that already holds a file".  The code looks   *)
(* only for files in the way of the ones it moves: a staging folder placed *)
(* over documents takes them for mirrors, and regeneration deletes them.   *)
(***************************************************************************)
DocumentsSurvive ==
  [][FamilyMoves => \A d \in DOMAIN site.kind :
       PlaceOf(tree, d) # {} => PlaceOf(tree', d) # {}]_layoutVars
=============================================================================
