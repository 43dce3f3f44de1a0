----------------------------- MODULE MCPalette -----------------------------
(***************************************************************************)
(* What palette's tools keep, on small instances: the files under          *)
(* overlapping write calls (PaletteCommit), and what whole calls do to the *)
(* records with their changesets (Changesets), to the backlog and state    *)
(* documents (Backlog), to where documents are (Layout) and to their text  *)
(* (Prose).  A behaviour is about one part; the others rest.               *)
(***************************************************************************)
EXTENDS PaletteCommit, Changesets, Backlog, Layout, Prose, TLC

VARIABLE part

ToolSymmetry == Permutations(Tools)

-----------------------------------------------------------------------------
(***************************************************************************)
(* Records over a document of two nested headings: records alone, of both  *)
(* kinds, created and related from nothing and from three at hand; an RFC  *)
(* that depends on an ADR, with two edits between them and a change of     *)
(* their relations; and one record with three edits.                       *)
(***************************************************************************)
r1 == <<RFC, 1>>
r2 == <<RFC, 2>>
a1 == <<ADR, 1>>
Rec(status, depends) ==
  [status |-> status, impl |-> "open", depends |-> depends, whole |-> {}]
Doc == "d" :> <<Heading(2, "A", 0), Heading(3, "B", 0)>>
P(records, c, u, t) ==
  [recs |-> records, docs |-> Doc, creates |-> c, updates |-> u, texts |-> t]

In(kind, at, title) == [kind |-> kind, doc |-> "d", at |-> at, title |-> title]
MCInputs ==
  { In("delete", <<"A">>, "none"), In("delete", <<"A", "B">>, "none"),
    In("replace", <<"A">>, "A"), In("replace", <<"B">>, "C"),
    In("replace_body", <<"A">>, "C"), In("insert_after", <<"B">>, "C"),
    In("insert_into", <<"A">>, "B"), In("create", <<"new">>, "A") }

MCProjects ==
  { P(<<>>, 2, 4, 0),
    P(r1 :> Rec("Accepted", {}) @@ r2 :> Rec("Accepted", {}) @@ a1 :> Rec("Draft", {r1}), 0, 2, 0),
    P(r1 :> Rec("Accepted", {a1}) @@ a1 :> Rec("Accepted", {}), 0, 1, 2),
    P(r1 :> Rec("Accepted", {}), 0, 0, 3) }
OneRecord == P(r1 :> Rec("Accepted", {}), 0, 0, 2)
MCOneRecord == { OneRecord }

\* Items and phases; the entries of the state document, and phases that close.
Plan(i, p, m) == [items |-> i, phases |-> p, matters |-> m]
NoPlan == Plan(0, 0, 0)
MCPlans == { Plan(2, 2, 0), Plan(1, 1, 3), NoPlan }
MCNoPlans == { NoPlan }

-----------------------------------------------------------------------------
(***************************************************************************)
(* Two projects.  In the first every kind of link leads between families   *)
(* that move; a changeset edits a design document and links to one it      *)
(* creates.  The second has documents whose mirrors could meet.  The third *)
(* places its staging folder over a note.                                  *)
(***************************************************************************)
MCFolders == { "docs", "rfc", "adr", "design", "notes", "staging", "_palette", "changeset",
               "phase-1", "deliverables", "guide", "spec", "records", "changes", "..", "." }
MCFolded == "Design" :> "design"
D(id) == DocumentIs(id)
At(places) == places @@ [f \in Families |-> Internal]
To(id) == [doc |-> id, created |-> <<>>]
New(spelling) == [doc |-> "none", created |-> spelling]
L(in, body, to) == [in |-> in, body |-> body, to |-> to]
design1 == <<"design", "d1.rst">>
design2 == <<"design", "d2.rst">>
guide == <<"docs", "guide", "g.rst">>
rfcFile == <<"docs", "rfc", "r1.rst">>
changesetFile == <<"_palette", "changeset", "c1.rst">>
glossaryFile == <<"docs", "glossary.rst">>
noteFile == <<"docs", "notes", "n.rst">>

Linked == [
  kind |-> [r1 |-> "rfc", d1 |-> "design", g |-> "plain", c1 |-> "changeset", glo |-> "glossary",
            ph |-> "phase", n |-> "plain", backlog |-> "backlog", state |-> "state"],
  unreadable |-> {}, accepted |-> {"c1"}, edits |-> "c1" :> {design1},
  files |-> rfcFile :> D("r1") @@ <<"docs", "design", "d1.rst">> :> D("d1") @@ guide :> D("g")
            @@ changesetFile :> D("c1") @@ glossaryFile :> D("glo") @@ noteFile :> D("n")
            @@ <<"docs", "phase-1", "phase.rst">> :> D("ph"),
  lines |-> At("rfc" :> <<"docs", "rfc">> @@ "design" :> <<"docs", "design">>
               @@ "staging" :> <<"docs", "staging">> @@ "glossary" :> glossaryFile
               @@ "phase" :> <<"docs">>),
  links |-> << L("r1", <<>>, To("d1")), L("d1", <<>>, To("r1")), L("c1", design1, To("r1")),
               L("c1", design1, New(design2)), L("c1", <<>>, To("r1")),
               L("glo", <<>>, To("d1")), L("ph", <<>>, To("r1")), L("c1", design1, To("glo")) >>,
  spellings |-> {design2, guide, <<"glossary.rst">>, rfcFile, noteFile},
  inits |-> {"rfc" :> <<"docs", "..", "docs", "rfc">> @@ "design" :> <<"docs", "design">>},
  moves |-> { <<"rfc", <<"docs", "records">>>>, <<"rfc", <<"docs", "design">>>>,
              <<"design", <<"docs", "rfc", "..", "notes">>>>, <<"changeset", <<"docs", "changes">>>>,
              <<"staging", <<"staging">>>>, <<"glossary", <<"docs", "notes", "glossary.rst">>>>,
              <<"phase", <<"docs", "rfc">>>>, <<"glossary", Internal>> },
  handEdits |-> { <<"staging", Absent>> }]

Mirrored == [Linked EXCEPT
  !.kind = @ @@ "n2" :> "plain", !.links = <<>>, !.edits = "c1" :> {},
  !.lines["design"] = <<"design">>,
  !.files = rfcFile :> D("r1") @@ design1 :> D("d1") @@ <<"docs", "design", "a.rst">> :> D("n")
            @@ <<"docs", "Design", "a.rst">> :> D("n2") @@ <<"guide", "glossary.rst">> :> D("g")
            @@ glossaryFile :> D("glo") @@ changesetFile :> D("c1"),
  !.spellings = { <<"docs", "Design", "a.rst">>, <<"docs", "design", "a.rst">>,
                  <<"glossary.rst">>, <<"design", "a.rst">>, <<"guide", "glossary.rst">> },
  !.moves = { <<"staging", <<"guide", "staging">>>>, <<"staging", <<"docs", "guide", "staging">>>>,
              <<"design", <<"docs", "guide">>>>, <<"rfc", Internal>>,
              <<"design", <<"docs", "design">>>> },
  !.handEdits = { <<"staging", <<"guide">>>> }]

MCSites == { Linked, Mirrored }
MCOverNotes == { [Linked EXCEPT !.moves = { <<"staging", <<"docs", "notes">>>> }] }

-----------------------------------------------------------------------------
(***************************************************************************)
(* Documents of three and four lines over small sets of lines, one set for *)
(* each kind of markup a rewrap must leave alone; and documents of a title *)
(* and two headings of equal and unequal levels, with and without a last   *)
(* line ending.                                                            *)
(***************************************************************************)
MCLength == "w" :> 1 @@ "ww" :> 3 @@ "-" :> 1 @@ "x::" :> 3 @@ "---" :> 3 @@ ":F:" :> 3
            @@ ".." :> 2 @@ "|" :> 1 @@ "T" :> 1 @@ "A" :> 1 @@ "None." :> 5
Ln(i, w) == [ind |-> i, words |-> w, eol |-> "lf"]
NoWords == Ln(0, <<>>)
W1 == Ln(0, <<"w">>)
LongSets ==
  { { NoWords, W1, Ln(0, <<"w","w","w","w">>), Ln(0, <<"-","w","w","ww">>), Ln(2, <<"w","w">>), Ln(1, <<"w">>) },
    { NoWords, W1, Ln(0, <<"w","w","ww","x::">>), Ln(0, <<"-","w","w","x::">>), Ln(2, <<"w","w","ww">>), Ln(3, <<"w">>) } }
ShortSets ==
  { { NoWords, W1, Ln(0, <<"w","---">>), Ln(0, <<"---">>), Ln(0, <<"w","w","-","w">>), Ln(1, <<"---">>) },
    { NoWords, W1, Ln(0, <<"..","w">>), Ln(0, <<"w","..">>), Ln(2, <<"w","w","w","..">>), Ln(0, <<"..">>) },
    { NoWords, Ln(0, <<":F:","w">>), Ln(0, <<"w","w",":F:">>), Ln(2, <<"w","w","w","ww">>), Ln(0, <<"|","w","w","w">>), Ln(0, <<"w","w">>) } }
WithEndings(eol, doc) ==
  [i \in DOMAIN doc |-> [doc[i] EXCEPT !.eol =
     IF eol = "lf" THEN "lf" ELSE IF i = Len(doc) THEN "none" ELSE "crlf"]]
UnderT(w, rule) == <<Ln(0, <<w>>), Ln(0, <<rule>>)>>
MCHeaders == { <<"none", <<>>>>, <<"lf", <<Ln(0, <<":F:","w">>)>>>>,
               <<"lf", <<NoWords, Ln(0, <<":F:","w">>), Ln(2, <<"w">>)>>>> }
MCBodies == { <<>>, <<NoWords>>, <<W1>>, <<NoWords, Ln(0, <<"None.">>), NoWords>>,
              <<NoWords, Ln(0, <<"w","x::">>), NoWords, Ln(2, <<"w">>)>>,
              <<NoWords, Ln(0, <<"..","w">>), Ln(2, <<"w">>)>>, <<NoWords, Ln(0, <<"-","w">>)>> }
MCTails == { <<>>, <<NoWords, Ln(0, <<"None.">>), NoWords>>, <<W1>> }
MCPapers ==
  UNION { UNION { [1 .. n -> ls] : n \in 0 .. 4 } : ls \in LongSets }
  \cup UNION { UNION { [1 .. n -> ls] : n \in 0 .. 3 } : ls \in ShortSets }
  \cup { WithEndings(f[1], UnderT("T", "===") \o f[2] \o UnderT("A", k1) \o b \o UnderT("A", k2) \o c) :
           f \in MCHeaders, k1 \in {"---", "***"}, k2 \in {"---", "***"},
           b \in MCBodies, c \in MCTails }
Bl(i, w) == [ind |-> i, words |-> w]
MCBlocks == { <<>>, <<Bl(0, <<"-","w">>)>>, <<Bl(0, <<"w","x::">>)>>,
              <<Bl(0, <<"w","w","ww","w">>), Bl(0, <<>>), Bl(2, <<"w">>)>> }
MCNoPapers == {}

-----------------------------------------------------------------------------
\* The other parts begin as they stay.
FilesRest == Init /\ \A r \in Records : disk[r] = Missing
RecordsRest ==
  /\ recs = <<>> /\ sets = <<>> /\ docs = Doc /\ landed = <<>> /\ dropped = {}
  /\ creates = 0 /\ updates = 0 /\ maxTexts = 0 /\ texts = 0
BacklogRests == limits = NoPlan /\ BacklogInit

LayoutRests == /\ site = [links |-> <<>>, moves |-> {}] /\ lines = NoLayout
               /\ tree = <<>> /\ linkText = <<>> /\ targeted = <<>> /\ layoutSteps = 0

ProseRests == text = <<>> /\ touches = MaxTouches

FilesInit == part = "files" /\ Init /\ RecordsRest /\ BacklogRests /\ LayoutRests /\ ProseRests

MCInit ==
  \/ FilesInit
  \/ part = "records" /\ FilesRest /\ RecordInit /\ BacklogRests /\ LayoutRests /\ ProseRests
  \/ part = "backlog" /\ FilesRest /\ RecordsRest /\ BacklogInit /\ LayoutRests /\ ProseRests
  \/ part = "layout" /\ FilesRest /\ RecordsRest /\ BacklogRests /\ LayoutInit /\ ProseRests
  \/ part = "prose" /\ FilesRest /\ RecordsRest /\ BacklogRests /\ LayoutRests /\ ProseInit

MCNext ==
  /\ part' = part
  /\ \/ part = "files" /\ Next /\ UNCHANGED <<recordVars, backlogVars, layoutVars, proseVars>>
     \/ part = "records" /\ RecordNext /\ UNCHANGED <<vars, backlogVars, layoutVars, proseVars>>
     \/ part = "backlog" /\ BacklogNext /\ UNCHANGED <<vars, recordVars, layoutVars, proseVars>>
     \/ part = "layout" /\ LayoutNext /\ UNCHANGED <<vars, recordVars, backlogVars, proseVars>>
     \/ part = "prose" /\ ProseNext /\ UNCHANGED <<vars, recordVars, backlogVars, layoutVars>>

paletteVars == <<part, vars, recordVars, backlogVars, layoutVars, proseVars>>
MCSpec == MCInit /\ [][MCNext]_paletteVars
\* The files alone, with the fairness of PaletteCommit's calls.
FilesSpec == FilesInit /\ [][MCNext]_paletteVars /\ \A p \in Tools : WF_vars(CallProceeds(p))
=============================================================================
