------------------------------ MODULE Backlog ------------------------------
(***************************************************************************)
(* Palette's backlog and state documents: items that are approved, worked  *)
(* on in a phase and done or dropped, with their deliverables, and the     *)
(* decisions, questions and discrepancies that are still open              *)
(* (src/shared/mcp-servers/palette/src/ops/backlog.rs and ops/state.rs,    *)
(* backlog.rs, state.rs).  Write calls run one at a time (PaletteCommit),  *)
(* so an action here is a whole call.                                      *)
(***************************************************************************)
EXTENDS Naturals, FiniteSets, SequencesExt, Lists

CONSTANTS
    Plans   \* bounds: how many items, phases and texts a project gets at most

VARIABLES
    limits,     \* the bounds of this project
    items,      \* B-n at n: status, the phase it is in, deliverable and Depends
    phases,     \* phase-n at n: active or closed; its files are never removed
    decisions, questions, discrepancies,  \* the entries of the state document
    raised,     \* how many matters the entries raised; each is known by its number
    settled,    \* the matters that left the state document
    resolved,   \* history: the matters a call graduated, withdrew or fixed
    worded      \* history: the matters of decisions written in the words of a pointer

backlogVars ==
  <<limits, items, phases, decisions, questions, discrepancies, raised, settled, resolved, worded>>
entries == <<decisions, questions, discrepancies, raised, settled, resolved, worded>>

Active(n) == n \in DOMAIN phases /\ phases[n] = "active"
InPhase(n) == {i \in DOMAIN items : items[i].status = "in-phase" /\ items[i].phase = n}

-----------------------------------------------------------------------------
(***************************************************************************)
(* palette_backlog_add and palette_backlog_update.                         *)
(***************************************************************************)
\* A deliverable is the file of a phase's folder, known by its last text.
NoFile == [phase |-> 0, text |-> 0]
Item(depends) ==
  [status |-> "proposed", phase |-> 0, deliverable |-> NoFile, depends |-> depends]

BacklogAdd(depends) ==
  /\ Len(items) < limits.items
  /\ items' = Append(items, Item(depends))
  /\ UNCHANGED <<limits, phases, entries>>

CheckTransition(item, to, n) ==
  \/ to = "dropped" /\ item.status # "dropped"
  \/ item.status = "proposed" /\ to = "approved"
  \/ item.status = "approved" /\ to = "in-phase" /\ Active(n)
  \/ item.status = "in-phase" /\ to = "done"

MoveItem(i, to, n) ==
  /\ CheckTransition(items[i], to, n)
  /\ items' = [items EXCEPT ![i].status = to, ![i].phase = IF to = "in-phase" THEN n ELSE 0]
  /\ UNCHANGED <<limits, phases, entries>>

RelateItem(i, depends) ==
  /\ i \notin depends
  /\ items' = [items EXCEPT ![i].depends = depends]
  /\ UNCHANGED <<limits, phases, entries>>

-----------------------------------------------------------------------------
(***************************************************************************)
(* palette_phase_open takes approved items; palette_phase_close wants a    *)
(* result for every item of the phase, adds new items and removes from the *)
(* state document every decision that reads as a pointer.                  *)
(***************************************************************************)
PhaseOpen(ids) ==
  LET n == Len(phases) + 1
  IN /\ n <= limits.phases
     /\ \A i \in ids : items[i].status = "approved"
     /\ phases' = Append(phases, "active")
     /\ items' = [i \in DOMAIN items |->
                    IF i \in ids THEN [items[i] EXCEPT !.status = "in-phase", !.phase = n]
                    ELSE items[i]]
     /\ UNCHANGED <<limits, entries>>

\* Mutant: the decisions go when the phase closes, graduated or not.
DropPointers_All ==
  /\ settled' = settled \cup {d.matter : d \in Range(decisions)}
  /\ decisions' = <<>>

DropPointers ==
  /\ settled' = settled \cup {d.matter : d \in {e \in Range(decisions) : e.pointer}}
  /\ decisions' = KeptAt(decisions, {i \in DOMAIN decisions : ~decisions[i].pointer})

\* Mutant: an item without a result stays where it is.
Results_Given(n, done, dropped) == done \cap dropped = {} /\ done \cup dropped \subseteq InPhase(n)

\* The results: every item of the phase has one, and only those.
Results(n, done, dropped) == done \cap dropped = {} /\ done \cup dropped = InPhase(n)

PhaseClose(n, done, dropped, new) ==
  LET result(i) == IF i \in done THEN "done" ELSE "dropped"
  IN /\ Active(n)
     /\ Results(n, done, dropped)
     /\ Len(items) + new <= limits.items
     /\ phases' = [phases EXCEPT ![n] = "closed"]
     /\ items' = [i \in DOMAIN items |->
                    IF i \in done \cup dropped
                    THEN [items[i] EXCEPT !.status = result(i), !.phase = 0]
                    ELSE items[i]]
                 \o [j \in 1 .. new |-> Item({})]
     /\ DropPointers
     /\ UNCHANGED <<limits, questions, discrepancies, raised, resolved, worded>>

-----------------------------------------------------------------------------
(***************************************************************************)
(* palette_deliverable_create and _update: of an item in an active phase.  *)
(***************************************************************************)
ActiveItem(i) == items[i].status = "in-phase" /\ Active(items[i].phase)

DeliverableCreate(i) ==
  /\ ActiveItem(i)
  /\ items[i].deliverable = NoFile
  /\ items' = [items EXCEPT ![i].deliverable = [phase |-> items[i].phase, text |-> 1]]
  /\ UNCHANGED <<limits, phases, entries>>

\* The file the item links to, wherever it is.
DeliverableUpdate(i) ==
  /\ ActiveItem(i)
  /\ items[i].deliverable # NoFile
  /\ items' = [items EXCEPT ![i].deliverable.text = 3 - @]
  /\ UNCHANGED <<limits, phases, entries>>

-----------------------------------------------------------------------------
(***************************************************************************)
(* palette_state_record and palette_state_resolve.  An entry has the next  *)
(* number of its section.  A decision that graduated keeps it and becomes  *)
(* a pointer to where it was written; but what makes an entry a pointer is *)
(* its text ("Graduated to" or "Written:" anywhere in it), and the text of *)
(* a decision is the caller's: `reads' says that it has those words.       *)
(***************************************************************************)
NextEntry(section) == Max({0} \cup {e.number : e \in Range(section)}) + 1

Entry(section, matter, reads) ==
  [number |-> NextEntry(section), matter |-> matter, pointer |-> reads]
Without(section, i) == RemoveAt(section, i)

\* A decision on a matter, in whatever words.
Decide(matter, reads) ==
  /\ decisions' = Append(decisions, Entry(decisions, matter, reads))
  /\ worded' = IF reads THEN worded \cup {matter} ELSE worded

Record(kind, reads) ==
  /\ raised < limits.matters
  /\ raised' = raised + 1
  /\ \/ /\ kind = "decision"
        /\ Decide(raised', reads)
        /\ UNCHANGED <<questions, discrepancies>>
     \/ /\ kind = "question"
        /\ questions' = Append(questions, Entry(questions, raised', FALSE))
        /\ UNCHANGED <<decisions, discrepancies, worded>>
     \/ /\ kind = "discrepancy"
        /\ discrepancies' = Append(discrepancies, Entry(discrepancies, raised', FALSE))
        /\ UNCHANGED <<decisions, questions, worded>>
  /\ UNCHANGED <<limits, items, phases, settled, resolved>>

\* An entry is found by its number: the first that has it.
Found(section, number) ==
  LET at == {i \in DOMAIN section : section[i].number = number}
  IN  IF at = {} THEN {} ELSE {Min(at)}

\* One that already reads as a pointer is refused, graduated or not.
Graduate(number) ==
  \E i \in Found(decisions, number) :
    /\ ~decisions[i].pointer
    /\ decisions' = [decisions EXCEPT ![i].pointer = TRUE]
    /\ resolved' = resolved \cup {decisions[i].matter}
    /\ UNCHANGED <<limits, items, phases, questions, discrepancies, raised, settled, worded>>

\* The answer is a decision about the question's matter.
Answer(number, reads) ==
  \E i \in Found(questions, number) :
    /\ questions' = Without(questions, i)
    /\ Decide(questions[i].matter, reads)
    /\ UNCHANGED <<limits, items, phases, discrepancies, raised, settled, resolved>>

Withdraw(number) ==
  \E i \in Found(questions, number) :
    /\ questions' = Without(questions, i)
    /\ settled' = settled \cup {questions[i].matter}
    /\ resolved' = resolved \cup {questions[i].matter}
    /\ UNCHANGED <<limits, items, phases, decisions, discrepancies, raised, worded>>

Fix(number) ==
  \E i \in Found(discrepancies, number) :
    /\ discrepancies' = Without(discrepancies, i)
    /\ settled' = settled \cup {discrepancies[i].matter}
    /\ resolved' = resolved \cup {discrepancies[i].matter}
    /\ UNCHANGED <<limits, items, phases, decisions, questions, raised, worded>>

-----------------------------------------------------------------------------
BacklogInit ==
  /\ limits \in Plans
  /\ items = <<>> /\ phases = <<>>
  /\ decisions = <<>> /\ questions = <<>> /\ discrepancies = <<>>
  /\ raised = 0 /\ settled = {} /\ resolved = {} /\ worded = {}

ItemCalls ==
  \/ \E depends \in SUBSET DOMAIN items : BacklogAdd(depends)
  \/ \E i \in DOMAIN items :
        \/ \E to \in {"approved", "in-phase", "done", "dropped"}, n \in 0 .. Len(phases) :
              MoveItem(i, to, n)
        \/ \E depends \in SUBSET DOMAIN items : RelateItem(i, depends)
        \/ DeliverableCreate(i)
        \/ DeliverableUpdate(i)

PhaseCalls ==
  \/ \E ids \in SUBSET DOMAIN items : PhaseOpen(ids)
  \/ \E n \in DOMAIN phases, new \in 0 .. 1 :
        \E done \in SUBSET InPhase(n), dropped \in SUBSET InPhase(n) :
           PhaseClose(n, done, dropped, new)

EntryCalls ==
  \/ \E kind \in {"decision", "question", "discrepancy"} :
        \E reads \in IF kind = "decision" THEN BOOLEAN ELSE {FALSE} : Record(kind, reads)
  \/ \E number \in 1 .. limits.matters :
        \/ Graduate(number)
        \/ \E reads \in BOOLEAN : Answer(number, reads)
        \/ Withdraw(number)
        \/ Fix(number)

BacklogNext == ItemCalls \/ PhaseCalls \/ EntryCalls

BacklogSpec == BacklogInit /\ [][BacklogNext]_backlogVars

-----------------------------------------------------------------------------
(***************************************************************************)
(* An item that is in a phase is in an active one, whatever the order of   *)
(* opening and closing phases and moving items (palette-server.rst:422-434)*)
(***************************************************************************)
ItemsInActivePhases ==
  \A i \in DOMAIN items : items[i].status = "in-phase" => Active(items[i].phase)

Numbered(section) == \A i, j \in DOMAIN section : section[i].number = section[j].number => i = j
Held(section) == {e.matter : e \in Range(section)}

(***************************************************************************)
(* A matter that was raised is held by one entry until it is settled, and  *)
(* an answered question lives on as a decision.  What left the document    *)
(* was graduated, withdrawn or fixed, or is a decision whose text had the  *)
(* words of a pointer, which a phase that closes removes although nobody   *)
(* graduated it (palette-server.rst:434 has it remove graduated ones).  A  *)
(* call names an entry by its number, and no two of a section have the     *)
(* same, also after entries between them were removed and pointers         *)
(* dropped.                                                                *)
(***************************************************************************)
MattersKept ==
  /\ Numbered(decisions) /\ Numbered(questions) /\ Numbered(discrepancies)
  /\ Held(decisions) \cup Held(questions) \cup Held(discrepancies) \cup settled = 1 .. raised
  /\ Cardinality(settled) + Len(decisions) + Len(questions) + Len(discrepancies) = raised
  /\ settled \subseteq resolved \cup worded
=============================================================================
