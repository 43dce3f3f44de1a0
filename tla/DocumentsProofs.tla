--------------------------- MODULE DocumentsProofs ---------------------------
(***************************************************************************)
(* Proofs about Palette's documents.  For any number of items, phases and  *)
(* entries, an item in a phase is in an active one, and a matter that was  *)
(* raised is held by one entry until it is settled, which a decision is    *)
(* when it graduated or when its text reads as if.  For any project, any   *)
(* documents and any number of calls, a record is Superseded exactly when  *)
(* another names it as a whole, and every edit that was written is         *)
(* pending, landed or dropped.                                             *)
(***************************************************************************)
EXTENDS Backlog, Changesets, ListProofs

-----------------------------------------------------------------------------
(***************************************************************************)
(* The inductive invariant of the backlog.  Its lists are lists; the items *)
(* that are in a phase are in an active one; the entries of a section have *)
(* numbers and matters of their own; a matter is in one section or is      *)
(* settled; and a decision that reads as a pointer graduated or was worded *)
(* so, which is what a phase that closes may rely on.                      *)
(***************************************************************************)
Items ==
  [status : {"proposed", "approved", "in-phase", "done", "dropped"}, phase : Nat,
   deliverable : [phase : Nat, text : Int], depends : SUBSET Nat]
Entries == [number : Nat, matter : Nat, pointer : BOOLEAN]

ItemsType == items \in Seq(Items) /\ phases \in Seq({"active", "closed"})

OfItsOwn(section) ==
  /\ section \in Seq(Entries)
  /\ Numbered(section)
  /\ \A i, j \in DOMAIN section : section[i].matter = section[j].matter => i = j

OneHolder ==
  /\ Held(decisions) \cap Held(questions) = {}
  /\ Held(decisions) \cap Held(discrepancies) = {}
  /\ Held(questions) \cap Held(discrepancies) = {}
  /\ settled \cap (Held(decisions) \cup Held(questions) \cup Held(discrepancies)) = {}

\* The matters of the entries that read as a pointer.
Pointers(s) == {d.matter : d \in {e \in Range(s) : e.pointer}}

MInv ==
  /\ OfItsOwn(decisions) /\ OfItsOwn(questions) /\ OfItsOwn(discrepancies)
  /\ OneHolder
  /\ raised \in Nat /\ IsFiniteSet(settled)
  /\ Pointers(decisions) \subseteq resolved \cup worded
  /\ MattersKept

-----------------------------------------------------------------------------
(***************************************************************************)
(* Items and phases.                                                       *)
(***************************************************************************)
ItemsInv == ItemsType /\ ItemsInActivePhases

LEMMA NewItem == \A depends \in SUBSET Nat : Item(depends) \in Items
  BY DEF Item, Items, NoFile

\* One item changes, and is in an active phase if it is in one.
LEMMA ItemChanges ==
    ASSUME ItemsInv, NEW i \in DOMAIN items, NEW item \in Items,
           item.status = "in-phase" => Active(item.phase),
           items' = [items EXCEPT ![i] = item], UNCHANGED phases
    PROVE  ItemsInv'
  <1>1. items' \in Seq(Items) /\ Len(items') = Len(items)
        /\ \A j \in 1 .. Len(items) : items'[j] = IF j = i THEN item ELSE items[j]
    BY LenProperties, ExceptSeq DEF ItemsInv, ItemsType
  <1>2. DOMAIN items' = DOMAIN items /\ DOMAIN items = 1 .. Len(items)
    BY <1>1, LenProperties DEF ItemsInv, ItemsType
  <1>3. ItemsInActivePhases'
    BY <1>1, <1>2 DEF ItemsInv, ItemsInActivePhases, Active
  <1> QED
    BY <1>1, <1>3 DEF ItemsInv, ItemsType

LEMMA ItemCallsKeep ==
    ASSUME ItemsInv, ItemCalls
    PROVE  ItemsInv'
  <1>1. items \in Seq(Items) /\ DOMAIN items = 1 .. Len(items) /\ \A i \in DOMAIN items : items[i] \in Items
    BY LenProperties, ElementOfSeq DEF ItemsInv, ItemsType
  <1>2. ASSUME NEW depends \in SUBSET DOMAIN items, BacklogAdd(depends) PROVE ItemsInv'
    <2>1. Item(depends) \in Items /\ Item(depends).status = "proposed"
      BY <1>1, NewItem DEF Item
    <2>2. /\ items' \in Seq(Items) /\ Len(items') = Len(items) + 1
          /\ \A j \in 1 .. Len(items) : items'[j] = items[j]
          /\ items'[Len(items) + 1].status = "proposed"
      BY <1>1, <1>2, <2>1, AppendProperties DEF BacklogAdd
    <2>3. Len(items) \in Nat /\ DOMAIN items' = 1 .. Len(items) + 1
      BY <1>1, <2>2, LenProperties
    <2>4. ItemsInActivePhases'
      <3> SUFFICES ASSUME NEW j \in 1 .. Len(items) + 1, items'[j].status = "in-phase"
                   PROVE  items'[j].phase \in DOMAIN phases' /\ phases'[items'[j].phase] = "active"
        BY <2>3 DEF ItemsInActivePhases, Active
      <3>1. j \in 1 .. Len(items)
        BY <2>2, <2>3
      <3> QED
        BY <1>1, <1>2, <2>2, <3>1 DEF ItemsInv, ItemsInActivePhases, Active, BacklogAdd
    <2> QED
      BY <1>2, <2>2, <2>4 DEF ItemsInv, ItemsType, BacklogAdd
  <1>3. ASSUME NEW i \in DOMAIN items, NEW to \in {"approved", "in-phase", "done", "dropped"},
               NEW n \in 0 .. Len(phases), MoveItem(i, to, n)
        PROVE  ItemsInv'
    <2> DEFINE item == [items[i] EXCEPT !.status = to, !.phase = IF to = "in-phase" THEN n ELSE 0]
    <2>1. items[i] \in Items /\ n \in Nat
      BY <1>1, LenProperties DEF ItemsInv, ItemsType
    <2>2. item \in Items /\ item.status = to /\ (to = "in-phase" => item.phase = n /\ Active(n))
      BY <1>3, <2>1 DEF Items, MoveItem, CheckTransition
    <2>3. items' = [items EXCEPT ![i] = item] /\ UNCHANGED phases
      BY <1>1, <1>3 DEF MoveItem
    <2> QED
      BY <2>2, <2>3, ItemChanges
  <1>4. ASSUME NEW i \in DOMAIN items, NEW depends \in SUBSET DOMAIN items, RelateItem(i, depends)
        PROVE  ItemsInv'
    <2> DEFINE item == [items[i] EXCEPT !.depends = depends]
    <2>1. items[i] \in Items /\ depends \in SUBSET Nat
      BY <1>1
    <2>2. item \in Items /\ item.status = items[i].status /\ item.phase = items[i].phase
      BY <2>1 DEF Items
    <2>3. items' = [items EXCEPT ![i] = item] /\ UNCHANGED phases
      BY <1>1, <1>4 DEF RelateItem
    <2> QED
      BY <2>2, <2>3, ItemChanges DEF ItemsInv, ItemsInActivePhases
  <1>5. ASSUME NEW i \in DOMAIN items, DeliverableCreate(i) PROVE ItemsInv'
    <2> DEFINE item == [items[i] EXCEPT !.deliverable = [phase |-> items[i].phase, text |-> 1]]
    <2>1. item \in Items /\ item.status = items[i].status /\ item.phase = items[i].phase
      <3>1. items[i] \in Items /\ items[i].phase \in Nat
        BY <1>1 DEF Items
      <3>2. [phase |-> items[i].phase, text |-> 1] \in [phase : Nat, text : Int]
        BY <3>1
      <3> QED
        BY <3>1, <3>2 DEF Items
    <2>2. items' = [items EXCEPT ![i] = item] /\ UNCHANGED phases
      BY <1>1, <1>5 DEF DeliverableCreate
    <2> QED
      BY <2>1, <2>2, ItemChanges DEF ItemsInv, ItemsInActivePhases
  <1>6. ASSUME NEW i \in DOMAIN items, DeliverableUpdate(i) PROVE ItemsInv'
    <2> DEFINE item == [items[i] EXCEPT !.deliverable.text = 3 - @]
    <2>1. item \in Items /\ item.status = items[i].status /\ item.phase = items[i].phase
      <3>1. items[i] \in Items /\ items[i].deliverable \in [phase : Nat, text : Int]
        BY <1>1 DEF Items
      <3>2. [items[i].deliverable EXCEPT !.text = 3 - @] \in [phase : Nat, text : Int]
        BY <3>1
      <3> QED
        BY <3>1, <3>2 DEF Items
    <2>2. items' = [items EXCEPT ![i] = item] /\ UNCHANGED phases
      BY <1>1, <1>6 DEF DeliverableUpdate
    <2> QED
      BY <2>1, <2>2, ItemChanges DEF ItemsInv, ItemsInActivePhases
  <1> QED
    BY <1>2, <1>3, <1>4, <1>5, <1>6 DEF ItemCalls

LEMMA PhaseOpenKeeps ==
    ASSUME ItemsInv, NEW ids \in SUBSET DOMAIN items, PhaseOpen(ids)
    PROVE  ItemsInv'
  <1>0. PICK n \in Nat \ {0} : n = Len(phases) + 1
    BY LenProperties DEF ItemsInv, ItemsType
  <1>1. items \in Seq(Items) /\ DOMAIN items = 1 .. Len(items) /\ \A i \in DOMAIN items : items[i] \in Items
    BY LenProperties, ElementOfSeq DEF ItemsInv, ItemsType
  <1>2. /\ phases' \in Seq({"active", "closed"})
        /\ DOMAIN phases = 1 .. Len(phases) /\ DOMAIN phases' = 1 .. n
        /\ phases'[n] = "active" /\ \A m \in DOMAIN phases : phases'[m] = phases[m]
    <2>1. phases \in Seq({"active", "closed"}) /\ phases' = Append(phases, "active")
      BY DEF ItemsInv, ItemsType, PhaseOpen
    <2>2. /\ phases' \in Seq({"active", "closed"}) /\ Len(phases') = n
          /\ \A m \in 1 .. Len(phases) : phases'[m] = phases[m]
          /\ phases'[n] = "active"
      BY <1>0, <2>1, AppendProperties
    <2> QED
      BY <2>1, <2>2, LenProperties
  <1>3. \A m : Active(m) => Active(m)'
    BY <1>0, <1>2 DEF Active
  <1>4. Active(n)'
    BY <1>2 DEF Active
  <1>5. DOMAIN items' = DOMAIN items
        /\ \A i \in DOMAIN items :
             items'[i] = IF i \in ids THEN [items[i] EXCEPT !.status = "in-phase", !.phase = n] ELSE items[i]
    BY <1>0 DEF PhaseOpen
  <1>6. \A i \in DOMAIN items : items'[i] \in Items /\ (i \in ids => items'[i].phase = n)
    <2> SUFFICES ASSUME NEW i \in DOMAIN items
                 PROVE  items'[i] \in Items /\ (i \in ids => items'[i].phase = n)
      OBVIOUS
    <2>1. items[i] \in Items /\ n \in Nat
      BY <1>1
    <2>2. [items[i] EXCEPT !.status = "in-phase", !.phase = n] \in Items
          /\ [items[i] EXCEPT !.status = "in-phase", !.phase = n].phase = n
      BY <2>1 DEF Items
    <2> QED
      BY <1>5, <2>1, <2>2
  <1>7. items' \in Seq(Items)
    <2>1. items' \in [1 .. Len(items) -> Items] /\ Len(items) \in Nat
      BY <1>1, <1>5, <1>6, LenProperties DEF PhaseOpen
    <2> QED
      BY <2>1, SeqDef
  <1>8. ItemsInActivePhases'
    BY <1>3, <1>4, <1>5, <1>6 DEF ItemsInActivePhases, ItemsInv, Active
  <1> QED
    BY <1>2, <1>7, <1>8 DEF ItemsInv, ItemsType

LEMMA PhaseCloseKeeps ==
    ASSUME ItemsInv, NEW n \in DOMAIN phases, NEW new \in 0 .. 1,
           NEW done \in SUBSET InPhase(n), NEW gone \in SUBSET InPhase(n),
           PhaseClose(n, done, gone, new)
    PROVE  ItemsInv'
  <1> DEFINE result(i) == IF i \in done THEN "done" ELSE "dropped"
             old == [i \in DOMAIN items |->
                       IF i \in done \cup gone
                       THEN [items[i] EXCEPT !.status = result(i), !.phase = 0]
                       ELSE items[i]]
             added == [j \in 1 .. new |-> Item({})]
  <1>1. items \in Seq(Items) /\ DOMAIN items = 1 .. Len(items) /\ Len(items) \in Nat
        /\ \A i \in DOMAIN items : items[i] \in Items
    BY LenProperties, ElementOfSeq DEF ItemsInv, ItemsType
  <1>2. /\ phases' \in Seq({"active", "closed"}) /\ DOMAIN phases' = DOMAIN phases
        /\ \A m \in DOMAIN phases : m # n => phases'[m] = phases[m]
    <2>1. phases \in Seq({"active", "closed"}) /\ phases' = [phases EXCEPT ![n] = "closed"]
      BY DEF ItemsInv, ItemsType, PhaseClose
    <2>2. n \in 1 .. Len(phases)
      BY <2>1, LenProperties
    <2> QED
      BY <2>1, <2>2, ExceptSeq
  <1>3. \A m : m # n /\ Active(m) => Active(m)'
    BY <1>2 DEF Active
  <1>4. done \cup gone = InPhase(n) /\ items' = old \o added
    BY DEF PhaseClose, Results
  <1>5. \A i \in DOMAIN items :
           /\ old[i] \in Items
           /\ i \in InPhase(n) => old[i].status # "in-phase"
           /\ i \notin InPhase(n) => old[i] = items[i]
    BY <1>1, <1>4 DEF Items
  <1>6. old \in Seq(Items) /\ Len(old) = Len(items)
    <2>1. old = [i \in 1 .. Len(items) |-> old[i]]
      BY <1>1
    <2>2. \A i \in 1 .. Len(items) : old[i] \in Items
      BY <1>1, <1>5
    <2> HIDE DEF old
    <2> QED
      BY <1>1, <2>1, <2>2, ListOf
  <1>7. added \in Seq(Items) /\ Len(added) = new /\ \A j \in 1 .. new : added[j].status = "proposed"
    <2>1. Item({}) \in Items /\ Item({}).status = "proposed"
      BY NewItem DEF Item
    <2>2. added \in [1 .. new -> Items] /\ new \in Nat
      BY <2>1
    <2>3. added \in Seq(Items)
      BY <2>2, SeqDef
    <2>4. \A j \in 1 .. new : added[j].status = "proposed"
      BY <2>1
    <2> HIDE DEF added
    <2> QED
      BY <2>2, <2>3, <2>4, LenProperties
  <1> HIDE DEF old, added
  <1>8. items' \in Seq(Items) /\ DOMAIN items' = 1 .. Len(items) + new
        /\ \A i \in 1 .. Len(items) + new :
             items'[i] = IF i <= Len(items) THEN old[i] ELSE added[i - Len(items)]
    BY <1>4, <1>6, <1>7, ConcatProperties, LenProperties
  <1>9. ASSUME NEW i \in DOMAIN items', items'[i].status = "in-phase"
        PROVE  items'[i].phase \in DOMAIN phases' /\ phases'[items'[i].phase] = "active"
    <2>1. CASE i <= Len(items)
      <3>1. i \in DOMAIN items /\ items'[i] = old[i]
        BY <1>1, <1>8, <1>9, <2>1
      <3>2. i \notin InPhase(n) /\ items'[i] = items[i]
        BY <1>5, <1>9, <3>1
      <3>3. items[i].phase # n /\ Active(items[i].phase)
        BY <1>9, <3>1, <3>2 DEF InPhase, ItemsInv, ItemsInActivePhases
      <3> QED
        BY <1>3, <3>2, <3>3 DEF Active
    <2>2. CASE ~(i <= Len(items))
      <3>1. i - Len(items) \in 1 .. new /\ items'[i] = added[i - Len(items)]
        BY <1>1, <1>8, <1>9, <2>2
      <3> QED
        BY <1>7, <1>9, <3>1
    <2> QED
      BY <2>1, <2>2
  <1> QED
    BY <1>2, <1>8, <1>9 DEF ItemsInv, ItemsType, ItemsInActivePhases, Active

LEMMA ItemsStep == ItemsInv /\ [BacklogNext]_backlogVars => ItemsInv'
  <1> SUFFICES ASSUME ItemsInv, [BacklogNext]_backlogVars PROVE ItemsInv'
    OBVIOUS
  <1>1. CASE ItemCalls
    BY <1>1, ItemCallsKeep
  <1>2. CASE PhaseCalls
    BY <1>2, PhaseOpenKeeps, PhaseCloseKeeps DEF PhaseCalls
  <1>3. CASE EntryCalls
    <2>1. UNCHANGED <<items, phases>>
      BY <1>3 DEF EntryCalls, Record, Graduate, Answer, Withdraw, Fix
    <2> QED
      BY <2>1 DEF ItemsInv, ItemsType, ItemsInActivePhases, Active
  <1>4. CASE UNCHANGED backlogVars
    BY <1>4 DEF backlogVars, ItemsInv, ItemsType, ItemsInActivePhases, Active
  <1> QED
    BY <1>1, <1>2, <1>3, <1>4 DEF BacklogNext

(* An item that is in a phase is in an active one, in whatever order phases *)
(* are opened and closed and items moved (ops/backlog.rs phase_open,        *)
(* phase_close, backlog_update).                                            *)
THEOREM BacklogItemsInActivePhases == BacklogSpec => []ItemsInActivePhases
  <1>1. BacklogInit => ItemsInv
    BY EmptySeq DEF BacklogInit, ItemsInv, ItemsType, ItemsInActivePhases
  <1>2. ItemsInv /\ [BacklogNext]_backlogVars => ItemsInv'
    BY ItemsStep
  <1>3. ItemsInv => ItemsInActivePhases
    BY DEF ItemsInv
  <1> QED
    BY <1>1, <1>2, <1>3, PTL DEF BacklogSpec

-----------------------------------------------------------------------------
(***************************************************************************)
(* Entries and matters.                                                    *)
(***************************************************************************)
LEMMA SectionFacts ==
    ASSUME NEW s \in Seq(Entries)
    PROVE  /\ Len(s) \in Nat /\ DOMAIN s = 1 .. Len(s)
           /\ \A i \in DOMAIN s :
                /\ s[i] \in Entries /\ s[i].number \in Nat
                /\ s[i].matter \in Nat /\ s[i].pointer \in BOOLEAN
           /\ Held(s) = {s[i].matter : i \in DOMAIN s}
           /\ \A m : m \in Pointers(s) <=> \E i \in DOMAIN s : s[i].pointer /\ s[i].matter = m
  <1>1. Len(s) \in Nat /\ DOMAIN s = 1 .. Len(s) /\ \A i \in DOMAIN s : s[i] \in Entries
    BY LenProperties, ElementOfSeq
  <1>2. Held(s) = {s[i].matter : i \in DOMAIN s}
    BY DEF Held, Range
  <1>3. \A m : m \in Pointers(s) <=> \E i \in DOMAIN s : s[i].pointer /\ s[i].matter = m
    BY DEF Pointers, Range
  <1> QED
    BY <1>1, <1>2, <1>3 DEF Entries

\* The next number of a section is above those of its entries.
LEMMA NextIsAbove ==
    ASSUME NEW s \in Seq(Entries)
    PROVE  NextEntry(s) \in Nat /\ \A i \in DOMAIN s : s[i].number < NextEntry(s)
  <1> DEFINE numbers == {e.number : e \in Range(s)}
             f == [i \in 1 .. Len(s) |-> s[i].number]
  <1>1. Len(s) \in Nat /\ DOMAIN s = 1 .. Len(s) /\ \A i \in DOMAIN s : s[i].number \in Nat
    BY SectionFacts
  <1>2. f \in [1 .. Len(s) -> Nat] /\ Range(f) = numbers
    BY <1>1 DEF Range
  <1>3. IsFiniteSet(numbers)
    BY <1>1, <1>2, NumbersAreFinite
  <1>4. IsFiniteSet({0} \cup numbers)
    BY <1>3, FS_Union, FS_Singleton
  <1>5. numbers \in SUBSET Nat /\ \A i \in DOMAIN s : s[i].number \in numbers
    BY <1>1 DEF Range
  <1>6. NextEntry(s) = Max({0} \cup numbers) + 1
    BY DEF NextEntry
  <1> HIDE DEF numbers
  <1>7. PICK all : all = {0} \cup numbers
    OBVIOUS
  <1>8. all \in SUBSET Nat /\ all \in SUBSET Int /\ all # {} /\ IsFiniteSet(all)
    BY <1>4, <1>5, <1>7
  <1>9. Max(all) \in all /\ \A y \in all : y <= Max(all)
    BY <1>8, MaxIsGreatest
  <1>10. Max(all) \in Nat /\ NextEntry(s) = Max(all) + 1
    BY <1>6, <1>7, <1>8, <1>9
  <1>11. ASSUME NEW i \in DOMAIN s PROVE s[i].number < NextEntry(s)
    <2>1. s[i].number \in Nat /\ s[i].number <= Max(all)
      BY <1>1, <1>5, <1>7, <1>9
    <2> QED
      BY <1>10, <2>1
  <1> QED
    BY <1>10, <1>11

LEMMA EntryAdded ==
    ASSUME NEW s, OfItsOwn(s), NEW m \in Nat, m \notin Held(s), NEW w \in BOOLEAN
    PROVE  /\ OfItsOwn(Append(s, Entry(s, m, w)))
           /\ Held(Append(s, Entry(s, m, w))) = Held(s) \cup {m}
           /\ Len(Append(s, Entry(s, m, w))) = Len(s) + 1
           /\ \A n \in Pointers(Append(s, Entry(s, m, w))) : n \in Pointers(s) \/ (w /\ n = m)
  <1> DEFINE e == Entry(s, m, w)
             t == Append(s, e)
  <1>1. s \in Seq(Entries)
    BY DEF OfItsOwn
  <1>2. /\ Len(s) \in Nat /\ DOMAIN s = 1 .. Len(s)
        /\ \A i \in DOMAIN s : s[i].number \in Nat
        /\ \A i \in DOMAIN s : s[i].matter \in Held(s)
        /\ Held(s) = {s[i].matter : i \in DOMAIN s}
    BY <1>1, SectionFacts
  <1>3. e \in Entries /\ e.matter = m /\ e.number = NextEntry(s) /\ e.pointer = w
    BY <1>1, NextIsAbove DEF Entry, Entries
  <1>4. \A i \in DOMAIN s : s[i].number # e.number /\ s[i].matter # e.matter
    <2> SUFFICES ASSUME NEW i \in DOMAIN s PROVE s[i].number # e.number /\ s[i].matter # e.matter
      OBVIOUS
    <2>1. s[i].number < NextEntry(s) /\ NextEntry(s) \in Nat /\ s[i].number \in Nat
      BY <1>1, <1>2, NextIsAbove
    <2>2. s[i].number # NextEntry(s)
      BY <2>1
    <2> QED
      BY <1>2, <1>3, <2>2
  <1>5. t \in Seq(Entries) /\ Len(t) = Len(s) + 1 /\ t[Len(s) + 1] = e
        /\ \A i \in 1 .. Len(s) : t[i] = s[i]
    BY <1>1, <1>3, AppendProperties
  <1> HIDE DEF e, t
  <1>6. DOMAIN t = 1 .. Len(s) + 1
    BY <1>5, LenProperties
  <1>7. ASSUME NEW i \in DOMAIN t, NEW j \in DOMAIN t,
               t[i].number = t[j].number \/ t[i].matter = t[j].matter
        PROVE  i = j
    <2>1. CASE i \in DOMAIN s /\ j \in DOMAIN s
      BY <1>2, <1>5, <1>7, <2>1 DEF OfItsOwn, Numbered
    <2>2. i \in DOMAIN s \/ i = Len(s) + 1
      BY <1>2, <1>6
    <2>3. j \in DOMAIN s \/ j = Len(s) + 1
      BY <1>2, <1>6
    <2> QED
      BY <1>2, <1>4, <1>5, <1>7, <2>1, <2>2, <2>3
  <1>8. OfItsOwn(t)
    BY <1>5, <1>7 DEF OfItsOwn, Numbered
  <1>9. Held(t) = Held(s) \cup {m}
    <2>1. Held(t) = {t[i].matter : i \in DOMAIN t}
      BY <1>5, SectionFacts
    <2>2. ASSUME NEW i \in DOMAIN t PROVE t[i].matter \in Held(s) \cup {m}
      BY <1>2, <1>3, <1>5, <1>6
    <2>3. ASSUME NEW i \in DOMAIN s PROVE s[i].matter \in Held(t)
      BY <1>2, <1>5, <1>6, <2>1
    <2>4. m \in Held(t)
      <3>1. Len(s) + 1 \in DOMAIN t /\ t[Len(s) + 1].matter = m
        BY <1>2, <1>3, <1>5, <1>6
      <3> QED
        BY <2>1, <3>1
    <2> QED
      BY <1>2, <2>1, <2>2, <2>3, <2>4
  <1>10. ASSUME NEW n \in Pointers(t) PROVE n \in Pointers(s) \/ (w /\ n = m)
    <2>1. PICK i \in DOMAIN t : t[i].pointer /\ t[i].matter = n
      BY <1>5, SectionFacts
    <2>2. CASE i \in DOMAIN s
      BY <1>1, <1>2, <1>5, <2>1, <2>2, SectionFacts
    <2>3. CASE i = Len(s) + 1
      BY <1>3, <1>5, <2>1, <2>3
    <2> QED
      BY <1>2, <1>6, <2>2, <2>3
  <1> QED
    BY <1>5, <1>8, <1>9, <1>10 DEF t, e

\* A section of some of the entries of another, each once.
PartAt(s, t, at) ==
  /\ \A k, l \in 1 .. Len(t) : at[k] = at[l] => k = l
  /\ \A k \in 1 .. Len(t) : at[k] \in DOMAIN s /\ t[k] = s[at[k]]

LEMMA PartOfItsOwn ==
    ASSUME NEW s, OfItsOwn(s), NEW t \in Seq(Entries),
           NEW at, PartAt(s, t, at)
    PROVE  OfItsOwn(t) /\ \A m : m \in Held(t) <=> \E k \in 1 .. Len(t) : s[at[k]].matter = m
  <1>1. DOMAIN t = 1 .. Len(t) /\ Held(t) = {t[i].matter : i \in DOMAIN t}
    BY SectionFacts
  <1>2. ASSUME NEW i \in DOMAIN t, NEW j \in DOMAIN t,
               t[i].number = t[j].number \/ t[i].matter = t[j].matter
        PROVE  i = j
    <2>1. at[i] \in DOMAIN s /\ at[j] \in DOMAIN s /\ t[i] = s[at[i]] /\ t[j] = s[at[j]]
      BY <1>1 DEF PartAt
    <2>2. at[i] = at[j]
      BY <1>2, <2>1 DEF OfItsOwn, Numbered
    <2> QED
      BY <1>1, <2>2 DEF PartAt
  <1>3. \A m : m \in Held(t) <=> \E k \in 1 .. Len(t) : s[at[k]].matter = m
    BY <1>1 DEF PartAt
  <1> QED
    BY <1>1, <1>2, <1>3 DEF OfItsOwn, Numbered

LEMMA EntryRemoved ==
    ASSUME NEW s, OfItsOwn(s), NEW i \in DOMAIN s
    PROVE  /\ OfItsOwn(Without(s, i))
           /\ Held(Without(s, i)) = Held(s) \ {s[i].matter}
           /\ s[i].matter \in Held(s) /\ s[i].matter \in Nat
           /\ Len(Without(s, i)) = Len(s) - 1
  <1>0. PICK t : t = Without(s, i)
    OBVIOUS
  <1>1. s \in Seq(Entries)
    BY DEF OfItsOwn
  <1>2. /\ Len(s) \in Nat /\ DOMAIN s = 1 .. Len(s) /\ s[i].matter \in Nat
        /\ Held(s) = {s[j].matter : j \in DOMAIN s}
    BY <1>1, SectionFacts
  <1>3. /\ t \in Seq(Entries) /\ Len(t) = Len(s) - 1
        /\ \A k \in 1 .. Len(s) - 1 : t[k] = IF k < i THEN s[k] ELSE s[k + 1]
    BY <1>0, <1>1, RemoveAtFacts DEF Without
  <1>4. PICK at :
          \A k \in 1 .. Len(t) : at[k] = IF k < i THEN k ELSE k + 1
    <2>1. PICK a : a = [k \in 1 .. Len(t) |-> IF k < i THEN k ELSE k + 1]
      OBVIOUS
    <2>2. \A k \in 1 .. Len(t) : a[k] = IF k < i THEN k ELSE k + 1
      BY <2>1
    <2> QED
      BY <2>2
  <1>5. \A k, l \in 1 .. Len(t) : at[k] = at[l] => k = l
    BY <1>2, <1>3, <1>4
  <1>6. \A k \in 1 .. Len(t) : at[k] \in DOMAIN s /\ t[k] = s[at[k]]
    BY <1>2, <1>3, <1>4
  <1>7. ASSUME NEW j \in DOMAIN s, j # i PROVE \E k \in 1 .. Len(t) : at[k] = j
    <2>1. CASE j < i
      <3>1. j \in 1 .. Len(t) /\ at[j] = j
        BY <1>2, <1>3, <1>4, <2>1
      <3> QED
        BY <3>1
    <2>2. CASE ~(j < i)
      <3>1. j - 1 \in 1 .. Len(t) /\ at[j - 1] = j
        BY <1>2, <1>3, <1>4, <1>7, <2>2
      <3> QED
        BY <3>1
    <2> QED
      BY <2>1, <2>2
  <1>8. \A k \in 1 .. Len(t) : at[k] # i
    BY <1>2, <1>3, <1>4
  <1>9. OfItsOwn(t) /\ \A m : m \in Held(t) <=> \E k \in 1 .. Len(t) : s[at[k]].matter = m
    <2>1. t \in Seq(Entries)
      BY <1>3
    <2>2. PartAt(s, t, at)
      BY <1>5, <1>6 DEF PartAt
    <2> QED
      BY <2>1, <2>2, PartOfItsOwn
  <1>10. \A k \in 1 .. Len(t) : s[at[k]].matter # s[i].matter
    <2>1. \A k \in 1 .. Len(t) : at[k] \in DOMAIN s /\ at[k] # i
      BY <1>6, <1>8
    <2> QED
      BY <2>1 DEF OfItsOwn
  <1>11. Held(t) = Held(s) \ {s[i].matter}
    <2>1. ASSUME NEW m \in Held(t) PROVE m \in Held(s) /\ m # s[i].matter
      <3>1. PICK k \in 1 .. Len(t) : s[at[k]].matter = m
        BY <1>9
      <3> QED
        BY <1>2, <1>6, <1>10, <3>1
    <2>2. ASSUME NEW m \in Held(s), m # s[i].matter PROVE m \in Held(t)
      <3>1. PICK j \in DOMAIN s : s[j].matter = m
        BY <1>2
      <3>2. PICK k \in 1 .. Len(t) : at[k] = j
        BY <1>7, <2>2, <3>1
      <3> QED
        BY <1>9, <3>1, <3>2
    <2> QED
      BY <2>1, <2>2
  <1> QED
    BY <1>0, <1>2, <1>3, <1>9, <1>11

\* Graduating keeps the number and the matter.
LEMMA EntryGraduates ==
    ASSUME NEW s, OfItsOwn(s), NEW i \in DOMAIN s
    PROVE  LET t == [s EXCEPT ![i].pointer = TRUE]
           IN  /\ OfItsOwn(t) /\ Held(t) = Held(s) /\ Len(t) = Len(s)
               /\ Pointers(t) \subseteq Pointers(s) \cup {s[i].matter}
  <1> DEFINE e == [s[i] EXCEPT !.pointer = TRUE]
             t == [s EXCEPT ![i].pointer = TRUE]
  <1>1. s \in Seq(Entries)
    BY DEF OfItsOwn
  <1>2. /\ Len(s) \in Nat /\ DOMAIN s = 1 .. Len(s) /\ s[i] \in Entries
        /\ Held(s) = {s[j].matter : j \in DOMAIN s}
    BY <1>1, SectionFacts
  <1>3. e \in Entries /\ e.number = s[i].number /\ e.matter = s[i].matter
    BY <1>2 DEF Entries
  <1>4. t = [s EXCEPT ![i] = e]
    BY <1>1, <1>2
  <1>5. /\ t \in Seq(Entries) /\ Len(t) = Len(s)
        /\ \A j \in 1 .. Len(s) : t[j] = IF j = i THEN e ELSE s[j]
    BY <1>1, <1>2, <1>3, <1>4, ExceptSeq
  <1> HIDE DEF t, e
  <1>6. DOMAIN t = DOMAIN s /\ Held(t) = {t[j].matter : j \in DOMAIN t}
    BY <1>2, <1>5, SectionFacts
  <1>7. \A j \in DOMAIN s : t[j].number = s[j].number /\ t[j].matter = s[j].matter
    BY <1>2, <1>3, <1>5
  <1>8. OfItsOwn(t)
    BY <1>5, <1>6, <1>7 DEF OfItsOwn, Numbered
  <1>9. Held(t) = Held(s)
    BY <1>2, <1>6, <1>7
  <1>10. ASSUME NEW m \in Pointers(t) PROVE m \in Pointers(s) \cup {s[i].matter}
    <2>1. PICK j \in DOMAIN t : t[j].pointer /\ t[j].matter = m
      BY <1>5, SectionFacts
    <2>2. CASE j = i
      BY <1>6, <1>7, <2>1, <2>2
    <2>3. CASE j # i
      BY <1>1, <1>2, <1>5, <1>6, <2>1, <2>3, SectionFacts
    <2> QED
      BY <2>2, <2>3
  <1> QED
    BY <1>5, <1>8, <1>9, <1>10 DEF t

\* The pointers leave a section when a phase closes.
LEMMA PointersDropped ==
    ASSUME NEW s, OfItsOwn(s)
    PROVE  LET t == KeptAt(s, {i \in DOMAIN s : ~s[i].pointer})
           IN  /\ OfItsOwn(t)
               /\ Held(t) = Held(s) \ Pointers(s) /\ Pointers(s) \subseteq Held(s)
               /\ IsFiniteSet(Pointers(s)) /\ Len(s) = Len(t) + Cardinality(Pointers(s))
               /\ Pointers(t) = {}
  <1>0. PICK K, t : K = {i \in DOMAIN s : ~s[i].pointer} /\ t = KeptAt(s, K)
    OBVIOUS
  <1>1. s \in Seq(Entries) /\ K \in SUBSET DOMAIN s
    BY <1>0 DEF OfItsOwn
  <1>2. /\ Len(s) \in Nat /\ DOMAIN s = 1 .. Len(s)
        /\ \A i \in DOMAIN s : s[i].pointer \in BOOLEAN
        /\ Held(s) = {s[j].matter : j \in DOMAIN s}
    BY <1>1, SectionFacts
  <1>3. /\ t \in Seq(Entries) /\ IsFiniteSet(K) /\ Len(t) = Cardinality(K)
        /\ \A k \in 1 .. Len(t) : Nth(K, k) \in K /\ t[k] = s[Nth(K, k)]
        /\ \A k, l \in 1 .. Len(t) : Nth(K, k) = Nth(K, l) => k = l
        /\ \A i \in K : \E k \in 1 .. Len(t) : Nth(K, k) = i
    <2>1. /\ KeptAt(s, K) \in Seq(Entries) /\ IsFiniteSet(K)
          /\ Len(KeptAt(s, K)) = Cardinality(K)
          /\ \A k \in 1 .. Len(KeptAt(s, K)) : Nth(K, k) \in K /\ KeptAt(s, K)[k] = s[Nth(K, k)]
          /\ \A k, l \in 1 .. Len(KeptAt(s, K)) : Nth(K, k) = Nth(K, l) => k = l
          /\ \A i \in K : \E k \in 1 .. Len(KeptAt(s, K)) : Nth(K, k) = i
      BY <1>1, KeptAtFacts
    <2>2. t = KeptAt(s, K)
      BY <1>0
    <2> QED
      BY <2>1, <2>2
  <1>4. PICK at : \A k \in 1 .. Len(t) : at[k] = Nth(K, k)
    <2>1. PICK a : a = [k \in 1 .. Len(t) |-> Nth(K, k)]
      OBVIOUS
    <2>2. \A k \in 1 .. Len(t) : a[k] = Nth(K, k)
      BY <2>1
    <2> QED
      BY <2>2
  <1>5. OfItsOwn(t) /\ \A m : m \in Held(t) <=> \E k \in 1 .. Len(t) : s[at[k]].matter = m
    <2>1. PartAt(s, t, at)
      BY <1>1, <1>3, <1>4 DEF PartAt
    <2> QED
      BY <1>3, <2>1, PartOfItsOwn
  <1>6. \A m : m \in Held(t) <=> \E i \in K : s[i].matter = m
    BY <1>3, <1>4, <1>5
  <1>7. Pointers(s) = {s[i].matter : i \in DOMAIN s \ K}
    BY <1>0, <1>2 DEF Pointers, Range
  <1>8. Held(t) = Held(s) \ Pointers(s) /\ Pointers(s) \subseteq Held(s)
    <2>1. \A i \in DOMAIN s, j \in DOMAIN s : s[i].matter = s[j].matter => i = j
      BY DEF OfItsOwn
    <2>2. ASSUME NEW m \in Held(t) PROVE m \in Held(s) /\ m \notin Pointers(s)
      <3>1. PICK i \in K : s[i].matter = m
        BY <1>6
      <3> QED
        BY <1>1, <1>2, <1>7, <2>1, <3>1
    <2>3. ASSUME NEW m \in Held(s), m \notin Pointers(s) PROVE m \in Held(t)
      BY <1>2, <1>6, <1>7, <2>3
    <2> QED
      BY <1>2, <1>7, <2>2, <2>3
  <1>9. IsFiniteSet(Pointers(s)) /\ Cardinality(Pointers(s)) = Cardinality(DOMAIN s \ K)
    <2> DEFINE f == [i \in DOMAIN s \ K |-> s[i].matter]
    <2>1. f \in [DOMAIN s \ K -> Pointers(s)]
      BY <1>7
    <2>2. f \in Injection(DOMAIN s \ K, Pointers(s))
      BY <2>1 DEF OfItsOwn, Injection, IsInjective
    <2>3. f \in Surjection(DOMAIN s \ K, Pointers(s))
      BY <1>7, <2>1 DEF Surjection
    <2>4. IsFiniteSet(DOMAIN s \ K)
      <3>1. IsFiniteSet(1 .. Len(s))
        BY <1>2, FS_Interval
      <3> QED
        BY <1>2, <3>1, FS_Difference
    <2>5. f \in Bijection(DOMAIN s \ K, Pointers(s))
      BY <2>2, <2>3 DEF Bijection
    <2> QED
      BY <2>4, <2>5, FS_Bijection DEF ExistsBijection
  <1>10. Cardinality(DOMAIN s \ K) = Len(s) - Cardinality(K)
    <2>1. IsFiniteSet(1 .. Len(s)) /\ Cardinality(1 .. Len(s)) = Len(s)
      BY <1>2, FS_Interval
    <2>2. IsFiniteSet(DOMAIN s) /\ Cardinality(DOMAIN s) = Len(s)
      BY <1>2, <2>1
    <2>3. DOMAIN s \cap K = K
      BY <1>1
    <2>4. Cardinality(DOMAIN s \ K) = Cardinality(DOMAIN s) - Cardinality(DOMAIN s \cap K)
      BY <2>2, FS_Difference
    <2> QED
      BY <2>2, <2>3, <2>4
  <1>11. Len(s) = Len(t) + Cardinality(Pointers(s))
    BY <1>2, <1>3, <1>9, <1>10, FS_CardinalityType
  <1>12. Pointers(t) = {}
    <2>1. ASSUME NEW k \in DOMAIN t PROVE ~t[k].pointer
      <3>1. k \in 1 .. Len(t)
        BY <1>3, SectionFacts
      <3>2. Nth(K, k) \in K /\ t[k] = s[Nth(K, k)]
        BY <1>3, <3>1
      <3> QED
        BY <1>0, <3>2
    <2> QED
      BY <1>3, <2>1, SectionFacts
  <1> QED
    BY <1>0, <1>5, <1>8, <1>9, <1>11, <1>12

-----------------------------------------------------------------------------
LEMMA MattersStart == BacklogInit => MInv
  <1> SUFFICES ASSUME BacklogInit PROVE MInv
    OBVIOUS
  <1>1. decisions = <<>> /\ questions = <<>> /\ discrepancies = <<>> /\ raised = 0 /\ settled = {}
        /\ resolved = {} /\ worded = {}
    BY DEF BacklogInit
  <1>2. <<>> \in Seq(Entries) /\ Len(<<>>) = 0 /\ DOMAIN <<>> = {}
    BY EmptySeq
  <1>3. Held(<<>>) = {} /\ OfItsOwn(<<>>) /\ Pointers(<<>>) = {}
    BY <1>2 DEF Held, Range, OfItsOwn, Numbered, Pointers
  <1>4. IsFiniteSet({}) /\ Cardinality({}) = 0
    BY FS_EmptySet
  <1> QED
    BY <1>1, <1>2, <1>3, <1>4 DEF MInv, OneHolder, MattersKept, OfItsOwn

\* What the counts need of a state.
LEMMA MInvFacts ==
    ASSUME MInv
    PROVE  /\ OfItsOwn(decisions) /\ OfItsOwn(questions) /\ OfItsOwn(discrepancies)
           /\ Len(decisions) \in Nat /\ Len(questions) \in Nat /\ Len(discrepancies) \in Nat
           /\ Cardinality(settled) \in Nat /\ IsFiniteSet(settled) /\ raised \in Nat
           /\ Pointers(decisions) \subseteq resolved \cup worded /\ settled \subseteq resolved \cup worded
           /\ Held(decisions) \cup Held(questions) \cup Held(discrepancies) \cup settled = 1 .. raised
           /\ Cardinality(settled) + Len(decisions) + Len(questions) + Len(discrepancies) = raised
  BY FS_CardinalityType, LenProperties DEF MInv, MattersKept, OfItsOwn

\* A matter that leaves the document is settled.
LEMMA Settles ==
    ASSUME MInv, NEW m, m \notin settled
    PROVE  IsFiniteSet(settled \cup {m}) /\ Cardinality(settled \cup {m}) = Cardinality(settled) + 1
  BY FS_AddElement DEF MInv

LEMMA RecordKeeps ==
    ASSUME MInv, NEW kind \in {"decision", "question", "discrepancy"}, NEW reads \in BOOLEAN,
           Record(kind, reads)
    PROVE  MInv'
  <1>1. PICK m \in Nat : m = raised + 1
    BY MInvFacts
  <1>2. raised' = m /\ settled' = settled /\ resolved' = resolved
    BY <1>1 DEF Record
  <1>3. m \notin Held(decisions) \cup Held(questions) \cup Held(discrepancies) \cup settled
        /\ 1 .. m = 1 .. raised \cup {m}
    BY <1>1, MInvFacts
  <1>4. CASE kind = "decision"
    <2>1. /\ decisions' = Append(decisions, Entry(decisions, m, reads))
          /\ worded' = IF reads THEN worded \cup {m} ELSE worded
          /\ UNCHANGED <<questions, discrepancies>>
      BY <1>2, <1>4 DEF Record, Decide
    <2>2. /\ OfItsOwn(decisions') /\ Held(decisions') = Held(decisions) \cup {m}
          /\ Len(decisions') = Len(decisions) + 1
          /\ \A n \in Pointers(decisions') : n \in Pointers(decisions) \/ (reads /\ n = m)
      BY <1>3, <2>1, EntryAdded, MInvFacts
    <2>3. /\ Pointers(decisions') \subseteq resolved' \cup worded'
          /\ settled' \subseteq resolved' \cup worded'
      BY <1>2, <2>1, <2>2, MInvFacts
    <2>4. OneHolder'
      BY <1>2, <1>3, <2>1, <2>2 DEF MInv, OneHolder
    <2>5. Held(decisions') \cup Held(questions') \cup Held(discrepancies') \cup settled' = 1 .. raised'
      BY <1>2, <1>3, <2>1, <2>2, MInvFacts
    <2>6. Cardinality(settled') + Len(decisions') + Len(questions') + Len(discrepancies') = raised'
      BY <1>1, <1>2, <2>1, <2>2, MInvFacts
    <2>7. OfItsOwn(decisions') /\ OfItsOwn(questions') /\ OfItsOwn(discrepancies')
      BY <2>1, <2>2, MInvFacts
    <2>8. Numbered(decisions') /\ Numbered(questions') /\ Numbered(discrepancies')
      BY <2>7 DEF OfItsOwn
    <2>9. raised' \in Nat /\ IsFiniteSet(settled')
      BY <1>2, MInvFacts
    <2> QED
      BY <2>3, <2>4, <2>5, <2>6, <2>7, <2>8, <2>9 DEF MInv, MattersKept
  <1>5. CASE kind = "question"
    <2>1. /\ questions' = Append(questions, Entry(questions, m, FALSE))
          /\ UNCHANGED <<decisions, discrepancies, worded>>
      BY <1>2, <1>5 DEF Record
    <2>2. /\ OfItsOwn(questions') /\ Held(questions') = Held(questions) \cup {m}
          /\ Len(questions') = Len(questions) + 1
      BY <1>3, <2>1, EntryAdded, MInvFacts
    <2>3. /\ Pointers(decisions') \subseteq resolved' \cup worded'
          /\ settled' \subseteq resolved' \cup worded'
      BY <1>2, <2>1, MInvFacts
    <2>4. OneHolder'
      BY <1>2, <1>3, <2>1, <2>2 DEF MInv, OneHolder
    <2>5. Held(decisions') \cup Held(questions') \cup Held(discrepancies') \cup settled' = 1 .. raised'
      BY <1>2, <1>3, <2>1, <2>2, MInvFacts
    <2>6. Cardinality(settled') + Len(decisions') + Len(questions') + Len(discrepancies') = raised'
      BY <1>1, <1>2, <2>1, <2>2, MInvFacts
    <2>7. OfItsOwn(decisions') /\ OfItsOwn(questions') /\ OfItsOwn(discrepancies')
      BY <2>1, <2>2, MInvFacts
    <2>8. Numbered(decisions') /\ Numbered(questions') /\ Numbered(discrepancies')
      BY <2>7 DEF OfItsOwn
    <2>9. raised' \in Nat /\ IsFiniteSet(settled')
      BY <1>2, MInvFacts
    <2> QED
      BY <2>3, <2>4, <2>5, <2>6, <2>7, <2>8, <2>9 DEF MInv, MattersKept
  <1>6. CASE kind = "discrepancy"
    <2>1. /\ discrepancies' = Append(discrepancies, Entry(discrepancies, m, FALSE))
          /\ UNCHANGED <<decisions, questions, worded>>
      BY <1>2, <1>6 DEF Record
    <2>2. /\ OfItsOwn(discrepancies') /\ Held(discrepancies') = Held(discrepancies) \cup {m}
          /\ Len(discrepancies') = Len(discrepancies) + 1
      BY <1>3, <2>1, EntryAdded, MInvFacts
    <2>3. /\ Pointers(decisions') \subseteq resolved' \cup worded'
          /\ settled' \subseteq resolved' \cup worded'
      BY <1>2, <2>1, MInvFacts
    <2>4. OneHolder'
      BY <1>2, <1>3, <2>1, <2>2 DEF MInv, OneHolder
    <2>5. Held(decisions') \cup Held(questions') \cup Held(discrepancies') \cup settled' = 1 .. raised'
      BY <1>2, <1>3, <2>1, <2>2, MInvFacts
    <2>6. Cardinality(settled') + Len(decisions') + Len(questions') + Len(discrepancies') = raised'
      <3>1. /\ Cardinality(settled') = Cardinality(settled)
            /\ Len(decisions') = Len(decisions) /\ Len(questions') = Len(questions)
        BY <1>2, <2>1
      <3> QED
        BY <1>1, <1>2, <2>2, <3>1, MInvFacts
    <2>7. OfItsOwn(decisions') /\ OfItsOwn(questions') /\ OfItsOwn(discrepancies')
      BY <2>1, <2>2, MInvFacts
    <2>8. Numbered(decisions') /\ Numbered(questions') /\ Numbered(discrepancies')
      BY <2>7 DEF OfItsOwn
    <2>9. raised' \in Nat /\ IsFiniteSet(settled')
      BY <1>2, MInvFacts
    <2> QED
      BY <2>3, <2>4, <2>5, <2>6, <2>7, <2>8, <2>9 DEF MInv, MattersKept
  <1> QED
    BY <1>4, <1>5, <1>6

\* An entry is found in its section.
LEMMA FoundIsThere ==
    ASSUME NEW s, OfItsOwn(s), NEW number, NEW i \in Found(s, number)
    PROVE  i \in DOMAIN s
  <1> DEFINE at == {j \in DOMAIN s : s[j].number = number}
  <1>1. DOMAIN s \in SUBSET Nat
    BY LenProperties DEF OfItsOwn
  <1>2. at # {} /\ i = Min(at)
    BY DEF Found
  <1>3. at \in SUBSET Nat
    BY <1>1
  <1> HIDE DEF at
  <1>4. i \in at
    BY <1>2, <1>3, HasLeast
  <1> QED
    BY <1>4 DEF at

LEMMA GraduateKeeps ==
    ASSUME MInv, NEW number, Graduate(number)
    PROVE  MInv'
  <1>1. PICK i \in Found(decisions, number) :
          /\ decisions' = [decisions EXCEPT ![i].pointer = TRUE]
          /\ resolved' = resolved \cup {decisions[i].matter}
          /\ UNCHANGED <<questions, discrepancies, raised, settled, worded>>
    BY DEF Graduate
  <1>2. i \in DOMAIN decisions
    BY FoundIsThere, MInvFacts
  <1>3. OfItsOwn(decisions') /\ Held(decisions') = Held(decisions) /\ Len(decisions') = Len(decisions)
        /\ Pointers(decisions') \subseteq Pointers(decisions) \cup {decisions[i].matter}
    BY <1>1, <1>2, EntryGraduates, MInvFacts
  <1> QED
    BY <1>1, <1>3, MInvFacts DEF MInv, OneHolder, MattersKept, OfItsOwn

LEMMA AnswerKeeps ==
    ASSUME MInv, NEW number, NEW reads \in BOOLEAN, Answer(number, reads)
    PROVE  MInv'
  <1>1. PICK i \in Found(questions, number) :
          /\ questions' = Without(questions, i)
          /\ decisions' = Append(decisions, Entry(decisions, questions[i].matter, reads))
          /\ worded' = IF reads THEN worded \cup {questions[i].matter} ELSE worded
          /\ UNCHANGED <<discrepancies, raised, settled, resolved>>
    BY DEF Answer, Decide
  <1>2. i \in DOMAIN questions
    BY FoundIsThere, MInvFacts
  <1>3. PICK m : m = questions[i].matter
    OBVIOUS
  <1>4. /\ OfItsOwn(questions') /\ Held(questions') = Held(questions) \ {m}
        /\ m \in Held(questions) /\ m \in Nat /\ Len(questions') = Len(questions) - 1
    BY <1>1, <1>2, <1>3, EntryRemoved, MInvFacts
  <1>5. m \notin Held(decisions) /\ m \notin Held(discrepancies) /\ m \notin settled
    BY <1>4 DEF MInv, OneHolder
  <1>6. /\ OfItsOwn(decisions') /\ Held(decisions') = Held(decisions) \cup {m}
        /\ Len(decisions') = Len(decisions) + 1
        /\ \A n \in Pointers(decisions') : n \in Pointers(decisions) \/ (reads /\ n = m)
    <2>1. decisions' = Append(decisions, Entry(decisions, m, reads))
      BY <1>1, <1>3
    <2>2. OfItsOwn(decisions)
      BY MInvFacts
    <2> QED
      BY <1>4, <1>5, <2>1, <2>2, EntryAdded
  <1>10. /\ Pointers(decisions') \subseteq resolved' \cup worded'
         /\ settled' \subseteq resolved' \cup worded'
    BY <1>1, <1>3, <1>6, MInvFacts
  <1>7. OneHolder'
    BY <1>1, <1>4, <1>5, <1>6 DEF MInv, OneHolder
  <1>8. Held(decisions') \cup Held(questions') \cup Held(discrepancies') \cup settled' = 1 .. raised
    BY <1>1, <1>3, <1>4, <1>6, MInvFacts
  <1>9. Cardinality(settled') + Len(decisions') + Len(questions') + Len(discrepancies') = raised
    BY <1>1, <1>3, <1>4, <1>6, MInvFacts
  <1> QED
    BY <1>1, <1>3, <1>4, <1>6, <1>7, <1>8, <1>9, <1>10, MInvFacts DEF MInv, MattersKept, OfItsOwn

LEMMA WithdrawKeeps ==
    ASSUME MInv, NEW number, Withdraw(number)
    PROVE  MInv'
  <1>1. PICK i \in Found(questions, number) :
          /\ questions' = Without(questions, i)
          /\ settled' = settled \cup {questions[i].matter}
          /\ resolved' = resolved \cup {questions[i].matter}
          /\ UNCHANGED <<decisions, discrepancies, raised, worded>>
    BY DEF Withdraw
  <1>2. i \in DOMAIN questions
    BY FoundIsThere, MInvFacts
  <1>3. PICK m : m = questions[i].matter
    OBVIOUS
  <1>4. /\ OfItsOwn(questions') /\ Held(questions') = Held(questions) \ {m}
        /\ m \in Held(questions) /\ Len(questions') = Len(questions) - 1
    BY <1>1, <1>2, <1>3, EntryRemoved, MInvFacts
  <1>5. m \notin Held(decisions) /\ m \notin Held(discrepancies) /\ m \notin settled
    BY <1>4 DEF MInv, OneHolder
  <1>6. IsFiniteSet(settled') /\ Cardinality(settled') = Cardinality(settled) + 1
    BY <1>1, <1>3, <1>5, Settles
  <1>7. OneHolder'
    BY <1>1, <1>3, <1>4, <1>5 DEF MInv, OneHolder
  <1>8. Held(decisions') \cup Held(questions') \cup Held(discrepancies') \cup settled' = 1 .. raised
    BY <1>1, <1>3, <1>4, <1>6, MInvFacts
  <1>9. Cardinality(settled') + Len(decisions') + Len(questions') + Len(discrepancies') = raised
    BY <1>1, <1>3, <1>4, <1>6, MInvFacts
  <1> QED
    BY <1>1, <1>3, <1>4, <1>6, <1>7, <1>8, <1>9, MInvFacts DEF MInv, MattersKept, OfItsOwn

LEMMA FixKeeps ==
    ASSUME MInv, NEW number, Fix(number)
    PROVE  MInv'
  <1>1. PICK i \in Found(discrepancies, number) :
          /\ discrepancies' = Without(discrepancies, i)
          /\ settled' = settled \cup {discrepancies[i].matter}
          /\ resolved' = resolved \cup {discrepancies[i].matter}
          /\ UNCHANGED <<decisions, questions, raised, worded>>
    BY DEF Fix
  <1>2. i \in DOMAIN discrepancies
    BY FoundIsThere, MInvFacts
  <1>3. PICK m : m = discrepancies[i].matter
    OBVIOUS
  <1>4. /\ OfItsOwn(discrepancies') /\ Held(discrepancies') = Held(discrepancies) \ {m}
        /\ m \in Held(discrepancies) /\ Len(discrepancies') = Len(discrepancies) - 1
    BY <1>1, <1>2, <1>3, EntryRemoved, MInvFacts
  <1>5. m \notin Held(decisions) /\ m \notin Held(questions) /\ m \notin settled
    BY <1>4 DEF MInv, OneHolder
  <1>6. IsFiniteSet(settled') /\ Cardinality(settled') = Cardinality(settled) + 1
    BY <1>1, <1>3, <1>5, Settles
  <1>7. OneHolder'
    BY <1>1, <1>3, <1>4, <1>5 DEF MInv, OneHolder
  <1>8. Held(decisions') \cup Held(questions') \cup Held(discrepancies') \cup settled' = 1 .. raised
    BY <1>1, <1>3, <1>4, <1>6, MInvFacts
  <1>9. Cardinality(settled') + Len(decisions') + Len(questions') + Len(discrepancies') = raised
    BY <1>1, <1>3, <1>4, <1>6, MInvFacts
  <1> QED
    BY <1>1, <1>3, <1>4, <1>6, <1>7, <1>8, <1>9, MInvFacts DEF MInv, MattersKept, OfItsOwn

\* The decisions that graduated leave the document together.
LEMMA DropPointersKeeps ==
    ASSUME MInv, DropPointers, UNCHANGED <<questions, discrepancies, raised, resolved, worded>>
    PROVE  MInv'
  <1>1. PICK gone : gone = Pointers(decisions)
    OBVIOUS
  <1>2. settled' = settled \cup gone
    BY <1>1 DEF DropPointers, Pointers
  <1>3. /\ OfItsOwn(decisions') /\ Held(decisions') = Held(decisions) \ gone
        /\ gone \subseteq Held(decisions)
        /\ IsFiniteSet(gone) /\ Len(decisions) = Len(decisions') + Cardinality(gone)
        /\ Pointers(decisions') = {}
    BY <1>1, PointersDropped, MInvFacts DEF DropPointers
  <1>4. settled \cap gone = {}
    BY <1>3 DEF MInv, OneHolder
  <1>5. IsFiniteSet(settled') /\ Cardinality(settled') = Cardinality(settled) + Cardinality(gone)
    <2>1. IsFiniteSet(settled \cup gone)
          /\ Cardinality(settled \cup gone) = Cardinality(settled) + Cardinality(gone) - Cardinality(settled \cap gone)
      BY <1>3, FS_Union, MInvFacts
    <2>2. Cardinality(settled \cap gone) = 0 /\ Cardinality(gone) \in Nat
      BY <1>3, <1>4, FS_EmptySet, FS_CardinalityType
    <2> QED
      BY <1>2, <2>1, <2>2, MInvFacts
  <1>6. OneHolder'
    BY <1>2, <1>3, <1>4 DEF MInv, OneHolder
  <1>7. Len(decisions') \in Nat /\ Cardinality(gone) \in Nat
    BY <1>3, LenProperties, FS_CardinalityType DEF OfItsOwn
  <1>8. Held(decisions') \cup Held(questions) \cup Held(discrepancies) \cup settled' = 1 .. raised
    BY <1>2, <1>3, MInvFacts
  <1>9. Cardinality(settled') + Len(decisions') + Len(questions) + Len(discrepancies) = raised
    BY <1>3, <1>5, <1>7, MInvFacts
  <1>10. /\ Pointers(decisions') \subseteq resolved' \cup worded'
         /\ settled' \subseteq resolved' \cup worded'
    BY <1>1, <1>2, <1>3, MInvFacts
  <1> QED
    BY <1>3, <1>5, <1>6, <1>8, <1>9, <1>10 DEF MInv, MattersKept, OfItsOwn

LEMMA MattersStep == MInv /\ [BacklogNext]_backlogVars => MInv'
  <1> SUFFICES ASSUME MInv, [BacklogNext]_backlogVars PROVE MInv'
    OBVIOUS
  <1>1. CASE UNCHANGED entries
    BY <1>1 DEF entries, MInv, OneHolder, MattersKept, OfItsOwn, Numbered, Held, Pointers
  <1>2. CASE ItemCalls
    <2>1. UNCHANGED entries
      BY <1>2 DEF ItemCalls, BacklogAdd, MoveItem, RelateItem, DeliverableCreate, DeliverableUpdate
    <2> QED
      BY <1>1, <2>1
  <1>3. CASE PhaseCalls
    <2>1. CASE \E ids \in SUBSET DOMAIN items : PhaseOpen(ids)
      BY <1>1, <2>1 DEF PhaseOpen
    <2>2. CASE \E n \in DOMAIN phases, new \in 0 .. 1 :
                 \E done \in SUBSET InPhase(n), gone \in SUBSET InPhase(n) :
                    PhaseClose(n, done, gone, new)
      BY <2>2, DropPointersKeeps DEF PhaseClose
    <2> QED
      BY <1>3, <2>1, <2>2 DEF PhaseCalls
  <1>4. CASE EntryCalls
    BY <1>4, RecordKeeps, GraduateKeeps, AnswerKeeps, WithdrawKeeps, FixKeeps DEF EntryCalls
  <1>5. CASE UNCHANGED backlogVars
    BY <1>1, <1>5 DEF backlogVars, entries
  <1> QED
    BY <1>2, <1>3, <1>4, <1>5 DEF BacklogNext

(* A matter that was raised is held by exactly one entry until it is        *)
(* settled; what is settled was graduated, withdrawn or fixed, or is a      *)
(* decision in the words of a pointer; and no two entries of a section have *)
(* the same number, after any number of records, answers, removals and      *)
(* closed phases (ops/state.rs).                                            *)
THEOREM BacklogMattersKept == BacklogSpec => []MattersKept
  <1>1. BacklogInit => MInv
    BY MattersStart
  <1>2. MInv /\ [BacklogNext]_backlogVars => MInv'
    BY MattersStep
  <1>3. MInv => MattersKept
    BY DEF MInv
  <1> QED
    BY <1>1, <1>2, <1>3, PTL DEF BacklogSpec


-----------------------------------------------------------------------------
(***************************************************************************)
(* The inductive invariant of the records: what a record supersedes are    *)
(* records, and NamedRight.  A new record has a number of its own, so      *)
(* nothing names it yet.                                                   *)
(***************************************************************************)
Ids == {RFC, ADR} \X Nat

RecordsType ==
  /\ DOMAIN recs \subseteq Ids /\ IsFiniteSet(DOMAIN recs)
  /\ recs \in [DOMAIN recs -> RecordsAmong(DOMAIN recs)]

RecordsInv == RecordsType /\ SupersededIsNamed

LEMMA NumbersAreNew ==
    ASSUME RecordsType, NEW kind \in {RFC, ADR}
    PROVE  <<kind, NextNumber(kind)>> \in Ids \ DOMAIN recs
  <1> DEFINE Own == {x \in DOMAIN recs : x[1] = kind}
             Numbers == {0} \cup {r[2] : r \in Own}
  <1>1. \A r \in DOMAIN recs : r \in Ids /\ r = <<r[1], r[2]>> /\ r[2] \in Nat
    BY DEF RecordsType, Ids
  <1>2. IsFiniteSet(Numbers)
    <2>1. IsFiniteSet(Own)
      BY FS_Subset DEF RecordsType
    <2>2. [r \in Own |-> r[2]] \in Surjection(Own, {r[2] : r \in Own})
      BY DEF Surjection
    <2>3. IsFiniteSet({r[2] : r \in Own})
      BY <2>1, <2>2, FS_Surjection
    <2> QED
      BY <2>3, FS_AddElement
  <1>3. Numbers \in SUBSET Int /\ Numbers # {} /\ \A n \in Numbers : n \in Nat
    BY <1>1
  <1>4. PICK m : m = Max(Numbers)
    OBVIOUS
  <1>5. m \in Nat /\ \A n \in Numbers : n <= m
    BY <1>2, <1>3, <1>4, MaxIsGreatest
  <1>6. NextNumber(kind) = m + 1
    BY <1>4 DEF NextNumber
  <1>7. <<kind, m + 1>> \notin DOMAIN recs
    <2> SUFFICES ASSUME <<kind, m + 1>> \in DOMAIN recs PROVE FALSE
      OBVIOUS
    <2>1. <<kind, m + 1>>[1] = kind /\ <<kind, m + 1>>[2] = m + 1
      OBVIOUS
    <2>2. m + 1 \in Numbers
      BY <2>1
    <2> QED
      BY <1>5, <2>2
  <1> QED
    BY <1>5, <1>6, <1>7 DEF Ids

(* What a relation change asks for: the records R become S, where id names  *)
(* more than it did, or is new, and the records it newly names are marked.  *)
LEMMA NamesMore ==
    ASSUME RecordsInv, NEW id \in Ids, NEW named \in SUBSET DOMAIN recs, NEW whole,
           id \notin named,
           DOMAIN recs' = DOMAIN recs \cup {id},
           whole \subseteq DOMAIN recs \ {id},
           recs' \in [DOMAIN recs' -> RecordsAmong(DOMAIN recs')],
           recs'[id].whole = whole,
           id \in DOMAIN recs => /\ recs[id].whole \subseteq whole
                                 /\ named = whole \ recs[id].whole
                                 /\ recs'[id].status = "Superseded" <=> recs[id].status = "Superseded",
           id \notin DOMAIN recs => named = whole /\ recs'[id].status # "Superseded",
           \A r \in DOMAIN recs \ {id} :
             /\ recs'[r].whole = recs[r].whole
             /\ recs'[r].status = IF r \in named THEN "Superseded" ELSE recs[r].status
    PROVE  RecordsInv'
  <1>1. RecordsType'
    <2>1. IsFiniteSet(DOMAIN recs \cup {id})
      BY FS_AddElement DEF RecordsInv, RecordsType
    <2> QED
      BY <2>1 DEF RecordsInv, RecordsType
  <1>2. \A r \in DOMAIN recs : recs[r].whole \subseteq DOMAIN recs
    BY DEF RecordsInv, RecordsType, RecordsAmong
  <1>3. ASSUME NEW r \in DOMAIN recs'
        PROVE  recs'[r].status = "Superseded" <=> \E n \in DOMAIN recs' : r \in recs'[n].whole
    <2>1. \A s \in DOMAIN recs : recs[s].status = "Superseded" <=> \E n \in DOMAIN recs : s \in recs[n].whole
      BY DEF RecordsInv, SupersededIsNamed, NamedRight, WhollySupersededBy
    <2>2. CASE r # id
      <3>1. r \in DOMAIN recs
        BY <2>2
      <3>2. recs'[r].status = "Superseded" <=> r \in named \/ recs[r].status = "Superseded"
        BY <2>2, <3>1
      <3>3. (\E n \in DOMAIN recs' : r \in recs'[n].whole)
             <=> r \in whole \/ \E n \in DOMAIN recs \ {id} : r \in recs[n].whole
        OBVIOUS
      <3>4. CASE id \in DOMAIN recs
        BY <2>1, <3>1, <3>2, <3>3, <3>4
      <3>5. CASE id \notin DOMAIN recs
        BY <2>1, <3>1, <3>2, <3>3, <3>5
      <3> QED
        BY <3>4, <3>5
    <2>3. CASE r = id
      <3>1. (\E n \in DOMAIN recs' : id \in recs'[n].whole)
             <=> \E n \in DOMAIN recs \ {id} : id \in recs[n].whole
        OBVIOUS
      <3>2. CASE id \in DOMAIN recs
        BY <2>1, <2>3, <3>1, <3>2
      <3>3. CASE id \notin DOMAIN recs
        BY <1>2, <2>3, <3>1, <3>3
      <3> QED
        BY <3>2, <3>3
    <2> QED
      BY <2>2, <2>3
  <1>4. SupersededIsNamed'
    BY <1>3 DEF SupersededIsNamed, NamedRight, WhollySupersededBy
  <1> QED
    BY <1>1, <1>4 DEF RecordsInv


LEMMA CreateKeepsRecords ==
    ASSUME RecordsInv, NEW kind \in {RFC, ADR}, NEW depends \in SUBSET DOMAIN recs,
           NEW whole \in SUBSET DOMAIN recs, RecordCreate(kind, depends, whole)
    PROVE  RecordsInv'
  <1>1. PICK id, new : /\ id = <<kind, NextNumber(kind)>>
                       /\ new = [status |-> "Draft", impl |-> "open", depends |-> depends,
                                 whole |-> whole]
    OBVIOUS
  <1>2. id \in Ids \ DOMAIN recs
    BY <1>1, NumbersAreNew DEF RecordsInv
  <1>3. recs' = Holding(Marked(recs, whole), id, new)
    BY <1>1 DEF RecordCreate
  <1>4. /\ DOMAIN recs' = DOMAIN recs \cup {id}
        /\ recs' = [r \in DOMAIN recs' |-> recs'[r]]
        /\ recs'[id] = new
        /\ \A r \in DOMAIN recs :
             recs'[r] = IF r \in whole THEN [recs[r] EXCEPT !.status = "Superseded"] ELSE recs[r]
    BY <1>2, <1>3 DEF Marked, Holding
  <1>5. \A r \in DOMAIN recs : recs[r] \in RecordsAmong(DOMAIN recs)
    BY DEF RecordsInv, RecordsType
  <1>6. new \in RecordsAmong(DOMAIN recs') /\ new.whole = whole /\ new.status # "Superseded"
    BY <1>1, <1>4 DEF RecordsAmong
  <1>7. ASSUME NEW r \in DOMAIN recs
        PROVE  /\ recs'[r] \in RecordsAmong(DOMAIN recs')
               /\ recs'[r].whole = recs[r].whole
               /\ recs'[r].status = IF r \in whole THEN "Superseded" ELSE recs[r].status
    BY <1>4, <1>5 DEF RecordsAmong
  <1>8. recs' \in [DOMAIN recs' -> RecordsAmong(DOMAIN recs')]
    BY <1>4, <1>6, <1>7
  <1> QED
    BY <1>2, <1>4, <1>6, <1>7, <1>8, NamesMore

LEMMA UpdateKeepsRecords ==
    ASSUME RecordsInv, NEW id \in DOMAIN recs, NEW to \in StatusMoves(recs[id].status),
           NEW depends \in SUBSET DOMAIN recs, NEW whole \in SUBSET DOMAIN recs,
           RecordUpdate(id, to, depends, whole)
    PROVE  RecordsInv'
  <1>1. PICK old, named, new :
          /\ old = recs[id] /\ named = whole \ old.whole
          /\ new = [old EXCEPT !.status = to, !.depends = depends, !.whole = whole]
    OBVIOUS
  <1>2. /\ old.whole \subseteq whole
        /\ recs' = [Marked(recs, named) EXCEPT ![id] = new]
        /\ Clean({id} \cup Fresh(named), {})
    BY <1>1 DEF RecordUpdate
  <1>3. \A r \in DOMAIN recs : recs[r] \in RecordsAmong(DOMAIN recs)
    BY DEF RecordsInv, RecordsType
  <1>4. /\ DOMAIN recs' = DOMAIN recs
        /\ recs' = [r \in DOMAIN recs' |-> recs'[r]]
        /\ recs'[id] = new
        /\ \A r \in DOMAIN recs \ {id} :
             recs'[r] = IF r \in named THEN [recs[r] EXCEPT !.status = "Superseded"] ELSE recs[r]
    BY <1>2 DEF Marked
  <1>5. to \in {"Draft", "Proposed", "Accepted", "Rejected", "Withdrawn", "Superseded"}
        /\ (to = "Superseded" <=> old.status = "Superseded")
    <2>1. old.status \in {"Draft", "Proposed", "Accepted", "Rejected", "Withdrawn", "Superseded"}
      BY <1>1, <1>3 DEF RecordsAmong
    <2>2. to \in StatusMoves(old.status)
      BY <1>1
    <2> QED
      BY <2>1, <2>2 DEF StatusMoves
  <1>6. new \in RecordsAmong(DOMAIN recs') /\ new.whole = whole /\ new.status = to
    <2>1. old \in RecordsAmong(DOMAIN recs)
      BY <1>1, <1>3
    <2> QED
      BY <1>1, <1>4, <1>5, <2>1 DEF RecordsAmong
  <1>7. ASSUME NEW r \in DOMAIN recs \ {id}
        PROVE  /\ recs'[r] \in RecordsAmong(DOMAIN recs')
               /\ recs'[r].whole = recs[r].whole
               /\ recs'[r].status = IF r \in named THEN "Superseded" ELSE recs[r].status
    BY <1>3, <1>4 DEF RecordsAmong
  <1>8. recs' \in [DOMAIN recs' -> RecordsAmong(DOMAIN recs')]
    BY <1>4, <1>6, <1>7
  <1>9. id \notin whole
    <2>1. LinksToOlder(recs', id)
      BY <1>2 DEF Clean, RecordClean
    <2> QED
      BY <1>4, <1>6, <2>1 DEF LinksToOlder, Links
  <1>10. id \in Ids /\ id \notin named /\ named \in SUBSET DOMAIN recs
    BY <1>1, <1>9 DEF RecordsInv, RecordsType
  <1>11. DOMAIN recs' = DOMAIN recs \cup {id} /\ whole \subseteq DOMAIN recs \ {id}
    BY <1>4, <1>9
  <1>12. /\ recs'[id].whole = whole /\ recs[id].whole \subseteq whole
         /\ named = whole \ recs[id].whole
         /\ recs'[id].status = "Superseded" <=> recs[id].status = "Superseded"
    BY <1>1, <1>2, <1>4, <1>5, <1>6
  <1> QED
    <2>1. \A r \in DOMAIN recs \ {id} :
            /\ recs'[r].whole = recs[r].whole
            /\ recs'[r].status = IF r \in named THEN "Superseded" ELSE recs[r].status
      BY <1>7
    <2>2. id \in DOMAIN recs => /\ recs[id].whole \subseteq whole
                                /\ named = whole \ recs[id].whole
                                /\ recs'[id].status = "Superseded" <=> recs[id].status = "Superseded"
      BY <1>12
    <2>3. id \notin DOMAIN recs => named = whole /\ recs'[id].status # "Superseded"
      OBVIOUS
    <2>4. recs'[id].whole = whole
      BY <1>12
    <2> QED
      BY ONLY RecordsInv, <1>8, <1>10, <1>11, <2>1, <2>2, <2>3, <2>4, NamesMore

\* Only a record's implementation changes.
LEMMA SettlesRecord ==
    ASSUME RecordsInv, NEW id \in DOMAIN recs, NEW impl \in {"open", "partial", "complete"},
           NEW new, new = [recs[id] EXCEPT !.impl = impl],
           recs' = [recs EXCEPT ![id] = new]
    PROVE  RecordsInv'
  <1>1. \A r \in DOMAIN recs : recs[r] \in RecordsAmong(DOMAIN recs)
    BY DEF RecordsInv, RecordsType
  <1>2. new \in RecordsAmong(DOMAIN recs) /\ new.whole = recs[id].whole /\ new.status = recs[id].status
    BY <1>1 DEF RecordsAmong
  <1>3. /\ DOMAIN recs' = DOMAIN recs
        /\ recs' \in [DOMAIN recs -> RecordsAmong(DOMAIN recs)]
        /\ \A r \in DOMAIN recs : recs'[r].whole = recs[r].whole /\ recs'[r].status = recs[r].status
    BY <1>1, <1>2 DEF RecordsInv, RecordsType
  <1> QED
    BY <1>3 DEF RecordsInv, RecordsType, SupersededIsNamed, NamedRight, WhollySupersededBy

LEMMA RefreshKeepsRecords ==
    ASSUME RecordsInv, NEW id \in DOMAIN recs, NEW given \in {"none", "open", "partial", "complete"},
           RecordRefresh(id, given)
    PROVE  RecordsInv'
  <1>1. PICK impl : impl = IF given # "none" THEN given
                           ELSE IF EditsOf(sets, id) # <<>> THEN "partial" ELSE "complete"
    OBVIOUS
  <1>2. impl \in {"open", "partial", "complete"}
    BY <1>1
  <1>3. recs[id] \in RecordsAmong(DOMAIN recs) /\ recs \in [DOMAIN recs -> RecordsAmong(DOMAIN recs)]
    BY DEF RecordsInv, RecordsType
  <1>4. WhollySupersededBy(recs, id) # {} => recs[id].status = "Superseded"
    BY DEF RecordsInv, SupersededIsNamed, NamedRight
  <1>5. recs' = [recs EXCEPT ![id].impl = impl,
                             ![id].status = IF WhollySupersededBy(recs, id) # {} THEN "Superseded" ELSE @]
    BY <1>1 DEF RecordRefresh
  <1>6. recs' = [recs EXCEPT ![id] = [recs[id] EXCEPT !.impl = impl]]
    BY <1>3, <1>4, <1>5 DEF RecordsAmong
  <1> QED
    BY <1>2, <1>6, SettlesRecord

LEMMA PromoteKeepsRecords ==
    ASSUME RecordsInv, NEW id \in DOMAIN recs, NEW sel, ChangesetPromote(id, sel)
    PROVE  RecordsInv'
  <1>1. PICK impl : impl = IF Len(sel) = Len(EditsOf(sets, id)) THEN "complete" ELSE "partial"
    OBVIOUS
  <1>2. impl \in {"open", "partial", "complete"}
    BY <1>1
  <1>3. recs' = [recs EXCEPT ![id].impl = impl]
    BY <1>1 DEF ChangesetPromote
  <1>4. recs' = [recs EXCEPT ![id] = [recs[id] EXCEPT !.impl = impl]]
    BY <1>3
  <1> QED
    BY <1>2, <1>4, SettlesRecord

LEMMA RecordsStep == RecordsInv /\ [RecordNext]_recordVars => RecordsInv'
  <1> SUFFICES ASSUME RecordsInv, [RecordNext]_recordVars PROVE RecordsInv'
    OBVIOUS
  <1>1. ASSUME recs' = recs PROVE RecordsInv'
    BY <1>1 DEF RecordsInv, RecordsType, SupersededIsNamed
  <1>2. ASSUME NEW id \in DOMAIN recs, NEW action, NEW edit, ChangesetEdit(id, action, edit)
        PROVE  RecordsInv'
    BY <1>1, <1>2 DEF ChangesetEdit, Written
  <1>3. CASE UNCHANGED recordVars
    BY <1>1, <1>3 DEF recordVars
  <1> QED
    BY <1>2, <1>3, CreateKeepsRecords, UpdateKeepsRecords, RefreshKeepsRecords,
       PromoteKeepsRecords DEF RecordNext

(* docs/spec/palette-server.rst:119-120, for any project lint finds right:  *)
(* through every order of creating, superseding, rejecting, clarifying and  *)
(* refreshing records, one is Superseded exactly when another names it as a *)
(* whole (mark_superseded, ops/records.rs).                                 *)
THEOREM ChangesetsSupersededIsNamed == RecordSpec => []SupersededIsNamed
  <1>1. RecordInit => RecordsInv
    <2> SUFFICES ASSUME RecordInit PROVE RecordsInv
      OBVIOUS
    <2>1. PICK p \in Projects : recs = p.recs
      BY DEF RecordInit
    <2> QED
      BY <2>1, ProjectsAssumption DEF RecordsInv, RecordsType, Ids, SupersededIsNamed
  <1>2. RecordsInv => SupersededIsNamed
    BY DEF RecordsInv
  <1> QED
    BY <1>1, <1>2, RecordsStep, PTL DEF RecordSpec


-----------------------------------------------------------------------------
(***************************************************************************)
(* The inductive invariant of the changesets: they are lists of edits with *)
(* numbers, and a number is in one place of one of them.                   *)
(***************************************************************************)
Edits == {Holding(edit, "text", n) : edit \in Inputs, n \in Nat}

EditsType ==
  /\ sets = [id \in DOMAIN sets |-> sets[id]] /\ \A id \in DOMAIN sets : sets[id] \in Seq(Edits)
  /\ texts \in Nat /\ landed \in Seq(Nat)

OnePlaceEach ==
  \A a, b \in DOMAIN sets : \A i \in DOMAIN sets[a], j \in DOMAIN sets[b] :
    sets[a][i].text = sets[b][j].text => a = b /\ i = j

EditsInv == EditsType /\ OnePlaceEach /\ EditsAccountedFor

TextsOf(es) == {es[i].text : i \in DOMAIN es}

LEMMA EditNumber ==
    ASSUME NEW edit \in Inputs, NEW n \in Nat
    PROVE  Holding(edit, "text", n) \in Edits /\ Holding(edit, "text", n).text = n
  BY DEF Edits, Holding

LEMMA EditsHaveNumbers == \A e \in Edits : e.text \in Nat
  <1> SUFFICES ASSUME NEW e \in Edits PROVE e.text \in Nat
    OBVIOUS
  <1>1. PICK edit \in Inputs, n \in Nat : e = Holding(edit, "text", n)
    BY DEF Edits
  <1> QED
    BY <1>1, EditNumber

LEMMA TextsAgain == \A es : {e.text : e \in Range(es)} = TextsOf(es)
  BY DEF TextsOf, Range

\* What is pending, by record; and the changeset of a record, written or not.
LEMMA PendingTexts ==
    ASSUME EditsType
    PROVE  /\ Pending = UNION {TextsOf(sets[id]) : id \in DOMAIN sets}
           /\ Pending = {n \in Nat : \E id \in DOMAIN sets : \E i \in DOMAIN sets[id] : n = sets[id][i].text}
           /\ \A id : EditsOf(sets, id) \in Seq(Edits) /\ TextsOf(EditsOf(sets, id)) \subseteq Pending
  <1>1. \A id \in DOMAIN sets : \A i \in DOMAIN sets[id] : sets[id][i] \in Edits /\ sets[id][i].text \in Nat
    BY ElementOfSeq, LenProperties, EditsHaveNumbers DEF EditsType
  <1>3. Pending = UNION {TextsOf(sets[id]) : id \in DOMAIN sets}
    BY TextsAgain DEF Pending
  <1>4. Pending = {n \in Nat : \E id \in DOMAIN sets : \E i \in DOMAIN sets[id] : n = sets[id][i].text}
    BY <1>1, <1>3 DEF TextsOf
  <1>5. ASSUME NEW id
        PROVE  EditsOf(sets, id) \in Seq(Edits) /\ TextsOf(EditsOf(sets, id)) \subseteq Pending
    <2>1. CASE id \in DOMAIN sets
      BY <1>3, <2>1 DEF EditsOf, EditsType
    <2>2. CASE id \notin DOMAIN sets
      BY <2>2, EmptySeq DEF EditsOf, TextsOf
    <2> QED
      BY <2>1, <2>2
  <1> QED
    BY <1>3, <1>4, <1>5

(* The changeset es of id becomes t: no number of t is in another           *)
(* changeset, and t has each of its numbers once.                           *)
LEMMA ChangesetBecomes ==
    ASSUME EditsType, OnePlaceEach, NEW id, NEW es, es = EditsOf(sets, id),
           NEW t \in Seq(Edits),
           \A i, j \in DOMAIN t : t[i].text = t[j].text => i = j,
           TextsOf(t) \cap (Pending \ TextsOf(es)) = {},
           sets' = IF t = <<>> THEN Restrict(sets, DOMAIN sets \ {id}) ELSE Holding(sets, id, t)
    PROVE  /\ sets' = [o \in DOMAIN sets' |-> sets'[o]]
           /\ \A o \in DOMAIN sets' : sets'[o] \in Seq(Edits)
           /\ OnePlaceEach'
           /\ Pending' = (Pending \ TextsOf(es)) \cup TextsOf(t)
  <1>1. /\ DOMAIN sets' = (IF t = <<>> THEN DOMAIN sets \ {id} ELSE DOMAIN sets \cup {id})
        /\ sets' = [o \in DOMAIN sets' |-> sets'[o]]
        /\ \A o \in DOMAIN sets' : sets'[o] = IF o = id THEN t ELSE sets[o]
    BY DEF Restrict, Holding
  <1>2. \A o \in DOMAIN sets' : sets'[o] \in Seq(Edits)
    BY <1>1 DEF EditsType
  <1>3. /\ Pending = UNION {TextsOf(sets[o]) : o \in DOMAIN sets}
        /\ \A o \in DOMAIN sets : TextsOf(sets[o]) \subseteq Pending
    BY PendingTexts
  <1>4. \A o \in DOMAIN sets \ {id} : TextsOf(sets[o]) \cap TextsOf(es) = {}
    BY DEF OnePlaceEach, TextsOf, EditsOf
  <1>5. ASSUME NEW a \in DOMAIN sets', NEW b \in DOMAIN sets',
               NEW i \in DOMAIN sets'[a], NEW j \in DOMAIN sets'[b],
               sets'[a][i].text = sets'[b][j].text
        PROVE  a = b /\ i = j
    <2>1. CASE a # id /\ b # id
      <3>1. a \in DOMAIN sets /\ b \in DOMAIN sets /\ sets'[a] = sets[a] /\ sets'[b] = sets[b]
        BY <1>1, <2>1
      <3> QED
        BY <1>5, <3>1 DEF OnePlaceEach
    <2>2. CASE a = id /\ b = id
      BY <1>1, <1>5, <2>2
    <2>3. CASE a = id /\ b # id
      <3>1. b \in DOMAIN sets \ {id} /\ sets'[b] = sets[b] /\ sets'[a] = t
        BY <1>1, <2>3
      <3>2. sets[b][j].text \in TextsOf(sets[b]) /\ t[i].text \in TextsOf(t)
        BY <3>1 DEF TextsOf
      <3> QED
        BY <1>3, <1>4, <1>5, <3>1, <3>2
    <2>4. CASE a # id /\ b = id
      <3>1. a \in DOMAIN sets \ {id} /\ sets'[a] = sets[a] /\ sets'[b] = t
        BY <1>1, <2>4
      <3>2. sets[a][i].text \in TextsOf(sets[a]) /\ t[j].text \in TextsOf(t)
        BY <3>1 DEF TextsOf
      <3> QED
        BY <1>3, <1>4, <1>5, <3>1, <3>2
    <2> QED
      BY <2>1, <2>2, <2>3, <2>4
  <1>6. OnePlaceEach'
    BY <1>5 DEF OnePlaceEach
  <1>7. PICK S : S = sets'
    OBVIOUS
  <1>8. t = <<>> => TextsOf(t) = {}
    BY DEF TextsOf
  <1>9. TextsOf(es) = IF id \in DOMAIN sets THEN TextsOf(sets[id]) ELSE {}
    BY DEF EditsOf, TextsOf
  <1>10. PICK rest : rest = UNION {TextsOf(sets[o]) : o \in DOMAIN sets \ {id}}
    OBVIOUS
  <1>11. rest = Pending \ TextsOf(es)
    BY <1>3, <1>4, <1>9, <1>10
  <1>12. Pending' = UNION {TextsOf(S[o]) : o \in DOMAIN S}
    <2>1. Pending' = UNION {{e.text : e \in Range(S[o])} : o \in DOMAIN S}
      BY <1>7 DEF Pending
    <2> QED
      BY <2>1, TextsAgain
  <1>13. UNION {TextsOf(S[o]) : o \in DOMAIN S} = rest \cup TextsOf(t)
    <2>1. \A o \in DOMAIN S : TextsOf(S[o]) = IF o = id THEN TextsOf(t) ELSE TextsOf(sets[o])
      BY <1>1, <1>7
    <2>2. DOMAIN S = IF t = <<>> THEN DOMAIN sets \ {id} ELSE DOMAIN sets \cup {id}
      BY <1>1, <1>7
    <2>3. CASE t = <<>>
      BY <1>8, <1>10, <2>1, <2>2, <2>3
    <2>4. CASE t # <<>>
      <3>1. id \in DOMAIN S /\ TextsOf(S[id]) = TextsOf(t)
        BY <2>1, <2>2, <2>4
      <3>2. \A o : o \in DOMAIN S \ {id} <=> o \in DOMAIN sets \ {id}
        BY <2>2, <2>4
      <3>3. \A o \in DOMAIN S \ {id} : TextsOf(S[o]) = TextsOf(sets[o])
        BY <2>1
      <3>4. ASSUME NEW n
            PROVE  (\E o \in DOMAIN S : n \in TextsOf(S[o])) <=> n \in rest \/ n \in TextsOf(t)
        BY <1>10, <3>1, <3>2, <3>3
      <3> QED
        BY <3>4
    <2> QED
      BY <2>3, <2>4
  <1>14. Pending' = (Pending \ TextsOf(es)) \cup TextsOf(t)
    <2>1. Pending' = rest \cup TextsOf(t)
      BY <1>12, <1>13
    <2> QED
      BY <1>11, <2>1
  <1> QED
    BY <1>1, <1>2, <1>6, <1>14


(* A changeset is written: what is gone from it is dropped, and what is new *)
(* is the edit the call brings, under the next number.                      *)
LEMMA WrittenKeeps ==
    ASSUME EditsInv, NEW id, NEW es, es = EditsOf(sets, id),
           NEW t \in Seq(Edits), NEW e, NEW gone \in SUBSET TextsOf(es), NEW new,
           \A i, j \in DOMAIN t : t[i].text = t[j].text => i = j,
           TextsOf(t) = (TextsOf(es) \ gone) \cup new,
           new = IF e \in Range(t) THEN {texts + 1} ELSE {},
           Written(id, t, e, gone)
    PROVE  EditsInv'
  <1>1. EditsType /\ OnePlaceEach /\ EditsAccountedFor /\ texts \in Nat
    BY DEF EditsInv, EditsType
  <1>2. /\ Pending \cup Range(landed) \cup dropped = 1 .. texts
        /\ Pending \cap Range(landed) = {}
        /\ (Pending \cup Range(landed)) \cap dropped = {}
        /\ IsInjective(landed)
    BY <1>1 DEF EditsAccountedFor
  <1>3. TextsOf(es) \subseteq Pending
    BY <1>1, PendingTexts
  <1>4. new \cap 1 .. texts = {}
    BY <1>1
  <1>5. /\ sets' = IF t = <<>> THEN Restrict(sets, DOMAIN sets \ {id}) ELSE Holding(sets, id, t)
        /\ texts' = texts + (IF e \in Range(t) THEN 1 ELSE 0)
        /\ dropped' = dropped \cup gone /\ landed' = landed
    BY DEF Written
  <1>6. TextsOf(t) \cap (Pending \ TextsOf(es)) = {}
    BY <1>2, <1>4
  <1>7. /\ sets' = [o \in DOMAIN sets' |-> sets'[o]]
        /\ \A o \in DOMAIN sets' : sets'[o] \in Seq(Edits)
        /\ OnePlaceEach'
        /\ Pending' = (Pending \ TextsOf(es)) \cup TextsOf(t)
    BY <1>1, <1>5, <1>6, ChangesetBecomes
  <1>8. 1 .. texts' = 1 .. texts \cup new /\ texts' \in Nat
    BY <1>1, <1>5
  <1>9. Pending' = (Pending \ gone) \cup new
    BY <1>3, <1>7
  <1>10. EditsType'
    BY <1>1, <1>5, <1>7, <1>8 DEF EditsType
  <1>11. EditsAccountedFor'
    <2>1. Pending' \cup Range(landed') \cup dropped' = 1 .. texts'
      BY <1>2, <1>3, <1>5, <1>8, <1>9
    <2>2. Pending' \cap Range(landed') = {}
      BY <1>2, <1>4, <1>5, <1>9
    <2>3. (Pending' \cup Range(landed')) \cap dropped' = {}
      BY <1>2, <1>3, <1>4, <1>5, <1>9
    <2>4. IsInjective(landed')
      BY <1>2, <1>5
    <2> QED
      BY <2>1, <2>2, <2>3, <2>4 DEF EditsAccountedFor
  <1> QED
    BY <1>7, <1>10, <1>11 DEF EditsInv

LEMMA EditKeeps ==
    ASSUME EditsInv, NEW id, NEW action, NEW edit \in Inputs, ChangesetEdit(id, action, edit)
    PROVE  EditsInv'
  <1>1. PICK es, e : es = EditsOf(sets, id) /\ e = Holding(edit, "text", texts + 1)
    OBVIOUS
  <1>2. /\ es \in Seq(Edits) /\ TextsOf(es) \subseteq Pending
        /\ Len(es) \in Nat /\ DOMAIN es = 1 .. Len(es)
    BY <1>1, PendingTexts, LenProperties DEF EditsInv
  <1>3. e \in Edits /\ e.text = texts + 1 /\ texts \in Nat
    <2>1. texts \in Nat /\ texts + 1 \in Nat
      BY DEF EditsInv, EditsType
    <2> QED
      BY <1>1, <2>1, EditNumber
  <1>4. \A i, j \in DOMAIN es : es[i].text = es[j].text => i = j
    <2>1. CASE id \in DOMAIN sets
      BY <1>1, <2>1 DEF EditsInv, OnePlaceEach, EditsOf
    <2>2. CASE id \notin DOMAIN sets
      BY <1>1, <2>2 DEF EditsOf
    <2> QED
      BY <2>1, <2>2
  <1>5. \A i \in DOMAIN es : es[i].text \in TextsOf(es) /\ es[i].text # texts + 1
    <2>1. Pending \subseteq 1 .. texts
      BY DEF EditsInv, EditsAccountedFor
    <2>2. \A i \in DOMAIN es : es[i].text \in TextsOf(es)
      BY DEF TextsOf
    <2> QED
      BY <1>2, <1>3, <2>1, <2>2
  <1>6. ASSUME Written(id, Append(es, e), e, {}) PROVE EditsInv'
    <2>1. PICK t : t = Append(es, e)
      OBVIOUS
    <2>2. /\ t \in Seq(Edits) /\ Len(t) = Len(es) + 1 /\ DOMAIN t = 1 .. Len(es) + 1
          /\ \A i \in 1 .. Len(es) : t[i] = es[i]
          /\ t[Len(es) + 1] = e
      BY <1>2, <1>3, <2>1, AppendProperties, LenProperties
    <2>3. \A i, j \in DOMAIN t : t[i].text = t[j].text => i = j
      BY <1>2, <1>3, <1>4, <1>5, <2>2
    <2>4. TextsOf(t) = TextsOf(es) \cup {texts + 1}
      <3>1. ASSUME NEW n PROVE (\E i \in DOMAIN t : n = t[i].text)
                               <=> (\E i \in DOMAIN es : n = es[i].text) \/ n = texts + 1
        BY <1>2, <1>3, <2>2
      <3> QED
        BY <3>1 DEF TextsOf
    <2>5. e \in Range(t)
      BY <1>2, <2>2 DEF Range
    <2> QED
      <3>1. PICK gone, new : gone = {} /\ new = {texts + 1}
        OBVIOUS
      <3>2. gone \in SUBSET TextsOf(es) /\ new = IF e \in Range(t) THEN {texts + 1} ELSE {}
        BY <2>5, <3>1
      <3>3. TextsOf(t) = (TextsOf(es) \ gone) \cup new
        BY <2>4, <3>1
      <3>4. Written(id, t, e, gone)
        BY <1>6, <2>1, <3>1
      <3>5. /\ t \in Seq(Edits) /\ es = EditsOf(sets, id)
            /\ \A i1, j1 \in DOMAIN t : t[i1].text = t[j1].text => i1 = j1
        BY <1>1, <2>2, <2>3
      <3> QED
        BY ONLY EditsInv, <3>2, <3>3, <3>4, <3>5, WrittenKeeps
  <1>7. ASSUME NEW i \in DOMAIN es, Written(id, [es EXCEPT ![i] = e], e, {es[i].text})
        PROVE  EditsInv'
    <2>1. PICK t : t = [es EXCEPT ![i] = e]
      OBVIOUS
    <2>2. /\ t \in Seq(Edits) /\ Len(t) = Len(es) /\ DOMAIN t = DOMAIN es
          /\ \A j \in DOMAIN es : t[j] = IF j = i THEN e ELSE es[j]
      BY <1>2, <1>3, <2>1, ExceptSeq, LenProperties
    <2>3. \A j, k \in DOMAIN t : t[j].text = t[k].text => j = k
      BY <1>3, <1>4, <1>5, <2>2
    <2>4. TextsOf(t) = (TextsOf(es) \ {es[i].text}) \cup {texts + 1}
      <3>1. ASSUME NEW n PROVE (\E j \in DOMAIN t : n = t[j].text)
                               <=> \/ (\E j \in DOMAIN es : n = es[j].text) /\ n # es[i].text
                                   \/ n = texts + 1
        BY <1>3, <1>4, <2>2
      <3> QED
        BY <3>1 DEF TextsOf
    <2>5. e \in Range(t) /\ {es[i].text} \in SUBSET TextsOf(es)
      BY <1>5, <2>2 DEF Range
    <2> QED
      <3>1. PICK gone, new : gone = {es[i].text} /\ new = {texts + 1}
        OBVIOUS
      <3>2. gone \in SUBSET TextsOf(es) /\ new = IF e \in Range(t) THEN {texts + 1} ELSE {}
        BY <2>5, <3>1
      <3>3. TextsOf(t) = (TextsOf(es) \ gone) \cup new
        BY <2>4, <3>1
      <3>4. Written(id, t, e, gone)
        BY <1>7, <2>1, <3>1
      <3>5. /\ t \in Seq(Edits) /\ es = EditsOf(sets, id)
            /\ \A i1, j1 \in DOMAIN t : t[i1].text = t[j1].text => i1 = j1
        BY <1>1, <2>2, <2>3
      <3> QED
        BY ONLY EditsInv, <3>2, <3>3, <3>4, <3>5, WrittenKeeps
  <1>8. ASSUME NEW i \in DOMAIN es, Written(id, RemoveAt(es, i), e, {es[i].text})
        PROVE  EditsInv'
    <2>1. PICK t : t = RemoveAt(es, i)
      OBVIOUS
    <2>2. /\ t \in Seq(Edits) /\ DOMAIN t = 1 .. Len(es) - 1
          /\ \A k \in 1 .. Len(es) - 1 : t[k] = IF k < i THEN es[k] ELSE es[k + 1]
      <3>1. /\ t \in Seq(Edits) /\ Len(t) = Len(es) - 1
            /\ \A k \in 1 .. Len(es) - 1 : t[k] = IF k < i THEN es[k] ELSE es[k + 1]
        BY <1>2, <2>1, RemoveAtFacts
      <3> QED
        BY <3>1, LenProperties
    <2>3. \A k \in DOMAIN t : \E j \in DOMAIN es \ {i} : j = (IF k < i THEN k ELSE k + 1) /\ t[k] = es[j]
      BY <1>2, <2>2
    <2>4. \A j \in DOMAIN es \ {i} : \E k \in DOMAIN t : j = (IF k < i THEN k ELSE k + 1)
      <3> SUFFICES ASSUME NEW j \in DOMAIN es \ {i} PROVE \E k \in DOMAIN t : j = (IF k < i THEN k ELSE k + 1)
        OBVIOUS
      <3>1. CASE j < i
        BY <1>2, <2>2, <3>1
      <3>2. CASE ~(j < i)
        <4>1. j - 1 \in DOMAIN t /\ ~(j - 1 < i) /\ j = j - 1 + 1
          BY <1>2, <2>2, <3>2
        <4> QED
          BY <4>1
      <3> QED
        BY <3>1, <3>2
    <2>5. \A j, k \in DOMAIN t : t[j].text = t[k].text => j = k
      <3> SUFFICES ASSUME NEW j \in DOMAIN t, NEW k \in DOMAIN t, t[j].text = t[k].text PROVE j = k
        OBVIOUS
      <3>1. (IF j < i THEN j ELSE j + 1) = (IF k < i THEN k ELSE k + 1)
        BY <1>4, <2>3
      <3> QED
        BY <1>2, <2>2, <3>1
    <2>6. TextsOf(t) = TextsOf(es) \ {es[i].text}
      <3>1. ASSUME NEW n PROVE (\E j \in DOMAIN t : n = t[j].text)
                               <=> (\E j \in DOMAIN es : n = es[j].text) /\ n # es[i].text
        BY <1>4, <2>3, <2>4
      <3> QED
        BY <3>1 DEF TextsOf
    <2>7. e \notin Range(t) /\ {es[i].text} \in SUBSET TextsOf(es)
      BY <1>3, <1>5, <2>3 DEF Range
    <2> QED
      <3>1. PICK gone, new : gone = {es[i].text} /\ new = {}
        OBVIOUS
      <3>2. gone \in SUBSET TextsOf(es) /\ new = IF e \in Range(t) THEN {texts + 1} ELSE {}
        BY <2>7, <3>1
      <3>3. TextsOf(t) = (TextsOf(es) \ gone) \cup new
        BY <2>6, <3>1
      <3>4. Written(id, t, e, gone)
        BY <1>8, <2>1, <3>1
      <3>5. /\ t \in Seq(Edits) /\ es = EditsOf(sets, id)
            /\ \A i1, j1 \in DOMAIN t : t[i1].text = t[j1].text => i1 = j1
        BY <1>1, <2>2, <2>5
      <3> QED
        BY ONLY EditsInv, <3>2, <3>3, <3>4, <3>5, WrittenKeeps
  <1> QED
    BY <1>1, <1>6, <1>7, <1>8 DEF ChangesetEdit, Place


(* What a promotion leaves: the edits with the other numbers.  As many      *)
(* different edits as there are, are all of them.                           *)
LEMMA RemainingTexts ==
    ASSUME NEW es \in Seq(Edits), \A i, j \in DOMAIN es : es[i].text = es[j].text => i = j,
           NEW n \in Nat, NEW sel \in [1 .. n -> Range(es)], IsInjective(sel)
    PROVE  LET t == Remaining(es, sel)
           IN  /\ t \in Seq(Edits)
               /\ \A i, j \in DOMAIN t : t[i].text = t[j].text => i = j
               /\ TextsOf(t) = TextsOf(es) \ TextsOf(sel)
  <1>1. /\ Len(es) \in Nat /\ DOMAIN es = 1 .. Len(es) /\ \A i \in DOMAIN es : es[i] \in Edits
    BY LenProperties, ElementOfSeq
  <1>2. Range(es) = {es[i] : i \in DOMAIN es} /\ Range(sel) \subseteq Range(es)
    BY DEF Range
  <1>3. sel \in Seq(Range(es)) /\ Len(sel) = n
    BY SeqDef, LenProperties
  <1>4. \A e, f \in Range(es) : e.text = f.text => e = f
    BY <1>2
  <1>5. CASE Len(sel) = Len(es)
    <2>1. es \in Surjection(1 .. n, Range(es))
      BY <1>1, <1>2, <1>3, <1>5 DEF Surjection
    <2>2. IsFiniteSet(1 .. n) /\ Cardinality(1 .. n) = n
      BY FS_Interval
    <2>3. IsFiniteSet(Range(es)) /\ Cardinality(Range(es)) <= n
      BY <2>1, <2>2, FS_Surjection
    <2>4. sel \in Injection(1 .. n, Range(es))
      BY DEF Injection
    <2>5. n <= Cardinality(Range(es)) /\ (n = Cardinality(Range(es)) => sel \in Surjection(1 .. n, Range(es)))
      BY <2>2, <2>3, <2>4, FS_Injection
    <2>6. \A i \in DOMAIN es : \E j \in DOMAIN sel : sel[j] = es[i]
      <3>1. n = Cardinality(Range(es))
        BY <2>3, <2>5, FS_CardinalityType
      <3> QED
        BY <1>2, <2>5, <3>1 DEF Surjection
    <2>7. TextsOf(es) \ TextsOf(sel) = {}
      BY <2>6 DEF TextsOf
    <2>8. Remaining(es, sel) = <<>> /\ TextsOf(<<>>) = {} /\ <<>> \in Seq(Edits)
      BY <1>5 DEF Remaining, TextsOf
    <2> QED
      BY <2>7, <2>8
  <1>6. CASE Len(sel) # Len(es)
    <2>1. PICK K, t : K = {i \in DOMAIN es : es[i] \notin Range(sel)} /\ t = KeptAt(es, K)
      OBVIOUS
    <2>2. /\ t \in Seq(Edits)
          /\ \A k \in 1 .. Len(t) : Nth(K, k) \in K /\ t[k] = es[Nth(K, k)]
          /\ \A k, l \in 1 .. Len(t) : Nth(K, k) = Nth(K, l) => k = l
          /\ \A i \in K : \E k \in 1 .. Len(t) : Nth(K, k) = i
      <3>1. K \in SUBSET DOMAIN es
        BY <2>1
      <3>2. /\ KeptAt(es, K) \in Seq(Edits)
            /\ \A k \in 1 .. Len(KeptAt(es, K)) : Nth(K, k) \in K /\ KeptAt(es, K)[k] = es[Nth(K, k)]
            /\ \A k, l \in 1 .. Len(KeptAt(es, K)) : Nth(K, k) = Nth(K, l) => k = l
            /\ \A i \in K : \E k \in 1 .. Len(KeptAt(es, K)) : Nth(K, k) = i
        BY <3>1, KeptAtFacts
      <3>3. KeptAt(es, K) = t
        BY <2>1
      <3> QED
        BY <3>2, <3>3
    <2>3. DOMAIN t = 1 .. Len(t)
      BY <2>2, LenProperties
    <2>4. \A i, j \in DOMAIN t : t[i].text = t[j].text => i = j
      <3> SUFFICES ASSUME NEW i \in DOMAIN t, NEW j \in DOMAIN t, t[i].text = t[j].text PROVE i = j
        OBVIOUS
      <3>1. /\ Nth(K, i) \in DOMAIN es /\ t[i] = es[Nth(K, i)]
            /\ Nth(K, j) \in DOMAIN es /\ t[j] = es[Nth(K, j)]
        BY <2>1, <2>2, <2>3
      <3>2. Nth(K, i) = Nth(K, j)
        BY <3>1
      <3> QED
        BY <2>2, <2>3, <3>2
    <2>5. \A i \in DOMAIN es : i \in K <=> es[i].text \notin TextsOf(sel)
      <3>1. \A i \in DOMAIN es : es[i] \in Range(sel) <=> \E j \in DOMAIN sel : sel[j].text = es[i].text
        BY <1>2, <1>4 DEF Range
      <3> QED
        BY <2>1, <3>1 DEF TextsOf
    <2>6. ASSUME NEW x PROVE (\E k \in DOMAIN t : x = t[k].text)
                             <=> (\E i \in DOMAIN es : x = es[i].text) /\ x \notin TextsOf(sel)
      <3>1. ASSUME NEW k \in DOMAIN t
            PROVE  /\ Nth(K, k) \in DOMAIN es /\ t[k] = es[Nth(K, k)]
                   /\ t[k].text \notin TextsOf(sel)
        <4>1. Nth(K, k) \in K /\ t[k] = es[Nth(K, k)]
          BY <2>2, <2>3
        <4> QED
          BY <2>1, <2>5, <4>1
      <3>2. ASSUME NEW i \in DOMAIN es, es[i].text \notin TextsOf(sel)
            PROVE  \E k \in DOMAIN t : t[k] = es[i]
        <4>1. PICK k \in DOMAIN t : Nth(K, k) = i
          BY <2>2, <2>3, <2>5, <3>2
        <4> QED
          BY <2>2, <2>3, <4>1
      <3> QED
        BY <3>1, <3>2
    <2>7. TextsOf(t) = TextsOf(es) \ TextsOf(sel)
      <3>1. \A x : /\ x \in TextsOf(t) <=> \E k \in DOMAIN t : x = t[k].text
                   /\ x \in TextsOf(es) <=> \E i \in DOMAIN es : x = es[i].text
        BY DEF TextsOf
      <3> QED
        BY <2>6, <3>1
    <2>8. Remaining(es, sel) = t
      BY <1>6, <2>1 DEF Remaining
    <2> QED
      BY <2>2, <2>4, <2>7, <2>8
  <1> QED
    BY <1>5, <1>6

LEMMA PromoteKeeps ==
    ASSUME EditsInv, ~Repeats, NEW id, NEW sel \in Selections(EditsOf(sets, id)),
           ChangesetPromote(id, sel)
    PROVE  EditsInv'
  <1>1. PICK es, t : es = EditsOf(sets, id) /\ t = Remaining(es, sel)
    OBVIOUS
  <1>2. /\ es \in Seq(Edits) /\ TextsOf(es) \subseteq Pending
        /\ Len(es) \in Nat /\ DOMAIN es = 1 .. Len(es)
    BY <1>1, PendingTexts, LenProperties DEF EditsInv
  <1>3. PICK n \in 1 .. Len(es) : sel \in [1 .. n -> Range(es)]
    BY <1>1 DEF Selections
  <1>4. IsInjective(sel) /\ n \in Nat
    BY <1>2 DEF Selections
  <1>5. id \in DOMAIN sets /\ es = sets[id]
    BY <1>1, <1>2, <1>3 DEF EditsOf
  <1>6. \A i, j \in DOMAIN es : es[i].text = es[j].text => i = j
    BY <1>5 DEF EditsInv, OnePlaceEach
  <1>7. /\ t \in Seq(Edits)
        /\ \A i, j \in DOMAIN t : t[i].text = t[j].text => i = j
        /\ TextsOf(t) = TextsOf(es) \ TextsOf(sel)
    BY <1>1, <1>2, <1>3, <1>4, <1>6, RemainingTexts
  <1>8. /\ sets' = IF t = <<>> THEN Restrict(sets, DOMAIN sets \ {id}) ELSE Holding(sets, id, t)
        /\ landed' = landed \o [i \in DOMAIN sel |-> sel[i].text]
        /\ texts' = texts /\ dropped' = dropped
    <2>1. [sets EXCEPT ![id] = t] = Holding(sets, id, t)
      BY <1>5 DEF Holding, EditsInv, EditsType
    <2> QED
      BY <1>1, <2>1 DEF ChangesetPromote
  <1>9. EditsType /\ OnePlaceEach
    BY DEF EditsInv
  <1>10. /\ sets' = [o \in DOMAIN sets' |-> sets'[o]]
         /\ \A o \in DOMAIN sets' : sets'[o] \in Seq(Edits)
         /\ OnePlaceEach'
         /\ Pending' = (Pending \ TextsOf(es)) \cup TextsOf(t)
    <2>1. TextsOf(t) \cap (Pending \ TextsOf(es)) = {}
      BY <1>7
    <2>2. es = EditsOf(sets, id)
      BY <1>1
    <2> QED
      BY ONLY <1>5, <1>7, <1>8, <1>9, <2>1, <2>2, ChangesetBecomes
  <1>11. TextsOf(sel) \subseteq TextsOf(es)
    BY <1>3 DEF TextsOf, Range
  <1>12. Pending' = Pending \ TextsOf(sel)
    BY <1>2, <1>7, <1>10, <1>11
  <1>13. PICK c : c = [i \in 1 .. n |-> sel[i].text]
    OBVIOUS
  <1>14. c \in Seq(Nat) /\ Len(c) = n /\ Range(c) = TextsOf(sel)
    <2>1. DOMAIN sel = 1 .. n
      BY <1>3
    <2>2. Range(c) = TextsOf(sel)
      BY <1>13, <2>1 DEF Range, TextsOf
    <2>3. TextsOf(sel) \subseteq Nat
      BY <1>2, <1>9, <1>11, PendingTexts
    <2>4. \A i \in 1 .. n : c[i] \in Nat
      BY <1>13, <2>1, <2>3 DEF TextsOf
    <2> QED
      BY <1>4, <1>13, <2>2, <2>4, ListOf
  <1>15. \A i, j \in 1 .. n : c[i] = c[j] => i = j
    <2>1. \A e, f \in Range(es) : e.text = f.text => e = f
      BY <1>6 DEF Range
    <2>2. \A i, j \in 1 .. n : sel[i] = sel[j] => i = j
      BY <1>3, <1>4 DEF IsInjective
    <2> QED
      BY <1>3, <1>13, <2>1, <2>2
  <1>16. landed' = landed \o c /\ landed \in Seq(Nat) /\ Len(landed) \in Nat /\ DOMAIN landed = 1 .. Len(landed)
    BY <1>3, <1>8, <1>9, <1>13, LenProperties DEF EditsType
  <1>17. /\ landed' \in Seq(Nat) /\ Len(landed') = Len(landed) + n
         /\ DOMAIN landed' = 1 .. Len(landed) + n
         /\ \A i \in 1 .. Len(landed) + n : landed'[i] = IF i <= Len(landed) THEN landed[i] ELSE c[i - Len(landed)]
    <2>1. /\ landed \o c \in Seq(Nat) /\ Len(landed \o c) = Len(landed) + n
          /\ \A i \in 1 .. Len(landed) + n :
               (landed \o c)[i] = IF i <= Len(landed) THEN landed[i] ELSE c[i - Len(landed)]
      BY <1>14, <1>16, ConcatProperties
    <2>2. landed' \in Seq(Nat) /\ Len(landed') = Len(landed) + n
      BY <1>16, <2>1
    <2>3. DOMAIN landed' = 1 .. Len(landed')
      BY <2>2, LenProperties
    <2> QED
      BY <1>16, <2>1, <2>2, <2>3
  <1>18. Range(landed') = Range(landed) \cup TextsOf(sel)
    <2>1. ASSUME NEW x PROVE (\E i \in DOMAIN landed' : x = landed'[i])
                             <=> (\E i \in DOMAIN landed : x = landed[i]) \/ (\E j \in 1 .. n : x = c[j])
      <3>1. ASSUME NEW i \in DOMAIN landed', x = landed'[i]
            PROVE  (\E k \in DOMAIN landed : x = landed[k]) \/ (\E j \in 1 .. n : x = c[j])
        <4>1. CASE i <= Len(landed)
          BY <1>16, <1>17, <3>1, <4>1
        <4>2. CASE ~(i <= Len(landed))
          <5>1. i - Len(landed) \in 1 .. n
            BY <1>4, <1>16, <1>17, <4>2
          <5> QED
            BY <1>17, <3>1, <4>2, <5>1
        <4> QED
          BY <4>1, <4>2
      <3>2. ASSUME NEW i \in DOMAIN landed PROVE i \in DOMAIN landed' /\ landed'[i] = landed[i]
        BY <1>4, <1>16, <1>17
      <3>3. ASSUME NEW j \in 1 .. n
            PROVE  Len(landed) + j \in DOMAIN landed' /\ landed'[Len(landed) + j] = c[j]
        <4>1. /\ Len(landed) + j \in 1 .. Len(landed) + n
              /\ ~(Len(landed) + j <= Len(landed)) /\ Len(landed) + j - Len(landed) = j
          BY <1>4, <1>16
        <4> QED
          BY <1>17, <4>1
      <3> QED
        BY <3>1, <3>2, <3>3
    <2>2. Range(c) = {c[j] : j \in 1 .. n}
      BY <1>13 DEF Range
    <2> QED
      BY <1>14, <2>1, <2>2 DEF Range
  <1>19. /\ Pending \cup Range(landed) \cup dropped = 1 .. texts
         /\ Pending \cap Range(landed) = {}
         /\ (Pending \cup Range(landed)) \cap dropped = {}
         /\ IsInjective(landed)
    BY DEF EditsInv, EditsAccountedFor
  <1>20. IsInjective(landed')
    <2> SUFFICES ASSUME NEW i \in DOMAIN landed', NEW j \in DOMAIN landed', landed'[i] = landed'[j]
                 PROVE  i = j
      BY DEF IsInjective
    <2>1. \A k \in DOMAIN landed : landed[k] \notin TextsOf(sel)
      BY <1>2, <1>11, <1>19 DEF Range
    <2>2. \A k \in 1 .. n : c[k] \in TextsOf(sel)
      BY <1>13, <1>14 DEF Range
    <2>3. \A k, l \in DOMAIN landed : landed[k] = landed[l] => k = l
      BY <1>19 DEF IsInjective
    <2>4. CASE i <= Len(landed) /\ j <= Len(landed)
      BY <1>16, <1>17, <2>3, <2>4
    <2>5. CASE i <= Len(landed) /\ ~(j <= Len(landed))
      <3>1. i \in DOMAIN landed /\ j - Len(landed) \in 1 .. n
        BY <1>4, <1>16, <1>17, <2>5
      <3> QED
        BY <1>17, <2>1, <2>2, <2>5, <3>1
    <2>6. CASE ~(i <= Len(landed)) /\ j <= Len(landed)
      <3>1. j \in DOMAIN landed /\ i - Len(landed) \in 1 .. n
        BY <1>4, <1>16, <1>17, <2>6
      <3> QED
        BY <1>17, <2>1, <2>2, <2>6, <3>1
    <2>7. CASE ~(i <= Len(landed)) /\ ~(j <= Len(landed))
      <3>1. i - Len(landed) \in 1 .. n /\ j - Len(landed) \in 1 .. n
        <4>1. i \in 1 .. Len(landed) + n /\ j \in 1 .. Len(landed) + n /\ Len(landed) \in Nat
          BY <1>16, <1>17
        <4> QED
          BY <1>4, <2>7, <4>1
      <3>2. i - Len(landed) = j - Len(landed)
        BY <1>15, <1>17, <2>7, <3>1
      <3> QED
        BY <1>16, <1>17, <3>2
    <2> QED
      BY <2>4, <2>5, <2>6, <2>7
  <1>21. EditsAccountedFor'
    <2>1. Pending' \cup Range(landed') \cup dropped' = 1 .. texts'
      BY <1>2, <1>8, <1>11, <1>12, <1>18, <1>19
    <2>2. Pending' \cap Range(landed') = {}
      BY <1>12, <1>18, <1>19
    <2>3. (Pending' \cup Range(landed')) \cap dropped' = {}
      BY <1>2, <1>8, <1>11, <1>12, <1>18, <1>19
    <2> QED
      BY <1>20, <2>1, <2>2, <2>3 DEF EditsAccountedFor
  <1>22. EditsType'
    BY <1>8, <1>9, <1>10, <1>17 DEF EditsType
  <1> QED
    BY <1>10, <1>21, <1>22 DEF EditsInv

LEMMA EditsStep == EditsInv /\ ~Repeats /\ [RecordNext]_recordVars => EditsInv'
  <1> SUFFICES ASSUME EditsInv, ~Repeats, [RecordNext]_recordVars PROVE EditsInv'
    OBVIOUS
  <1>1. ASSUME UNCHANGED <<sets, texts, landed, dropped>> PROVE EditsInv'
    BY <1>1 DEF EditsInv, EditsType, OnePlaceEach, EditsAccountedFor, Pending
  <1>2. ASSUME NEW kind, NEW depends, NEW whole, RecordCreate(kind, depends, whole)
        PROVE  EditsInv'
    BY <1>1, <1>2 DEF RecordCreate
  <1>3. ASSUME NEW id, NEW to, NEW depends, NEW whole, RecordUpdate(id, to, depends, whole)
        PROVE  EditsInv'
    BY <1>1, <1>3 DEF RecordUpdate
  <1>4. ASSUME NEW id, NEW given, RecordRefresh(id, given) PROVE EditsInv'
    BY <1>1, <1>4 DEF RecordRefresh
  <1>5. CASE UNCHANGED recordVars
    BY <1>1, <1>5 DEF recordVars
  <1> QED
    BY <1>2, <1>3, <1>4, <1>5, EditKeeps, PromoteKeeps DEF RecordNext

(* Every edit that was written is pending, landed or dropped, never two of  *)
(* these, and none lands twice, after any number of changeset_edit and      *)
(* changeset_promote calls, when no call names one edit twice (the run      *)
(* PromoteTwice shows what happens when one does; ops/records.rs).          *)
THEOREM ChangesetsEditsAccountedFor == ~Repeats => (RecordSpec => []EditsAccountedFor)
  <1>1. RecordInit => EditsInv
    <2> SUFFICES ASSUME RecordInit PROVE EditsInv
      OBVIOUS
    <2>1. sets = <<>> /\ texts = 0 /\ landed = <<>> /\ dropped = {}
      BY DEF RecordInit
    <2>2. Pending = {} /\ Range(landed) = {} /\ 1 .. texts = {} /\ IsInjective(landed)
      BY <2>1 DEF Pending, Range, IsInjective
    <2> QED
      BY <2>1, <2>2 DEF EditsInv, EditsType, OnePlaceEach, EditsAccountedFor
  <1>2. EditsInv => EditsAccountedFor
    BY DEF EditsInv
  <1>3. CASE ~Repeats
    <2>1. EditsInv /\ [RecordNext]_recordVars => EditsInv'
      BY <1>3, EditsStep
    <2> QED
      BY <1>1, <1>2, <2>1, PTL DEF RecordSpec
  <1> QED
    BY <1>3
=============================================================================
