--------------------------- MODULE DocsPageProofs ---------------------------
(***************************************************************************)
(* Proofs about the widgets of a page that keep to themselves, for any     *)
(* number of panels, menus and panes: a managed accordion never has two    *)
(* panels open and its triggers tell what the panels do (Collapse); one    *)
(* menu is open at a time and a click on a toggler toggles it (Dropdown);  *)
(* togglers show one pane at a time, which can be seen (Offcanvas); what a *)
(* toast, a tip or a slide waits for agrees with what is on the page,      *)
(* however many callbacks wait (Toast, Tooltip, Carousel).  The search     *)
(* shows what was found for what is in its box, with excerpts that say     *)
(* what the pages do (SearchBox, and Teaser by TeaserProofs).              *)
(***************************************************************************)
EXTENDS DocsPage, TeaserProofs

-----------------------------------------------------------------------------
(***************************************************************************)
(* Sequences from which elements are taken out (SeqFilter).                *)
(***************************************************************************)
\* What is left of a sequence when those that are not in S are taken out.
LEMMA OnlyOf ==
  ASSUME NEW T, NEW s \in Seq(T), NEW S
  PROVE  Only(s, S) \in Seq(T) /\ Len(Only(s, S)) <= Len(s)
<1> DEFINE m == Len(s)
           Next1(c, e) == IF e \in S THEN Append(c, e) ELSE c
           step == [k \in 1..m |-> [c \in Seq(T) |-> Next1(c, s[k])]]
           After(f) == [k \in 0..m |-> IF k = 0 THEN <<>> ELSE Next1(f[k - 1], s[k])]
           g == CHOOSE f : f = After(f)
<1>1. m \in Nat /\ <<>> \in Seq(T) /\ Len(<<>>) = 0 /\ \A k \in 1..m : s[k] \in T
  BY LenProperties, ElementOfSeq, EmptySeq
<1>2. Only(s, S) = g[m]
  BY Zenon DEF Only
<1>3. ASSUME NEW c \in Seq(T), NEW k \in 1..m
      PROVE  Next1(c, s[k]) \in Seq(T) /\ Len(Next1(c, s[k])) <= Len(c) + 1
  BY <1>1, AppendProperties, LenProperties
<1> HIDE DEF m, Next1
<1>4. step \in Steps(m, Seq(T))
  BY <1>3 DEF Steps
<1>5. PICK f : Iteration(f, m, Seq(T), <<>>, step)
  <2> HIDE DEF step
  <2> QED
    BY <1>1, <1>4, Iterates
<1>6. \A k \in 1..m : step[k][f[k - 1]] = Next1(f[k - 1], s[k])
  BY <1>1, <1>5 DEF Iteration
<1>7. \A k \in 0..m : f[k] = IF k = 0 THEN <<>> ELSE Next1(f[k - 1], s[k])
  <2> HIDE DEF step
  <2> QED
    BY <1>1, <1>5, <1>6 DEF Iteration
<1>8. f = After(f)
  <2>1. f = [k \in 0..m |-> f[k]]
    BY <1>5 DEF Iteration
  <2> QED
    BY <1>7, <2>1
<1>9. g = After(g)
  <2> HIDE DEF After
  <2> QED
    BY <1>8
<1> HIDE DEF g
<1>10. g[0] = <<>> /\ \A k \in 1..m : g[k] = Next1(g[k - 1], s[k])
  BY <1>1, <1>9
<1> DEFINE Short(k) == {c \in Seq(T) : Len(c) <= k}
           A == [k \in 0..m |-> Short(k)]
<1>11. \A k \in 0..m : g[k] \in A[k]
  <2>1. g[0] \in A[0]
    BY <1>1, <1>10
  <2>2. ASSUME NEW k \in 1..m, g[k - 1] \in A[k - 1] PROVE g[k] \in A[k]
    <3>1. g[k - 1] \in Seq(T) /\ Len(g[k - 1]) <= k - 1
      BY <1>1, <2>2
    <3>2. g[k] \in Seq(T) /\ Len(g[k]) <= Len(g[k - 1]) + 1
      BY <1>3, <1>10, <3>1
    <3>3. Len(g[k]) \in Nat /\ Len(g[k - 1]) \in Nat
      BY <3>1, <3>2, LenProperties
    <3> QED
      BY <3>1, <3>2, <3>3
  <2> HIDE DEF A
  <2> QED
    BY <1>1, <2>1, <2>2, Reaches
<1> QED
  BY <1>1, <1>2, <1>11 DEF m

-----------------------------------------------------------------------------
(***************************************************************************)
(* The panels of collapse and accordion (Collapse).                        *)
(***************************************************************************)
\* The first of some panels is one of them.
LEMMA FirstPanel ==
  ASSUME NEW T \in SUBSET Panel, T # {}
  PROVE  (CHOOSE q \in T : \A r \in T : q <= r) \in T
<1>1. T \in SUBSET Nat
  BY CollapseAssumption DEF Panel
<1> QED
  BY <1>1, FirstOf, Zenon

\* The callbacks of a panel after an animation starts, and after the instances
\* of `dropped` are gone: the same operations, and the new one.
Kept(q, dropped) ==
  [i \in DOMAIN panelEnds[q] |-> [panelEnds[q][i] EXCEPT !.own = @ /\ q \notin dropped]]

\* The callbacks that stay after `dropped` are gone are as they were but for whose they are.
LEMMA KeptEnds ==
  ASSUME NEW q \in Panel, panelEnds[q] \in Seq(PanelEnd), NEW dropped
  PROVE  /\ Kept(q, dropped) \in Seq(PanelEnd)
         /\ Kept(q, dropped) = <<>> <=> panelEnds[q] = <<>>
         /\ DOMAIN Kept(q, dropped) = DOMAIN panelEnds[q]
         /\ \A i \in DOMAIN panelEnds[q] :
              /\ Kept(q, dropped)[i].op = panelEnds[q][i].op
              /\ Kept(q, dropped)[i].own <=> panelEnds[q][i].own /\ q \notin dropped
<1>1. /\ DOMAIN panelEnds[q] = 1..Len(panelEnds[q]) /\ Len(panelEnds[q]) \in Nat
      /\ \A i \in DOMAIN panelEnds[q] : panelEnds[q][i] \in PanelEnd
  BY LenProperties, ElementOfSeq
<1>2. \A i \in DOMAIN panelEnds[q] :
        /\ Kept(q, dropped)[i] \in PanelEnd
        /\ Kept(q, dropped)[i].op = panelEnds[q][i].op
        /\ Kept(q, dropped)[i].own <=> panelEnds[q][i].own /\ q \notin dropped
  BY <1>1 DEF Kept, PanelEnd
<1>3. DOMAIN Kept(q, dropped) = DOMAIN panelEnds[q]
  BY DEF Kept
<1>4. Kept(q, dropped) \in [1..Len(panelEnds[q]) -> PanelEnd]
  BY <1>1, <1>2 DEF Kept
<1>5. Kept(q, dropped) \in Seq(PanelEnd) /\ Len(Kept(q, dropped)) = Len(panelEnds[q])
  BY <1>1, <1>4, IsASeq, LenProperties
<1> QED
  BY <1>1, <1>2, <1>3, <1>5, EmptySeq

\* An animation that starts adds its callback behind those that were there.
LEMMA StartedEnds ==
  ASSUME NEW q \in Panel, panelEnds[q] \in Seq(PanelEnd), NEW dropped,
         NEW op \in {"show", "hide"}
  PROVE  /\ Started(q, op, dropped) \in Seq(PanelEnd)
         /\ Started(q, op, dropped) # <<>>
         /\ (\E i \in DOMAIN Started(q, op, dropped) : Started(q, op, dropped)[i].op = "show")
              <=> op = "show" \/ Opening(q)
         /\ (\A i \in DOMAIN panelEnds[q] : panelEnds[q][i].own) /\ q \notin dropped =>
              \A i \in DOMAIN Started(q, op, dropped) : Started(q, op, dropped)[i].own
<1> DEFINE k == Kept(q, dropped)
           e == [op |-> op, own |-> q \notin dropped]
<1>1. e \in PanelEnd /\ e.op = op /\ (e.own <=> q \notin dropped)
  BY DEF PanelEnd
<1>2. k \in Seq(PanelEnd)
  BY KeptEnds
<1> HIDE DEF k, e
<1>3. /\ Append(k, e) \in Seq(PanelEnd) /\ Append(k, e) # <<>>
      /\ DOMAIN k = 1..Len(k) /\ Len(k) \in Nat
      /\ DOMAIN Append(k, e) = 1..(Len(k) + 1)
      /\ \A i \in 1..Len(k) : Append(k, e)[i] = k[i]
      /\ Append(k, e)[Len(k) + 1] = e
  BY <1>1, <1>2, AppendProperties, LenProperties
<1>4. Started(q, op, dropped) = Append(k, e)
  BY DEF Started, Kept, k, e
<1>5. /\ DOMAIN k = DOMAIN panelEnds[q]
      /\ \A i \in DOMAIN panelEnds[q] :
           /\ k[i].op = panelEnds[q][i].op
           /\ k[i].own <=> panelEnds[q][i].own /\ q \notin dropped
  BY KeptEnds DEF k
<1>6. 1..(Len(k) + 1) = (1..Len(k)) \cup {Len(k) + 1}
  BY <1>3
<1> DEFINE n == Len(k) + 1
<1>7. /\ n \in DOMAIN Append(k, e) /\ Append(k, e)[n].op = op
      /\ (Append(k, e)[n].own <=> q \notin dropped)
      /\ \A i \in DOMAIN panelEnds[q] :
           /\ i \in DOMAIN Append(k, e)
           /\ Append(k, e)[i].op = panelEnds[q][i].op
           /\ Append(k, e)[i].own <=> panelEnds[q][i].own /\ q \notin dropped
      /\ \A i \in DOMAIN Append(k, e) : i = n \/ i \in DOMAIN panelEnds[q]
  BY <1>1, <1>3, <1>5, <1>6
<1> HIDE DEF n
<1>8. (\E i \in DOMAIN Append(k, e) : Append(k, e)[i].op = "show") <=> op = "show" \/ Opening(q)
  BY <1>7 DEF Opening
<1>9. (\A i \in DOMAIN panelEnds[q] : panelEnds[q][i].own) /\ q \notin dropped =>
        \A i \in DOMAIN Append(k, e) : Append(k, e)[i].own
  BY <1>7
<1> QED
  BY <1>3, <1>4, <1>8, <1>9

-----------------------------------------------------------------------------
\* The panels that Open(p, veto) hides and those whose instance it drops.
HiddenBy(p, veto) == {q \in Others(p) : Hides(q, veto)}
DroppedBy(p) == IF HasActivesData(p) THEN {} ELSE Actives

\* What opening a panel does to each panel.
LEMMA OpenEffect ==
  ASSUME CollapseTypeOK, NEW p \in Panel, NEW veto, Open(p, veto)
  PROVE  /\ p \notin HiddenBy(p, veto) /\ HiddenBy(p, veto) \subseteq Others(p)
         /\ panelEnds' \in [Panel -> Seq(PanelEnd)]
         /\ \A q \in HiddenBy(p, veto) \cup {p} :
              /\ panelClass'[q] = "collapsing"
              /\ panelEnds'[q] = Started(q, IF q = p THEN "show" ELSE "hide", DroppedBy(p))
         /\ \A q \in Panel \ (HiddenBy(p, veto) \cup {p}) :
              panelClass'[q] = panelClass[q] /\ panelEnds'[q] = Kept(q, DroppedBy(p))
<1> DEFINE hides == HiddenBy(p, veto)
           dropped == DroppedBy(p)
<1>1. Others(p) \subseteq Panel /\ p \notin Others(p) /\ hides \subseteq Others(p)
  BY DEF Others, Actives, CollapseTypeOK, HiddenBy
<1>2. panelEnds' = [q \in Panel |->
                      IF q = p THEN Started(q, "show", dropped)
                      ELSE IF q \in hides THEN Started(q, "hide", dropped)
                      ELSE Kept(q, dropped)]
  BY DEF Open, Kept, HiddenBy, DroppedBy
<1>3. panelClass' = [q \in Panel |-> IF q \in hides \cup {p} THEN "collapsing"
                                     ELSE panelClass[q]]
  BY DEF Open, HiddenBy
<1>4. \A q \in Panel : panelEnds[q] \in Seq(PanelEnd)
  BY DEF CollapseTypeOK
<1>5. \A q \in Panel : /\ Started(q, "show", dropped) \in Seq(PanelEnd)
                       /\ Started(q, "hide", dropped) \in Seq(PanelEnd)
                       /\ Kept(q, dropped) \in Seq(PanelEnd)
  BY <1>4, StartedEnds, KeptEnds
<1> HIDE DEF hides, dropped
<1>6. /\ p \notin hides /\ hides \subseteq Others(p)
      /\ panelEnds' \in [Panel -> Seq(PanelEnd)]
  BY <1>1, <1>2, <1>5
<1> QED
  BY <1>1, <1>2, <1>3, <1>6 DEF hides, dropped

\* Opening a panel of a managed accordion: either no other one is shown or
\* moving, or the first of them is shown and is hidden.
LEMMA OpenInv ==
  ASSUME CollapseTypeOK, CollapseInv, NEW p \in Panel, NEW veto,
         panelClass[p] # "show", MayOpen(p), Open(p, veto)
  PROVE  CollapseTypeOK' /\ CollapseInv'
<1> DEFINE hides == HiddenBy(p, veto)
           dropped == DroppedBy(p)
<1>1. /\ interfered' = (interfered \/ \E q \in Others(p) : q \in veto)
      /\ parentKind' = parentKind /\ byScript' = byScript
      /\ expanded' = [q \in Panel |-> IF q = p THEN TRUE ELSE expanded[q] /\ q \notin hides]
      /\ panelClass' = [q \in Panel |-> IF q \in hides \cup {p} THEN "collapsing"
                                        ELSE panelClass[q]]
      /\ panelInst' = [q \in Panel |->
           IF q \in dropped THEN "none"
           ELSE IF q \in hides \cup {p} THEN "transitioning"
           ELSE IF q \in Others(p) /\ panelInst[q] = "none" THEN "idle"
           ELSE panelInst[q]]
  BY DEF Open, HiddenBy, DroppedBy
<1>2. Others(p) \subseteq Panel /\ p \notin Others(p)
  BY DEF Others, Actives, CollapseTypeOK
<1>3. /\ p \notin hides /\ hides \subseteq Others(p)
      /\ panelEnds' \in [Panel -> Seq(PanelEnd)]
      /\ \A q \in hides \cup {p} :
           /\ panelClass'[q] = "collapsing"
           /\ panelEnds'[q] = Started(q, IF q = p THEN "show" ELSE "hide", dropped)
      /\ \A q \in Panel \ (hides \cup {p}) :
           panelClass'[q] = panelClass[q] /\ panelEnds'[q] = Kept(q, dropped)
  BY OpenEffect
<1>4. CollapseTypeOK'
  <2>1. panelClass' \in [Panel -> {"collapse", "show", "collapsing"}]
    BY <1>1 DEF CollapseTypeOK
  <2>2. panelInst' \in [Panel -> {"none", "idle", "transitioning"}]
    BY <1>1 DEF CollapseTypeOK
  <2>3. expanded' \in [Panel -> BOOLEAN] /\ interfered' \in BOOLEAN
    BY <1>1 DEF CollapseTypeOK
  <2> QED
    BY <1>1, <1>3, <2>1, <2>2, <2>3 DEF CollapseTypeOK
<1> SUFFICES ASSUME ~interfered' PROVE CollapseInv'
  BY <1>4 DEF CollapseInv, MovesUntilEnd, TriggerTellsPanel, InstancesKept, OneOpenPanel, Managed
<1>5. ~interfered /\ \A q \in Others(p) : q \notin veto
  BY <1>1
<1>6. \A q \in Panel : panelEnds[q] \in Seq(PanelEnd)
  BY <1>5 DEF CollapseTypeOK
<1>7. \A q \in Panel : panelClass[q] = "collapsing" <=> panelEnds[q] # <<>>
  BY <1>5 DEF CollapseInv, MovesUntilEnd
<1>h. \A q \in hides : panelClass[q] = "show" /\ panelEnds[q] = <<>> /\ q \in Panel /\ q # p
  BY <1>2, <1>7 DEF Hides, HiddenBy
<1> HIDE DEF hides, dropped
<1>k. \A q \in Panel :
        /\ Kept(q, dropped) = <<>> <=> panelEnds[q] = <<>>
        /\ DOMAIN Kept(q, dropped) = DOMAIN panelEnds[q]
        /\ \A i \in DOMAIN panelEnds[q] :
             /\ Kept(q, dropped)[i].op = panelEnds[q][i].op
             /\ Kept(q, dropped)[i].own <=> panelEnds[q][i].own /\ q \notin dropped
  BY <1>6, KeptEnds
<1>s. \A q \in Panel, op \in {"show", "hide"} :
        /\ Started(q, op, dropped) # <<>>
        /\ (\E i \in DOMAIN Started(q, op, dropped) : Started(q, op, dropped)[i].op = "show")
             <=> op = "show" \/ Opening(q)
        /\ (\A i \in DOMAIN panelEnds[q] : panelEnds[q][i].own) /\ q \notin dropped =>
             \A i \in DOMAIN Started(q, op, dropped) : Started(q, op, dropped)[i].own
  BY <1>6, StartedEnds
<1>8. MovesUntilEnd'
  <2>1. ASSUME NEW q \in Panel PROVE panelClass'[q] = "collapsing" <=> panelEnds'[q] # <<>>
    <3>1. CASE q \in hides \cup {p}
      BY <1>3, <1>5, <1>s, <3>1
    <3>2. CASE q \notin hides \cup {p}
      BY <1>3, <1>5, <1>k, <1>7, <3>2
    <3> QED
      BY <3>1, <3>2
  <2> QED
    BY <2>1 DEF MovesUntilEnd
<1>9. \A q \in Panel : IsOpen(q)' <=> q = p \/ (q \notin hides /\ IsOpen(q))
  <2> SUFFICES ASSUME NEW q \in Panel
               PROVE  IsOpen(q)' <=> q = p \/ (q \notin hides /\ IsOpen(q))
    OBVIOUS
  <2>1. CASE q = p
    <3>1. Opening(q)' <=> \E i \in DOMAIN Started(q, "show", dropped) :
                            Started(q, "show", dropped)[i].op = "show"
      BY <1>3, <1>5, <2>1 DEF Opening
    <3> QED
      BY <1>s, <2>1, <3>1 DEF IsOpen
  <2>2. CASE q \in hides
    <3>1. Opening(q)' <=> \E i \in DOMAIN Started(q, "hide", dropped) :
                            Started(q, "hide", dropped)[i].op = "show"
      BY <1>3, <1>5, <1>h, <2>2 DEF Opening
    <3>2. ~ Opening(q)
      BY <1>h, <2>2 DEF Opening
    <3>3. ~ Opening(q)'
      BY <1>s, <3>1, <3>2
    <3> QED
      BY <1>3, <1>5, <1>h, <2>2, <3>3 DEF IsOpen
  <2>3. CASE q # p /\ q \notin hides
    <3>1. panelClass'[q] = panelClass[q] /\ panelEnds'[q] = Kept(q, dropped)
      BY <1>3, <1>5, <2>3
    <3>2. Opening(q)' <=> Opening(q)
      BY <1>k, <3>1 DEF Opening
    <3> QED
      BY <2>3, <3>1, <3>2 DEF IsOpen
  <2> QED
    BY <2>1, <2>2, <2>3
<1>10. TriggerTellsPanel'
  <2>1. \A q \in Panel : expanded'[q] <=> q = p \/ (expanded[q] /\ q \notin hides)
    BY <1>1 DEF CollapseTypeOK
  <2> QED
    BY <1>5, <1>9, <2>1 DEF TriggerTellsPanel, CollapseInv
<1> SUFFICES ASSUME Managed PROVE InstancesKept' /\ OneOpenPanel'
  BY <1>1, <1>5, <1>8, <1>10 DEF CollapseInv, Managed, InstancesKept, OneOpenPanel
<1>11. Others(p) = {q \in Panel \ {p} : panelClass[q] # "collapse"}
  BY DEF Others, Actives, Managed
<1>12. \A q \in Panel : /\ panelInst[q] # "none"
                        /\ panelInst[q] = "transitioning" <=> panelEnds[q] # <<>>
                        /\ \A i \in DOMAIN panelEnds[q] : panelEnds[q][i].own
  BY DEF CollapseInv, InstancesKept
<1>13. Others(p) # {} => FirstOther(p) \in Others(p)
  BY <1>2, FirstPanel DEF FirstOther
<1>14. dropped = {}
  <2>1. CASE Others(p) # {}
    BY <1>2, <1>12, <1>13, <2>1 DEF dropped, DroppedBy, HasActivesData
  <2>2. CASE Others(p) = {}
    <3>1. panelClass[p] = "collapse"
      BY <1>7, <1>12 DEF MayOpen, CollapseTypeOK
    <3> QED
      BY <2>2, <3>1 DEF dropped, DroppedBy, Others, Actives, Managed
  <2> QED
    BY <2>1, <2>2
<1>15. InstancesKept'
  <2> SUFFICES ASSUME NEW q \in Panel
               PROVE  /\ panelInst'[q] # "none"
                      /\ panelInst'[q] = "transitioning" <=> panelEnds'[q] # <<>>
                      /\ \A i \in DOMAIN panelEnds'[q] : panelEnds'[q][i].own
    BY DEF InstancesKept
  <2>1. CASE q \in hides \cup {p}
    <3>1. panelInst'[q] = "transitioning"
      BY <1>1, <1>14, <2>1
    <3> QED
      BY <1>3, <1>5, <1>s, <1>12, <1>14, <2>1, <3>1
  <2>2. CASE q \notin hides \cup {p}
    <3>1. panelInst'[q] = panelInst[q]
      BY <1>1, <1>12, <1>14, <2>2
    <3>2. panelEnds'[q] = Kept(q, dropped)
      BY <1>3, <1>5, <2>2
    <3> QED
      BY <1>k, <1>12, <1>14, <3>1, <3>2
  <2> QED
    BY <2>1, <2>2
<1>16. OneOpenPanel'
  <2>1. ASSUME NEW q \in Panel, q # p, q \notin hides PROVE ~ IsOpen(q)
    <3> SUFFICES ASSUME IsOpen(q) PROVE FALSE
      OBVIOUS
    <3>1. q \in Others(p)
      <4>1. Opening(q) => panelEnds[q] # <<>>
        BY DEF Opening
      <4> QED
        BY <1>7, <1>11, <2>1, <4>1 DEF IsOpen
    <3> DEFINE first == FirstOther(p)
    <3>2. first \in Others(p) /\ first \in Panel
      BY <1>2, <1>13, <3>1
    <3>3. panelInst[first] # "transitioning"
      BY <3>1 DEF MayOpen
    <3> HIDE DEF first
    <3>4. panelClass[first] = "show"
      BY <1>7, <1>11, <1>12, <3>2, <3>3 DEF CollapseTypeOK
    <3>5. first \in hides
      BY <1>5, <3>2, <3>3, <3>4 DEF hides, HiddenBy, Hides
    <3>6. q = first
      BY <3>2, <3>4 DEF CollapseInv, OneOpenPanel, IsOpen
    <3> QED
      BY <2>1, <3>5, <3>6
  <2> QED
    BY <1>9, <2>1 DEF OneOpenPanel
<1> QED
  BY <1>15, <1>16

\* Hiding a panel that is shown.
LEMMA CloseInv ==
  ASSUME CollapseTypeOK, CollapseInv, NEW p \in Panel,
         panelClass[p] = "show", Close(p)
  PROVE  CollapseTypeOK' /\ CollapseInv'
<1>1. /\ panelClass' = [panelClass EXCEPT ![p] = "collapsing"]
      /\ panelInst' = [panelInst EXCEPT ![p] = "transitioning"]
      /\ panelEnds' = [panelEnds EXCEPT ![p] = Started(p, "hide", {})]
      /\ expanded' = [expanded EXCEPT ![p] = FALSE]
      /\ byScript' = byScript /\ parentKind' = parentKind /\ interfered' = interfered
  BY DEF Close
<1>2. CASE interfered
  <2>1. Started(p, "hide", {}) \in Seq(PanelEnd)
    BY StartedEnds DEF CollapseTypeOK
  <2>2. CollapseTypeOK'
    BY <1>1, <2>1 DEF CollapseTypeOK
  <2> QED
    BY <1>1, <1>2, <2>2 DEF CollapseInv, MovesUntilEnd, TriggerTellsPanel,
                            InstancesKept, OneOpenPanel, Managed
<1>3. CASE ~interfered
  <2>1. \A q \in Panel : panelEnds[q] \in Seq(PanelEnd)
    BY <1>3 DEF CollapseTypeOK
  <2>2. panelEnds[p] = <<>> /\ ~ Opening(p)
    BY <1>3 DEF CollapseInv, MovesUntilEnd, Opening
  <2>3. /\ Started(p, "hide", {}) \in Seq(PanelEnd) /\ Started(p, "hide", {}) # <<>>
        /\ ~ \E i \in DOMAIN Started(p, "hide", {}) : Started(p, "hide", {})[i].op = "show"
        /\ \A i \in DOMAIN Started(p, "hide", {}) : Started(p, "hide", {})[i].own
    <3>1. \A i \in DOMAIN panelEnds[p] : panelEnds[p][i].own
      BY <2>2
    <3> QED
      BY <2>1, <2>2, <3>1, StartedEnds
  <2>4. /\ panelClass'[p] = "collapsing" /\ panelInst'[p] = "transitioning"
        /\ panelEnds'[p] = Started(p, "hide", {}) /\ expanded'[p] = FALSE
        /\ \A q \in Panel \ {p} :
             /\ panelClass'[q] = panelClass[q] /\ panelInst'[q] = panelInst[q]
             /\ panelEnds'[q] = panelEnds[q] /\ expanded'[q] = expanded[q]
    BY <1>1, <1>3 DEF CollapseTypeOK
  <2>5. CollapseTypeOK'
    BY <1>1, <2>3 DEF CollapseTypeOK
  <2>6. MovesUntilEnd'
    BY <1>1, <2>3, <2>4 DEF CollapseInv, MovesUntilEnd
  <2>7. \A q \in Panel : IsOpen(q)' <=> q # p /\ IsOpen(q)
    BY <2>3, <2>4 DEF IsOpen, Opening
  <2>8. TriggerTellsPanel'
    BY <1>1, <2>4, <2>7 DEF CollapseInv, TriggerTellsPanel
  <2>9. InstancesKept'
    BY <1>1, <2>3, <2>4 DEF CollapseInv, InstancesKept, Managed
  <2>10. OneOpenPanel'
    BY <1>1, <2>7 DEF CollapseInv, OneOpenPanel, Managed
  <2> QED
    BY <2>5, <2>6, <2>8, <2>9, <2>10 DEF CollapseInv
<1> QED
  BY <1>2, <1>3 DEF CollapseTypeOK

\* A call that returns early changes no panel.
LEMMA OnlyInstanceInv ==
  ASSUME CollapseTypeOK, CollapseInv, NEW p \in Panel, OnlyInstance(p)
  PROVE  CollapseTypeOK' /\ CollapseInv'
<1>1. /\ panelInst' = [panelInst EXCEPT ![p] = IF @ = "none" THEN "idle" ELSE @]
      /\ panelClass' = panelClass /\ panelEnds' = panelEnds /\ expanded' = expanded
      /\ byScript' = byScript /\ parentKind' = parentKind /\ interfered' = interfered
  BY DEF OnlyInstance
<1>2. CollapseTypeOK'
  BY <1>1 DEF CollapseTypeOK
<1>3. \A q \in Panel : IsOpen(q)' <=> IsOpen(q)
  BY <1>1 DEF IsOpen, Opening
<1>4. MovesUntilEnd' /\ TriggerTellsPanel' /\ OneOpenPanel'
  BY <1>1, <1>3 DEF CollapseInv, MovesUntilEnd, TriggerTellsPanel, OneOpenPanel, Managed
<1>5. ASSUME Managed PROVE panelInst' = panelInst
  BY <1>1, <1>5 DEF CollapseInv, InstancesKept, CollapseTypeOK
<1>6. InstancesKept'
  BY <1>1, <1>5 DEF CollapseInv, InstancesKept, Managed
<1> QED
  BY <1>2, <1>4, <1>6 DEF CollapseInv

\* A click on a trigger.
LEMMA ToggleInv ==
  ASSUME CollapseTypeOK, CollapseInv, NEW p \in Panel, NEW veto, Toggle(p, veto)
  PROVE  CollapseTypeOK' /\ CollapseInv'
<1>1. CASE panelClass[p] = "show" /\ Close(p)
  BY <1>1, CloseInv
<1>2. CASE OnlyInstance(p)
  BY <1>2, OnlyInstanceInv
<1>3. CASE panelClass[p] # "show" /\ MayOpen(p) /\ Open(p, veto)
  BY <1>3, OpenInv
<1> QED
  BY <1>1, <1>2, <1>3 DEF Toggle

\* The end of a panel's transition.  In a managed accordion only the instance
\* of the panel waits for it, and is idle again.
LEMMA TransitionEndInv ==
  ASSUME CollapseTypeOK, CollapseInv, NEW p \in Panel, PanelTransitionEnd(p)
  PROVE  CollapseTypeOK' /\ CollapseInv'
<1> DEFINE ends == {panelEnds[p][i] : i \in DOMAIN panelEnds[p]}
<1>1. /\ ends # {}
      /\ panelClass' = [panelClass EXCEPT ![p] =
           IF \E e \in ends : e.op = "show" THEN "show" ELSE "collapse"]
      /\ panelInst' = [panelInst EXCEPT ![p] = IF \E e \in ends : e.own THEN "idle" ELSE @]
      /\ panelEnds' = [panelEnds EXCEPT ![p] = <<>>]
      /\ byScript' = byScript /\ parentKind' = parentKind
      /\ expanded' = expanded /\ interfered' = interfered
  BY DEF PanelTransitionEnd
<1>2. (\E e \in ends : e.op = "show") <=> Opening(p)
  BY DEF Opening
<1>3. \E i \in DOMAIN panelEnds[p] : TRUE
  BY <1>1
<1>4. (\E e \in ends : e.own) <=> \E i \in DOMAIN panelEnds[p] : panelEnds[p][i].own
  OBVIOUS
<1> HIDE DEF ends
<1>5. CollapseTypeOK'
  <2>1. <<>> \in Seq(PanelEnd)
    BY EmptySeq
  <2> QED
    BY <1>1, <2>1 DEF CollapseTypeOK
<1> SUFFICES ASSUME ~interfered PROVE CollapseInv'
  BY <1>1, <1>5 DEF CollapseInv, MovesUntilEnd, TriggerTellsPanel, InstancesKept,
                    OneOpenPanel, Managed
<1>6. /\ panelEnds'[p] = <<>>
      /\ panelClass'[p] = IF Opening(p) THEN "show" ELSE "collapse"
      /\ \A q \in Panel \ {p} : /\ panelClass'[q] = panelClass[q]
                                /\ panelInst'[q] = panelInst[q]
                                /\ panelEnds'[q] = panelEnds[q]
  BY <1>1, <1>2 DEF CollapseTypeOK
<1>7. panelEnds[p] # <<>> /\ panelClass[p] = "collapsing"
  BY <1>3 DEF CollapseInv, MovesUntilEnd
<1>8. \A q \in Panel : IsOpen(q)' <=> IsOpen(q)
  <2> SUFFICES ASSUME NEW q \in Panel PROVE IsOpen(q)' <=> IsOpen(q)
    OBVIOUS
  <2>1. CASE q = p
    <3>1. ~ Opening(p)'
      BY <1>6 DEF Opening
    <3> QED
      BY <1>6, <1>7, <2>1, <3>1 DEF IsOpen
  <2>2. CASE q # p
    BY <1>6, <2>2 DEF IsOpen, Opening
  <2> QED
    BY <2>1, <2>2
<1>9. MovesUntilEnd'
  BY <1>1, <1>6 DEF CollapseInv, MovesUntilEnd
<1>10. TriggerTellsPanel' /\ OneOpenPanel'
  BY <1>1, <1>8 DEF CollapseInv, TriggerTellsPanel, OneOpenPanel, Managed
<1>11. InstancesKept'
  <2> SUFFICES ASSUME Managed, NEW q \in Panel
               PROVE  /\ panelInst'[q] # "none"
                      /\ panelInst'[q] = "transitioning" <=> panelEnds'[q] # <<>>
                      /\ \A i \in DOMAIN panelEnds'[q] : panelEnds'[q][i].own
    BY <1>1 DEF InstancesKept, Managed
  <2>1. CASE q = p
    <3>1. panelInst'[p] = "idle"
      BY <1>1, <1>3, <1>4 DEF CollapseInv, InstancesKept, CollapseTypeOK
    <3> QED
      BY <1>6, <2>1, <3>1
  <2>2. CASE q # p
    BY <1>6, <2>2 DEF CollapseInv, InstancesKept
  <2> QED
    BY <2>1, <2>2
<1> QED
  BY <1>9, <1>10, <1>11 DEF CollapseInv

\* Disposing of an instance is seen by `interfered`: nothing is promised then.
LEMMA DisposeInv ==
  ASSUME CollapseTypeOK, NEW p \in Panel, DisposePanel(p)
  PROVE  CollapseTypeOK' /\ CollapseInv'
<1>1. /\ panelInst' = [panelInst EXCEPT ![p] = "none"] /\ interfered' = TRUE
      /\ byScript' = byScript /\ parentKind' = parentKind
      /\ panelClass' = panelClass /\ expanded' = expanded
  BY DEF DisposePanel
<1>2. panelEnds' = [panelEnds EXCEPT ![p] = Only(panelEnds[p], {e \in PanelEnd : ~e.own})]
  BY DEF DisposePanel, CollapseTypeOK
<1>3. Only(panelEnds[p], {e \in PanelEnd : ~e.own}) \in Seq(PanelEnd)
  BY OnlyOf DEF CollapseTypeOK
<1>4. CollapseTypeOK'
  BY <1>1, <1>2, <1>3 DEF CollapseTypeOK
<1> QED
  BY <1>1, <1>4 DEF CollapseInv, MovesUntilEnd, TriggerTellsPanel, InstancesKept,
                    OneOpenPanel, Managed

-----------------------------------------------------------------------------
\* The panels of any page keep their types and the inductive invariant.
THEOREM PanelsKept == DocsSpec => [](CollapseTypeOK /\ CollapseInv)
<1>1. ASSUME Init PROVE CollapseTypeOK /\ CollapseInv
  <2>1. PICK kind \in {"none", "selector", "element"}, script \in BOOLEAN,
             shown \in SUBSET Panel :
               /\ kind = "none" \/ \A p, q \in shown : p = q
               /\ CollapseLoad(kind, script, shown)
    BY <1>1 DEF Init
  <2>2. /\ byScript = script /\ parentKind = kind /\ interfered = FALSE
        /\ panelClass = [p \in Panel |-> IF p \in shown THEN "show" ELSE "collapse"]
        /\ panelInst = [p \in Panel |-> IF script THEN "idle" ELSE "none"]
        /\ panelEnds = [p \in Panel |-> <<>>]
        /\ expanded = [p \in Panel |-> p \in shown]
    BY <2>1 DEF CollapseLoad
  <2>3. CollapseTypeOK
    <3>1. panelEnds \in [Panel -> Seq(PanelEnd)]
      <4>1. <<>> \in Seq(PanelEnd)
        BY EmptySeq
      <4> QED
        BY <2>2, <4>1
    <3>2. /\ panelClass \in [Panel -> {"collapse", "show", "collapsing"}]
          /\ panelInst \in [Panel -> {"none", "idle", "transitioning"}]
      BY <2>2
    <3>3. expanded \in [Panel -> BOOLEAN]
      <4>1. \A p \in Panel : (p \in shown) \in BOOLEAN
        OBVIOUS
      <4> QED
        BY <2>2, <4>1, Zenon
    <3> QED
      BY <2>2, <3>1, <3>2, <3>3 DEF CollapseTypeOK
  <2>4. \A p \in Panel : (IsOpen(p) <=> p \in shown) /\ DOMAIN panelEnds[p] = {}
    BY <2>2, EmptySeq DEF IsOpen, Opening
  <2>5. MovesUntilEnd /\ TriggerTellsPanel
    BY <2>2, <2>4 DEF MovesUntilEnd, TriggerTellsPanel
  <2>6. InstancesKept
    BY <2>2, <2>4 DEF InstancesKept, Managed
  <2>7. OneOpenPanel
    BY <2>1, <2>2, <2>4 DEF OneOpenPanel, Managed
  <2> QED
    BY <2>3, <2>5, <2>6, <2>7 DEF CollapseInv
<1>2. ASSUME CollapseTypeOK, CollapseInv, [Next]_collapseVars
      PROVE  CollapseTypeOK' /\ CollapseInv'
  <2>1. ASSUME NEW p \in Panel, NEW veto, Toggle(p, veto)
        PROVE  CollapseTypeOK' /\ CollapseInv'
    BY <1>2, <2>1, ToggleInv
  <2>2. ASSUME NEW p \in Panel, PanelTransitionEnd(p)
        PROVE  CollapseTypeOK' /\ CollapseInv'
    BY <1>2, <2>2, TransitionEndInv
  <2>3. ASSUME NEW p \in Panel, DisposePanel(p)
        PROVE  CollapseTypeOK' /\ CollapseInv'
    BY <1>2, <2>3, DisposeInv
  <2>4. CASE UNCHANGED collapseVars
    BY <1>2, <2>4 DEF collapseVars, CollapseTypeOK, CollapseInv, MovesUntilEnd,
         TriggerTellsPanel, InstancesKept, OneOpenPanel, Managed, IsOpen, Opening
  <2> QED
    BY <1>2, <2>1, <2>2, <2>3, <2>4 DEF Next
<1>3. DocsInit => Init
  <2>1. CollapseLoad("none", FALSE, {}) => Init
    BY DEF Init
  <2> QED
    BY <2>1 DEF DocsInit
<1>4. [DocsNext]_docsVars => [Next]_collapseVars
  BY DEF DocsNext, docsVars
<1> QED
  BY <1>1, <1>2, <1>3, <1>4, PTL DEF DocsSpec

\* An accordion whose panels all have their instance never has two panels open
\* or on their way to it (Open and MayOpen, the checks of show()).
THEOREM AtMostOneOpen == DocsSpec => []OneOpenPanel
<1>1. CollapseInv => OneOpenPanel
  BY DEF CollapseInv
<1> QED
  BY <1>1, PanelsKept, PTL

\* aria-expanded says of every panel whether it is open or opening, as long as
\* no hide was vetoed and no instance disposed of.
THEOREM TriggersTellPanels == DocsSpec => []TriggerTellsPanel
<1>1. CollapseInv => TriggerTellsPanel
  BY DEF CollapseInv
<1> QED
  BY <1>1, PanelsKept, PTL

-----------------------------------------------------------------------------
(***************************************************************************)
(* The menus (Dropdown).                                                   *)
(***************************************************************************)
\* One menu at most, and the classes and aria-expanded agree on which: what no
\* script or veto disturbs.  What is open has an instance, so that clearMenus()
\* finds it.
MenuInv ==
  /\ toggler = menu /\ menu \subseteq dropInst
  /\ ~dropForced => dropAria = menu /\ \A d, e \in menu : d = e

\* clearMenus() of any event keeps what the menus owe each other: it closes
\* menus, and their togglers with them.
LEMMA ClearMenus ==
  ASSUME MenuInv, NEW spared, NEW veto, Menus!Clear(spared, veto),
         dropInst \subseteq dropInst'
  PROVE  MenuInv'
<1>1. Menus!Cleared(spared, veto) = menu \ (spared \cup veto)
  BY DEF MenuInv, Menus!Cleared
<1>2. /\ toggler' = menu \ (menu \ (spared \cup veto))
      /\ menu' = toggler'
      /\ dropAria' = dropAria \ (menu \ (spared \cup veto))
      /\ dropForced' = (dropForced \/ (menu \ spared) \cap veto # {})
  BY <1>1 DEF MenuInv, Menus!Clear, Menus!Switch
<1> QED
  BY <1>2 DEF MenuInv

\* A click keeps it too: it clears the menus first, and then turns its own.
LEMMA ClickMenu ==
  ASSUME MenuInv, NEW d \in Drops, NEW veto, Menus!ClickDrop(d, veto)
  PROVE  MenuInv'
<1>1. dropInst' = dropInst \cup {d}
  BY DEF Menus!ClickDrop
<1>2. CASE d \in dropDisabled
  BY <1>1, <1>2, ClearMenus DEF Menus!ClickDrop, Menus!Toggle
<1>3. CASE d \notin dropDisabled
  <2> DEFINE opens == IF d \in menu THEN {} ELSE {d}
  <2>1. Menus!Cleared({}, veto) = menu \ veto
    BY DEF MenuInv, Menus!Cleared
  <2>2. /\ toggler' = (menu \ (menu \ veto)) \cup opens
        /\ menu' = toggler'
        /\ dropAria' = (dropAria \ (menu \ veto)) \cup opens
        /\ dropForced' = (dropForced \/ menu \cap veto # {})
    BY <1>3, <2>1 DEF MenuInv, Menus!ClickDrop, Menus!Toggle, Menus!Switch
  <2>3. menu \cap veto = {} => menu \ (menu \ veto) = {} /\ menu \ veto = menu
    OBVIOUS
  <2> QED
    BY <1>1, <2>2, <2>3 DEF MenuInv
<1> QED
  BY <1>2, <1>3

\* clearMenus() leaves everything of its type,
LEMMA ClearTyped ==
  ASSUME Menus!DropdownTypeOK, NEW spared, NEW veto, Menus!Clear(spared, veto)
  PROVE  /\ toggler' \subseteq Drops /\ menu' \subseteq Drops /\ dropAria' \subseteq Drops
         /\ dropForced' \in BOOLEAN
BY DEF Menus!DropdownTypeOK, Menus!Clear, Menus!Switch

\* so does a click,
LEMMA ClickTyped ==
  ASSUME Menus!DropdownTypeOK, NEW d \in Drops, NEW veto, Menus!ClickDrop(d, veto)
  PROVE  Menus!DropdownTypeOK'
<1>1. /\ dropInst' \subseteq Drops /\ dropDisabled' \subseteq Drops
      /\ dropFocus' = <<d, -1>> /\ <<d, -1>> \in Menus!DropElements
  BY DEF Menus!DropdownTypeOK, Menus!ClickDrop, Menus!DropElements
<1>2. /\ toggler' \subseteq Drops /\ menu' \subseteq Drops /\ dropAria' \subseteq Drops
      /\ dropForced' \in BOOLEAN
  <2>1. CASE d \in dropDisabled
    BY <2>1, ClearTyped DEF Menus!ClickDrop, Menus!Toggle
  <2>2. CASE d \notin dropDisabled
    <3> DEFINE opens == IF d \in toggler \cup menu THEN {} ELSE {d}
    <3>1. /\ Menus!Switch(Menus!Cleared({}, veto), opens)
          /\ dropForced' = (dropForced \/ toggler \cap veto # {})
      BY <2>2 DEF Menus!ClickDrop, Menus!Toggle
    <3>2. opens \subseteq Drops
      OBVIOUS
    <3> HIDE DEF opens
    <3> QED
      BY <3>1, <3>2 DEF Menus!DropdownTypeOK, Menus!Switch
  <2> QED
    BY <2>1, <2>2
<1> QED
  BY <1>1, <1>2 DEF Menus!DropdownTypeOK

\* and an arrow key finds an item of a menu that has one: it stops at both ends.
LEMMA ArrowFindsItem ==
  ASSUME NEW index \in Menus!Entry \cup {-1}, NEW isDown, NEntries > 0
  PROVE  Menus!ArrowIndex(index, isDown) \in Menus!Entry
BY DocsAssumption DEF Menus!Entry, Menus!ArrowIndex

\* Every step of the dropdowns keeps what the menus owe each other, and the focus
\* on an element of one of them, or outside all of them.
LEMMA MenuStep ==
  ASSUME MenuInv, Menus!DropdownTypeOK, Menus!Next
  PROVE  MenuInv' /\ Menus!DropdownTypeOK'
<1>1. ASSUME NEW d \in Drops, NEW veto, Menus!ClickDrop(d, veto)
      PROVE  MenuInv' /\ Menus!DropdownTypeOK'
  BY <1>1, ClickMenu, ClickTyped
<1>2. ASSUME NEW spared, NEW veto, Menus!Clear(spared, veto),
             UNCHANGED <<dropDisabled, dropInst>>,
             dropFocus' \in Menus!DropElements \cup {Menus!Nowhere}
      PROVE  MenuInv' /\ Menus!DropdownTypeOK'
  <2>1. MenuInv'
    BY <1>2, ClearMenus
  <2>2. Menus!DropdownTypeOK'
    BY <1>2, ClearTyped DEF Menus!DropdownTypeOK
  <2> QED
    BY <2>1, <2>2
<1>3. ASSUME dropFocus # Menus!Nowhere
      PROVE  /\ dropFocus[1] \in Drops /\ dropFocus[2] \in Menus!Entry \cup {-1}
             /\ <<dropFocus[1], -1>> \in Menus!DropElements
  BY <1>3 DEF Menus!DropdownTypeOK, Menus!DropElements
<1>4. ASSUME NEW target \in Menus!DropElements \cup {Menus!Nowhere}, NEW veto,
             Menus!ClickOutside(target, veto) \/ Menus!Tab(target, veto)
      PROVE  MenuInv' /\ Menus!DropdownTypeOK'
  BY <1>2, <1>4 DEF Menus!ClickOutside, Menus!Tab
<1>5. ASSUME NEW veto, Menus!Escape(veto) PROVE MenuInv' /\ Menus!DropdownTypeOK'
  BY <1>2, <1>3, <1>5 DEF Menus!Escape
<1>6. ASSUME NEW isDown, NEW veto, Menus!Arrow(isDown, veto)
      PROVE  MenuInv' /\ Menus!DropdownTypeOK'
  <2>1. dropFocus # Menus!Nowhere
    BY <1>6 DEF Menus!Arrow
  <2>2. CASE Menus!ClickDrop(dropFocus[1], veto)
    BY <1>1, <1>3, <2>1, <2>2
  <2>3. CASE /\ NEntries > 0
             /\ dropFocus' = <<dropFocus[1], Menus!ArrowIndex(dropFocus[2], isDown)>>
             /\ UNCHANGED <<dropDisabled, dropInst, toggler, menu, dropAria, dropForced>>
    <3>1. dropFocus' \in Menus!DropElements
      BY <1>3, <2>1, <2>3, ArrowFindsItem DEF Menus!DropElements
    <3> QED
      BY <2>3, <3>1 DEF MenuInv, Menus!DropdownTypeOK
  <2> QED
    BY <1>6, <2>2, <2>3 DEF Menus!Arrow
<1>7. ASSUME NEW d \in Drops, Menus!ScriptShow(d) PROVE MenuInv' /\ Menus!DropdownTypeOK'
  BY <1>7 DEF MenuInv, Menus!DropdownTypeOK, Menus!DropElements, Menus!ScriptShow, Menus!Switch
<1>8. ASSUME NEW d \in Drops, Menus!ScriptHide(d) PROVE MenuInv' /\ Menus!DropdownTypeOK'
  BY <1>8 DEF MenuInv, Menus!DropdownTypeOK, Menus!ScriptHide
<1> QED
  BY <1>1, <1>4, <1>5, <1>6, <1>7, <1>8 DEF Menus!Next

\* Every page keeps the invariant of its menus.
THEOREM MenusKept == DocsSpec => [](MenuInv /\ Menus!DropdownTypeOK)
<1>1. ASSUME DocsInit PROVE MenuInv /\ Menus!DropdownTypeOK
  <2>1. \E disabled \in SUBSET Drops : Menus!DropdownLoad(disabled)
    BY <1>1 DEF DocsInit, Menus!Init
  <2> QED
    BY <2>1 DEF Menus!DropdownLoad, MenuInv, Menus!DropdownTypeOK
<1>2. ASSUME MenuInv, Menus!DropdownTypeOK, [DocsNext]_docsVars
      PROVE  MenuInv' /\ Menus!DropdownTypeOK'
  <2>1. CASE Menus!Next
    BY <1>2, <2>1, MenuStep
  <2>2. CASE UNCHANGED dropdownVars
    BY <1>2, <2>2 DEF dropdownVars, MenuInv, Menus!DropdownTypeOK
  <2>3. DocsNext => Menus!Next \/ UNCHANGED dropdownVars
    BY DEF DocsNext
  <2>4. UNCHANGED docsVars => UNCHANGED dropdownVars
    BY DEF docsVars
  <2> QED
    BY <1>2, <2>1, <2>2, <2>3, <2>4
<1> QED
  BY <1>1, <1>2, PTL DEF DocsSpec

\* A click turns the menu whose toggler it meets, whatever the event of the same
\* click closed before it (Dropdown.toggle and Dropdown.clearMenus), unless a
\* listener refuses the event.
THEOREM MenusToggle == DocsSpec => Menus!ClickToggles
<1>1. ASSUME MenuInv, NEW d \in Drops \ dropDisabled, Menus!ClickDrop(d, {})
      PROVE  d \in menu' <=> d \notin menu
  <2>1. Menus!Cleared({}, {}) = menu
    BY <1>1 DEF MenuInv, Menus!Cleared
  <2>2. menu' = (menu \ menu) \cup (IF d \in menu THEN {} ELSE {d})
    BY <1>1, <2>1 DEF MenuInv, Menus!ClickDrop, Menus!Toggle, Menus!Switch
  <2> QED
    BY <2>2
<1>2. MenuInv => [\A d \in Drops \ dropDisabled :
                    Menus!ClickDrop(d, {}) => (d \in menu' <=> d \notin menu)]_Menus!dropdownVars
  BY <1>1
<1> QED
  BY <1>2, MenusKept, PTL DEF Menus!ClickToggles

-----------------------------------------------------------------------------
(***************************************************************************)
(* The panes (Offcanvas).                                                  *)
(***************************************************************************)
PaneState == [isShown : BOOLEAN, toggling : BOOLEAN, visible : BOOLEAN,
              timers : Seq({"show", "hide"}), hurried : BOOLEAN]

\* A pane whose calls waited for one another has one timer at most, which ends
\* what the last call began.
Animated(r) ==
  ~r.hurried =>
    /\ r.isShown => r.visible
    /\ \/ r.timers = <<>> /\ r.visible = r.isShown
       \/ r.timers = <<IF r.isShown THEN "show" ELSE "hide">>

\* The panes of a page without a modal: one is shown at most as long as togglers
\* show them, and each of them is animated as its own calls left it.
PanesInv ==
  widget = "panes" =>
    /\ panes \in [Panes!Pane -> PaneState] /\ scripted \in BOOLEAN
    /\ paneConf \in Panes!PaneConf /\ paneTrap \in 0..NPanes
    /\ Panes!OnePaneByTogglers
    /\ \A p \in Panes!Pane : Animated(panes[p])

\* show() and hide() of a pane begin an animation of the way it turns.
LEMMA BeginAnimated ==
  ASSUME NEW r \in PaneState, Animated(r), NEW op \in {"show", "hide"}
  PROVE  /\ Panes!Begin(r, op) \in PaneState /\ Animated(Panes!Begin(r, op))
         /\ Panes!Begin(r, op).isShown = (op = "show")
<1> DEFINE b == Panes!Begin(r, op)
<1>1. r.timers \in Seq({"show", "hide"}) /\ Append(r.timers, op) \in Seq({"show", "hide"})
  BY AppendProperties DEF PaneState
<1>2. b \in PaneState
  BY <1>1 DEF PaneState, Panes!Begin
<1>3. /\ b.isShown = (op = "show") /\ b.visible = (r.visible \/ op = "show")
      /\ b.timers = Append(r.timers, op)
      /\ b.hurried = (r.hurried \/ r.timers # <<>>)
  BY DEF PaneState, Panes!Begin
<1>4. Append(<<>>, op) = <<op>>
  OBVIOUS
<1>5. Animated(b)
  BY <1>3, <1>4 DEF Animated
<1> QED
  BY <1>2, <1>3, <1>5

\* Showing and hiding some panes at once keeps the panes' invariant.
LEMMA PanesChangeInv ==
  ASSUME widget = "panes", PanesInv, NEW shows \in SUBSET Panes!Pane,
         NEW hides \in SUBSET Panes!Pane, Panes!PanesChange(shows, hides)
  PROVE  /\ panes' \in [Panes!Pane -> PaneState]
         /\ \A p \in Panes!Pane : Animated(panes'[p])
         /\ Panes!Shown' = (Panes!Shown \ hides) \cup shows
         /\ paneConf' \in Panes!PaneConf /\ paneTrap' \in 0..NPanes
<1>1. /\ panes \in [Panes!Pane -> PaneState]
      /\ \A p \in Panes!Pane : panes[p] \in PaneState /\ Animated(panes[p])
  BY DEF PanesInv
<1>2. panes' = [p \in Panes!Pane |-> IF p \in shows THEN Panes!Begin(panes[p], "show")
                                     ELSE IF p \in hides THEN Panes!Begin(panes[p], "hide")
                                     ELSE panes[p]]
  BY DEF Panes!PanesChange
<1>3. \A p \in Panes!Pane, op \in {"show", "hide"} :
        /\ Panes!Begin(panes[p], op) \in PaneState /\ Animated(Panes!Begin(panes[p], op))
        /\ Panes!Begin(panes[p], op).isShown = (op = "show")
  BY <1>1, BeginAnimated
<1>4. \A p \in Panes!Pane :
        /\ panes'[p] \in PaneState /\ Animated(panes'[p])
        /\ panes'[p].isShown <=> p \in shows \/ (panes[p].isShown /\ p \notin hides)
  BY <1>1, <1>2, <1>3 DEF PaneState
<1>5. paneConf' \in Panes!PaneConf /\ paneTrap' \in 0..NPanes
  BY DocsAssumption DEF PanesInv, Panes!PanesChange
<1> QED
  BY <1>2, <1>4, <1>5 DEF Panes!Shown

\* A pane after the oldest of its timers.
Ended(r) == [r EXCEPT !.timers = Tail(r.timers), !.toggling = FALSE,
                      !.visible = r.visible /\ Head(r.timers) = "show"]

\* The end of the oldest animation leaves the pane as the newer one, if any,
\* wants it.
LEMMA EndAnimated ==
  ASSUME NEW r \in PaneState, Animated(r), r.timers # <<>>
  PROVE  /\ Ended(r) \in PaneState /\ Animated(Ended(r))
         /\ Ended(r).isShown = r.isShown /\ Ended(r).timers = Tail(r.timers)
         /\ Ended(r).hurried = r.hurried
<1>1. r.timers \in Seq({"show", "hide"}) /\ Tail(r.timers) \in Seq({"show", "hide"})
  BY HeadTailProperties DEF PaneState
<1>2. Ended(r) \in PaneState
  BY <1>1 DEF PaneState, Ended
<1>3. /\ Ended(r).isShown = r.isShown /\ Ended(r).timers = Tail(r.timers)
      /\ Ended(r).visible = (r.visible /\ Head(r.timers) = "show")
      /\ Ended(r).hurried = r.hurried /\ r.isShown \in BOOLEAN
  BY DEF PaneState, Ended
<1>4. \A x \in {"show", "hide"} : Head(<<x>>) = x /\ Tail(<<x>>) = <<>>
  OBVIOUS
<1>5. Animated(Ended(r))
  BY <1>3, <1>4 DEF Animated
<1> QED
  BY <1>2, <1>3, <1>5

\* The end of an animation of a pane keeps it.
LEMMA PaneTimerInv ==
  ASSUME widget = "panes", PanesInv, NEW p \in Panes!Pane, Panes!PaneTimer(p)
  PROVE  /\ panes' \in [Panes!Pane -> PaneState]
         /\ \A q \in Panes!Pane : Animated(panes'[q])
         /\ Panes!Shown' = Panes!Shown
         /\ paneConf' \in Panes!PaneConf /\ paneTrap' \in 0..NPanes
<1>1. /\ panes \in [Panes!Pane -> PaneState]
      /\ \A q \in Panes!Pane : panes[q] \in PaneState /\ Animated(panes[q])
  BY DEF PanesInv
<1>2. panes[p].timers # <<>> /\ panes' = [panes EXCEPT ![p] = Ended(panes[p])]
  BY <1>1 DEF Panes!PaneTimer, PaneState, Ended
<1>3. /\ Ended(panes[p]) \in PaneState /\ Animated(Ended(panes[p]))
      /\ Ended(panes[p]).isShown = panes[p].isShown
  BY <1>1, <1>2, EndAnimated
<1>4. \A q \in Panes!Pane : panes'[q] = IF q = p THEN Ended(panes[p]) ELSE panes[q]
  BY <1>1, <1>2
<1>5. panes' \in [Panes!Pane -> PaneState]
  BY <1>1, <1>2, <1>3
<1>6. paneConf' \in Panes!PaneConf /\ paneTrap' \in 0..NPanes
  BY DEF PanesInv, Panes!PaneTimer, Panes!Pane
<1> QED
  BY <1>1, <1>3, <1>4, <1>5, <1>6 DEF Panes!Shown

\* Every step of the panes keeps it.
LEMMA PanesStep ==
  ASSUME widget = "panes", PanesInv, Panes!OffcanvasNext, widget' = widget
  PROVE  PanesInv'
<1>1. scripted \in BOOLEAN /\ (~scripted => \A p, q \in Panes!Shown : p = q)
  BY DEF PanesInv, Panes!OnePaneByTogglers
<1>2. Panes!Shown \subseteq Panes!Pane
  BY DEF Panes!Shown
<1>3. ASSUME NEW shows \in SUBSET Panes!Pane, NEW hides \in SUBSET Panes!Pane,
             Panes!PanesChange(shows, hides), scripted' \in BOOLEAN,
             ~scripted' => \A p, q \in (Panes!Shown \ hides) \cup shows : p = q
      PROVE  PanesInv'
  BY <1>3, PanesChangeInv DEF PanesInv, Panes!OnePaneByTogglers
<1>4. ASSUME NEW p \in Panes!Pane, Panes!ClickPaneToggler(p) PROVE PanesInv'
  <2> DEFINE opens == ~ (Panes!AlreadyOpen(p) \/ panes[p].isShown)
             shows == IF opens THEN {p} ELSE {}
             hides == IF Panes!AlreadyOpen(p) THEN Panes!Shown \ {p} ELSE Panes!Shown
  <2>1. Panes!PanesChange(shows, hides) /\ scripted' = scripted
    BY <1>4 DEF Panes!ClickPaneToggler, Panes!Change
  <2>2. shows \in SUBSET Panes!Pane /\ hides \in SUBSET Panes!Pane
    BY <1>2
  <2>3. \A q \in (Panes!Shown \ hides) \cup shows : q = p
    OBVIOUS
  <2> HIDE DEF shows, hides
  <2> QED
    BY <1>1, <1>3, <2>1, <2>2, <2>3
<1>5. ASSUME NEW hides \in SUBSET Panes!Shown, Panes!Change({}, hides), scripted' = scripted
      PROVE  PanesInv'
  <2>1. Panes!PanesChange({}, hides)
    BY <1>5 DEF Panes!Change
  <2> QED
    BY <1>1, <1>2, <1>3, <1>5, <2>1
<1>6. ASSUME NEW inside, Panes!ClickElsewhere(inside) PROVE PanesInv'
  BY <1>5, <1>6 DEF Panes!ClickElsewhere
<1>7. CASE Panes!PaneEscape
  BY <1>5, <1>7 DEF Panes!PaneEscape, Panes!HiddenByEscape
<1>11. ASSUME NEW p \in Panes!Pane, Panes!ClickInsideToggler(p) PROVE PanesInv'
  <2> DEFINE b == Panes!Begin(panes[p], "show")
             e == Panes!Begin(b, "hide")
             h(q) == Panes!Begin(panes[q], "hide")
  <2>1. /\ panes \in [Panes!Pane -> PaneState] /\ paneConf \in Panes!PaneConf
        /\ \A q \in Panes!Pane : panes[q] \in PaneState /\ Animated(panes[q])
    BY DEF PanesInv
  <2>2. panes' = [q \in Panes!Pane |-> IF q = p THEN e
                                      ELSE IF q \in Panes!Shown THEN h(q) ELSE panes[q]]
    BY <1>11, Zenon DEF Panes!ClickInsideToggler
  <2>3. paneTrap' = 0 /\ paneConf' = paneConf /\ scripted' = scripted
    BY <1>11 DEF Panes!ClickInsideToggler
  <2>4. b \in PaneState /\ Animated(b)
    BY <1>11, <2>1, BeginAnimated
  <2>5. e \in PaneState /\ Animated(e) /\ e.isShown = FALSE
    BY <2>4, BeginAnimated
  <2>6. \A q \in Panes!Pane :
          h(q) \in PaneState /\ Animated(h(q)) /\ h(q).isShown = FALSE
    BY <2>1, BeginAnimated
  <2> HIDE DEF e, h
  <2>7. \A q \in Panes!Pane :
          panes'[q] \in PaneState /\ Animated(panes'[q]) /\ ~panes'[q].isShown
    BY <2>1, <2>2, <2>5, <2>6 DEF Panes!Shown
  <2>8. panes' \in [Panes!Pane -> PaneState] /\ Panes!Shown' = {}
    BY <2>2, <2>7 DEF Panes!Shown
  <2>9. 0 \in 0..NPanes
    BY DocsAssumption
  <2> QED
    BY <1>1, <2>1, <2>3, <2>7, <2>8, <2>9 DEF PanesInv, Panes!OnePaneByTogglers
<1>8. ASSUME NEW p \in Panes!Pane, Panes!ScriptShows(p) PROVE PanesInv'
  <2>1. Panes!PanesChange({p}, {}) /\ scripted' = TRUE
    BY <1>8 DEF Panes!ScriptShows, Panes!Change
  <2> QED
    BY <1>3, <2>1
<1>9. ASSUME NEW p \in Panes!Pane, Panes!ScriptHides(p) PROVE PanesInv'
  <2>1. {p} \in SUBSET Panes!Shown /\ Panes!Change({}, {p}) /\ scripted' = scripted
    BY <1>9 DEF Panes!ScriptHides, Panes!Shown
  <2> QED
    BY <1>5, <2>1
<1>10. ASSUME NEW p \in Panes!Pane, Panes!PaneTimer(p) PROVE PanesInv'
  <2>1. scripted' = scripted
    BY <1>10 DEF Panes!PaneTimer
  <2> QED
    BY <1>1, <1>10, <2>1, PaneTimerInv DEF PanesInv, Panes!OnePaneByTogglers
<1> QED
  BY <1>4, <1>6, <1>7, <1>8, <1>9, <1>10, <1>11 DEF Panes!OffcanvasNext, Panes!PaneUser

\* Togglers never show two panes, and what is shown can be seen.
THEOREM PanesKept == DocsSpec => []PanesInv
<1>1. ASSUME DocsInit PROVE PanesInv
  <2> SUFFICES ASSUME widget = "panes" PROVE PanesInv
    BY DEF PanesInv
  <2>1. PICK conf \in Panes!PaneConf : Panes!OffcanvasLoad(conf)
    BY <1>1 DEF DocsInit, OverlaysInit, Panes!OffcanvasInit
  <2>2. panes = [p \in Panes!Pane |-> [isShown |-> FALSE, toggling |-> FALSE,
                  visible |-> FALSE, timers |-> <<>>, hurried |-> FALSE]] /\ scripted = FALSE
    BY <2>1 DEF Panes!OffcanvasLoad
  <2>3. paneConf \in Panes!PaneConf /\ paneTrap \in 0..NPanes
    BY <2>1, DocsAssumption DEF Panes!OffcanvasLoad
  <2>4. <<>> \in Seq({"show", "hide"})
    BY EmptySeq
  <2>5. panes \in [Panes!Pane -> PaneState] /\ \A p \in Panes!Pane : Animated(panes[p])
    BY <2>2, <2>4 DEF PaneState, Animated
  <2>6. Panes!Shown = {}
    BY <2>2 DEF Panes!Shown
  <2> QED
    BY <2>2, <2>3, <2>5, <2>6 DEF PanesInv, Panes!OnePaneByTogglers
<1>2. ASSUME PanesInv, [DocsNext]_docsVars PROVE PanesInv'
  <2>1. CASE UNCHANGED docsVars
    BY <1>2, <2>1 DEF docsVars, panesVars, PanesInv, Panes!OnePaneByTogglers, Panes!Shown
  <2>2. CASE DocsNext
    <3>1. widget' = widget /\ (widget = "panes" => Panes!OffcanvasNext)
      BY <2>2 DEF DocsNext
    <3> QED
      BY <1>2, <3>1, PanesStep DEF PanesInv
  <2> QED
    BY <1>2, <2>1, <2>2
<1> QED
  BY <1>1, <1>2, PTL DEF DocsSpec

\* A pane that waits for nothing is visible when it is shown, and only then.
LEMMA PanesVisible == ASSUME PanesInv, widget = "panes"
                      PROVE  Panes!OnePaneByTogglers /\ Panes!ShownIsVisible
<1>1. ASSUME NEW p \in Panes!Pane, ~panes[p].hurried
      PROVE  /\ panes[p].isShown => panes[p].visible
             /\ panes[p].timers = <<>> => panes[p].visible = panes[p].isShown
  <2>1. Animated(panes[p]) /\ \A x : <<x>> # <<>>
    BY DEF PanesInv
  <2> QED
    BY <1>1, <2>1 DEF Animated
<1> QED
  BY <1>1 DEF PanesInv, Panes!ShownIsVisible

\* Togglers open one menu, and one pane, at a time, and a pane that is shown
\* can be seen (Dropdown's Toggle and Clear, Offcanvas' ClickPaneToggler).
THEOREM OneOfManyKept == DocsSpec => []OneOfMany
<1>1. ASSUME MenuInv, PanesInv PROVE OneOfMany
  <2>1. Menus!OneOpenMenu
    BY <1>1 DEF MenuInv, Menus!OneOpenMenu
  <2> QED
    BY <1>1, <2>1, PanesVisible DEF OneOfMany
<1> QED
  BY <1>1, MenusKept, PanesKept, PTL

-----------------------------------------------------------------------------
(***************************************************************************)
(* The toast (Toast).                                                      *)
(***************************************************************************)
\* The state of a toast.
ToastState == [show : BOOLEAN, showing : BOOLEAN, hide : BOOLEAN,
               ends : Seq({"show", "hide"}), timers : Nat, kept : BOOLEAN,
               hurried : BOOLEAN]

\* A toast whose calls waited for the fade before them has at most the timer it
\* remembers, and one callback to come, that of the class it lacks.
Unhurried(t) ==
  /\ t.timers = (IF t.kept THEN 1 ELSE 0)
  /\ t.showing <=> t.ends = <<"show">>
  /\ ~(t.show /\ t.hide)
  /\ \/ t.ends = <<>>
     \/ t.ends = <<"show">> /\ ~t.hide /\ t.timers = 0
     \/ t.ends = <<"hide">> /\ ~t.hide /\ ~t.show

\* The timer that is remembered runs, and a toast that is to hide by itself has
\* a timer, or the callback that starts one.
ToastOk(t, vetoed) ==
  /\ t.kept => t.timers > 0
  /\ t.show /\ toastConf.autohide /\ ~vetoed =>
       t.timers > 0 \/ \E i \in DOMAIN t.ends : t.ends[i] = "show"
  /\ ~t.hurried => Unhurried(t)

\* The timers of a toast, and those that its callbacks can still start.
Due(t) == t.timers + Len(t.ends)

\* The inductive invariant of the toast.
ToastInv ==
  /\ toastConf \in Toasts!ToastConf /\ toast \in ToastState /\ toastVetoed \in BOOLEAN
  /\ ToastOk(toast, toastVetoed)
  /\ Due(toast) <= MaxToastTimers

\* A callback is added behind those that wait.
LEMMA OneMore ==
  ASSUME NEW S, NEW s \in Seq(S), NEW e \in S
  PROVE  /\ Append(s, e) \in Seq(S) /\ \E i \in DOMAIN Append(s, e) : Append(s, e)[i] = e
         /\ \A i \in DOMAIN s : i \in DOMAIN Append(s, e) /\ Append(s, e)[i] = s[i]
         /\ s = <<>> => Append(s, e) = <<e>>
         /\ Len(Append(s, e)) = Len(s) + 1
<1>1. /\ Append(s, e) \in Seq(S) /\ Len(Append(s, e)) = Len(s) + 1
      /\ Append(s, e)[Len(s) + 1] = e /\ Len(s) \in Nat
      /\ \A i \in 1..Len(s) : Append(s, e)[i] = s[i]
  BY AppendProperties, LenProperties
<1>2. DOMAIN s = 1..Len(s) /\ DOMAIN Append(s, e) = 1..(Len(s) + 1)
  BY <1>1, LenProperties
<1>3. s = <<>> => Append(s, e) = <<e>>
  OBVIOUS
<1>4. Len(s) + 1 \in DOMAIN Append(s, e) /\ \A i \in DOMAIN s : i \in DOMAIN Append(s, e)
  BY <1>1, <1>2
<1>5. \A i \in DOMAIN s : Append(s, e)[i] = s[i]
  BY <1>1, <1>2
<1> QED
  BY <1>1, <1>3, <1>4, <1>5

\* What is due is a number.
LEMMA DueCount == ASSUME NEW t \in ToastState
                  PROVE  t.timers \in Nat /\ Len(t.ends) \in Nat /\ Due(t) \in Nat
<1>1. t.timers \in Nat /\ t.ends \in Seq({"show", "hide"})
  BY DEF ToastState
<1> QED
  BY <1>1, LenProperties DEF Due

\* Sequences of one element differ if their elements do, and from the empty one.
LEMMA OneOrNone ==
  <<"show">> # <<"hide">> /\ <<"show">> # <<>> /\ <<"hide">> # <<>>
OBVIOUS

\* The callback of show() starts the timer of autohide.
LEMMA ToastShownFields ==
  ASSUME NEW t \in ToastState
  PROVE  LET s == Toasts!ToastShown(t)
         IN /\ s \in ToastState /\ s.ends = t.ends /\ s.hurried = t.hurried
            /\ s.show /\ ~s.showing /\ s.hide = t.hide
            /\ IF toastConf.autohide THEN s.timers = t.timers + 1 /\ s.kept
               ELSE s.timers = t.timers /\ s.kept = t.kept
<1> DEFINE n == [t EXCEPT !.showing = FALSE, !.show = TRUE]
           k == t.timers + 1
<1>1. /\ n \in ToastState /\ n.ends = t.ends /\ n.hurried = t.hurried /\ n.show = TRUE
      /\ n.showing = FALSE /\ n.hide = t.hide /\ n.timers = t.timers /\ n.kept = t.kept
  BY DEF ToastState
<1>2. k \in Nat
  BY DEF ToastState
<1>3. CASE ~toastConf.autohide
  <2>1. Toasts!ToastShown(t) = n
    BY <1>3, Zenon DEF Toasts!ToastShown
  <2> HIDE DEF n
  <2> QED
    BY <1>1, <1>3, <2>1
<1>4. CASE toastConf.autohide
  <2>1. Toasts!ToastShown(t) = [n EXCEPT !.timers = n.timers + 1, !.kept = TRUE]
    BY <1>4, Zenon DEF Toasts!ToastShown
  <2>2. Toasts!ToastShown(t) = [n EXCEPT !.timers = k, !.kept = TRUE]
    BY <2>1, <1>1
  <2> HIDE DEF n, k
  <2>3. [n EXCEPT !.timers = k, !.kept = TRUE] \in ToastState
    BY <1>1, <1>2 DEF ToastState
  <2>4. LET s == [n EXCEPT !.timers = k, !.kept = TRUE]
        IN /\ s.ends = n.ends /\ s.hurried = n.hurried /\ s.show = n.show
           /\ s.showing = n.showing /\ s.hide = n.hide /\ s.timers = k /\ s.kept = TRUE
    BY <1>1 DEF ToastState
  <2>5. k = t.timers + 1
    BY DEF k
  <2> QED
    BY <1>1, <1>4, <2>2, <2>3, <2>4, <2>5
<1> QED
  BY <1>3, <1>4

\* The callback of hide().
LEMMA ToastHiddenFields ==
  ASSUME NEW t \in ToastState
  PROVE  LET s == Toasts!ToastHidden(t)
         IN /\ s \in ToastState /\ s.ends = t.ends /\ s.hurried = t.hurried
            /\ s.show = t.show /\ s.showing = t.showing /\ s.hide
            /\ s.timers = t.timers /\ s.kept = t.kept
BY DEF Toasts!ToastHidden, ToastState

\* hide() leaves the toast without `show`.
LEMMA HideToastKeeps ==
  ASSUME NEW t \in ToastState, toastConf \in Toasts!ToastConf, NEW vetoed,
         t.kept => t.timers > 0, ~t.hurried => Unhurried(t)
  PROVE  LET s == Toasts!HideToast(t)
         IN s \in ToastState /\ ToastOk(s, vetoed) /\ Due(s) <= Due(t) + 1
<1> DEFINE s == Toasts!HideToast(t)
           w == t.hurried \/ t.ends # <<>>
           h == [t EXCEPT !.hurried = w, !.show = FALSE]
           e == Append(t.ends, "hide")
<1>1. t.ends \in Seq({"show", "hide"}) /\ t.hurried \in BOOLEAN
  BY DEF ToastState
<1> SUFFICES s \in ToastState /\ ToastOk(s, vetoed) /\ Due(s) <= Due(t) + 1
  OBVIOUS
<1>3. t.timers \in Nat /\ Len(t.ends) \in Nat /\ Due(t) = t.timers + Len(t.ends)
  BY DueCount DEF Due
<1>6. ~w => /\ t.ends = <<>> /\ ~t.showing /\ t.timers = (IF t.kept THEN 1 ELSE 0)
            /\ t.show => ~t.hide
  BY OneOrNone DEF Unhurried
<1>2. CASE ~t.show
  <2>1. s = t
    BY <1>2, Zenon DEF Toasts!HideToast
  <2> QED
    BY <1>2, <1>3, <2>1 DEF ToastOk
<1>4. CASE t.show /\ toastConf.animation
  <2> DEFINE a == [h EXCEPT !.ends = e]
  <2>1. s = [h EXCEPT !.ends = Append(h.ends, "hide")]
    BY <1>4, Zenon DEF Toasts!HideToast, Toasts!Hurry
  <2>2. /\ h.ends = t.ends /\ h.show = FALSE /\ h.hurried = w /\ h \in ToastState
        /\ h.showing = t.showing /\ h.hide = t.hide /\ h.timers = t.timers /\ h.kept = t.kept
    BY DEF ToastState
  <2>3. /\ e \in Seq({"show", "hide"}) /\ (t.ends = <<>> => e = <<"hide">>)
        /\ Len(e) = Len(t.ends) + 1
    BY <1>1, OneMore
  <2> HIDE DEF h, e
  <2>4. /\ a \in ToastState /\ a.ends = e /\ a.show = FALSE /\ a.hurried = w
        /\ a.showing = t.showing /\ a.hide = t.hide /\ a.timers = t.timers /\ a.kept = t.kept
    BY <2>2, <2>3 DEF ToastState
  <2>5. s = a
    BY <2>1, <2>2 DEF e
  <2> HIDE DEF a, s
  <2>6. ~a.hurried => Unhurried(a)
    <3> HIDE DEF w
    <3> QED
      BY <1>4, <1>6, <2>3, <2>4, OneOrNone DEF Unhurried
  <2>7. Due(a) <= Due(t) + 1
    BY <1>3, <2>3, <2>4 DEF Due
  <2> QED
    BY <2>4, <2>5, <2>6, <2>7 DEF ToastOk
<1>5. CASE t.show /\ ~toastConf.animation
  <2>1. s = Toasts!ToastHidden(h)
    BY <1>5, Zenon DEF Toasts!HideToast, Toasts!Hurry
  <2>2. /\ h.ends = t.ends /\ h.show = FALSE /\ h.hurried = w /\ h \in ToastState
        /\ h.showing = t.showing /\ h.hide = t.hide /\ h.timers = t.timers /\ h.kept = t.kept
    BY DEF ToastState
  <2> HIDE DEF h
  <2>3. /\ s \in ToastState /\ s.ends = t.ends /\ s.hurried = w /\ ~s.show
        /\ s.showing = t.showing /\ s.hide /\ s.timers = t.timers /\ s.kept = t.kept
    BY <2>1, <2>2, ToastHiddenFields
  <2> HIDE DEF s
  <2>4. ~s.hurried => Unhurried(s)
    <3> HIDE DEF w
    <3> QED
      BY <1>5, <1>6, <2>3, OneOrNone DEF Unhurried
  <2>5. Due(s) <= Due(t) + 1
    BY <1>3, <2>3 DEF Due
  <2> QED
    BY <2>3, <2>4, <2>5 DEF ToastOk
<1> QED
  BY <1>2, <1>4, <1>5

\* show() cancels the timer it remembers.
LEMMA ShowToastKeeps ==
  ASSUME NEW t \in ToastState, toastConf \in Toasts!ToastConf, NEW vetoed, ToastOk(t, vetoed)
  PROVE  LET s == Toasts!ShowToast(t)
         IN s \in ToastState /\ ToastOk(s, vetoed) /\ Due(s) <= Due(t) + 1
<1> DEFINE s == Toasts!ShowToast(t)
           w == t.hurried \/ t.ends # <<>>
           k == IF t.kept THEN t.timers - 1 ELSE t.timers
           h == [t EXCEPT !.hurried = w]
           c == [h EXCEPT !.timers = k, !.kept = FALSE]
           r == [c EXCEPT !.hide = FALSE, !.showing = TRUE]
           e == Append(t.ends, "show")
<1> SUFFICES s \in ToastState /\ ToastOk(s, vetoed) /\ Due(s) <= Due(t) + 1
  OBVIOUS
<1>9. /\ t.timers \in Nat /\ Len(t.ends) \in Nat /\ Due(t) = t.timers + Len(t.ends)
      /\ k <= t.timers
  BY DueCount DEF Due
<1>1. /\ t.ends \in Seq({"show", "hide"}) /\ t.hurried \in BOOLEAN
      /\ k \in Nat /\ toastConf.autohide \in BOOLEAN /\ toastConf.animation \in BOOLEAN
  BY DEF ToastState, ToastOk, Toasts!ToastConf
<1>2. /\ h \in ToastState /\ h.ends = t.ends /\ h.hurried = w /\ h.show = t.show
      /\ h.timers = t.timers /\ h.kept = t.kept
  BY DEF ToastState
<1>3. s = IF toastConf.animation THEN [r EXCEPT !.ends = Append(r.ends, "show")]
          ELSE Toasts!ToastShown(r)
  <2>1. Toasts!ClearTimeout(h) = c
    <3>1. Toasts!ClearTimeout(h) = [h EXCEPT !.timers = IF h.kept THEN h.timers - 1 ELSE h.timers,
                                             !.kept = FALSE]
      BY Zenon DEF Toasts!ClearTimeout
    <3> HIDE DEF h
    <3> QED
      BY <3>1, <1>2
  <2>2. Toasts!Hurry(t) = h
    BY Zenon DEF Toasts!Hurry
  <2> HIDE DEF h, c
  <2> QED
    BY <2>1, <2>2, Zenon DEF Toasts!ShowToast
<1>4. ~w => /\ t.ends = <<>> /\ k = 0
  BY OneOrNone DEF Unhurried, ToastOk
<1> HIDE DEF h, k, s, w
<1>5. /\ c \in ToastState /\ c.ends = t.ends /\ c.hurried = w /\ c.show = t.show
      /\ c.timers = k /\ c.kept = FALSE
  BY <1>1, <1>2 DEF ToastState
<1> HIDE DEF c
<1>6. /\ r \in ToastState /\ r.ends = t.ends /\ r.hurried = w /\ r.show = t.show
      /\ r.timers = k /\ r.kept = FALSE /\ r.hide = FALSE /\ r.showing = TRUE
  BY <1>5 DEF ToastState
<1> HIDE DEF r
<1>7. CASE toastConf.animation
  <2> DEFINE a == [r EXCEPT !.ends = e]
  <2>1. /\ e \in Seq({"show", "hide"}) /\ (t.ends = <<>> => e = <<"show">>)
        /\ \E i \in DOMAIN e : e[i] = "show"
        /\ Len(e) = Len(t.ends) + 1
    BY <1>1, OneMore
  <2>2. s = a
    BY <1>3, <1>6, <1>7
  <2> HIDE DEF e
  <2>3. /\ a \in ToastState /\ a.ends = e /\ a.hurried = w /\ a.show = t.show
        /\ a.timers = k /\ a.kept = FALSE /\ a.hide = FALSE /\ a.showing = TRUE
    BY <1>6, <2>1 DEF ToastState
  <2> HIDE DEF a
  <2>4. ~a.hurried => Unhurried(a)
    BY <1>4, <2>1, <2>3 DEF Unhurried
  <2>5. Due(a) <= Due(t) + 1
    BY <1>1, <1>9, <2>1, <2>3 DEF Due
  <2> QED
    BY <2>1, <2>2, <2>3, <2>4, <2>5 DEF ToastOk
<1>8. CASE ~toastConf.animation
  <2>1. s = Toasts!ToastShown(r)
    BY <1>3, <1>8
  <2>2. /\ s \in ToastState /\ s.ends = t.ends /\ s.hurried = w
        /\ s.show /\ ~s.showing /\ s.hide = FALSE
        /\ IF toastConf.autohide THEN s.timers = k + 1 /\ s.kept
           ELSE s.timers = k /\ s.kept = FALSE
    BY <1>6, <2>1, ToastShownFields
  <2>4. ASSUME ~w PROVE s.timers = (IF s.kept THEN 1 ELSE 0)
    <3>1. k = 0
      BY <1>4, <2>4
    <3>2. CASE toastConf.autohide
      BY <2>2, <3>1, <3>2
    <3>3. CASE ~toastConf.autohide
      <4>1. s.kept = FALSE /\ s.timers = 0
        BY <2>2, <3>1, <3>3
      <4> QED
        BY <4>1
    <3> QED
      BY <3>2, <3>3
  <2>5. ~s.hurried => Unhurried(s)
    BY <1>4, <2>2, <2>4, OneOrNone DEF Unhurried
  <2>6. (s.kept => s.timers > 0) /\ (toastConf.autohide => s.timers > 0)
    BY <1>1, <2>2
  <2>7. Due(s) <= Due(t) + 1
    BY <1>1, <1>9, <2>2 DEF Due
  <2> QED
    BY <2>2, <2>5, <2>6, <2>7 DEF ToastOk
<1> QED
  BY <1>7, <1>8, <1>1

\* The timer of autohide ends before it hides the toast.
LEMMA ToastTimerKeeps ==
  ASSUME ToastInv, NEW veto \in BOOLEAN, Toasts!ToastTimer(veto)
  PROVE  ToastInv'
<1> DEFINE k == toast.timers - 1
           l == toast.kept /\ toast.timers > 1
           f == [toast EXCEPT !.timers = k, !.kept = l]
<1>1. /\ toast \in ToastState /\ ToastOk(toast, toastVetoed) /\ toast.timers > 0
      /\ toastConf \in Toasts!ToastConf /\ toastConf' = toastConf
      /\ toastVetoed \in BOOLEAN /\ toastVetoed' = (toastVetoed \/ (veto /\ toast.show))
      /\ toast' = IF veto THEN f ELSE Toasts!HideToast(f)
      /\ Due(toast) <= MaxToastTimers
  BY Zenon DEF ToastInv, Toasts!ToastTimer
<1>2. k \in Nat /\ l \in BOOLEAN
  BY <1>1 DEF ToastState
<1>3. (l => k > 0) /\ (~toast.hurried => ~l /\ k = 0 /\ toast.ends # <<"show">> /\ ~toast.showing)
  BY <1>1 DEF ToastOk, Unhurried, ToastState
<1>4. /\ f \in ToastState /\ f.timers = k /\ f.kept = l /\ f.show = toast.show
      /\ f.hide = toast.hide /\ f.ends = toast.ends /\ f.hurried = toast.hurried
      /\ f.showing = toast.showing
  <2> HIDE DEF k, l
  <2> QED
    BY <1>1, <1>2 DEF ToastState
<1>8. Due(f) + 1 = Due(toast) /\ Due(f) \in Nat
  BY <1>1, <1>4, DueCount DEF Due
<1>9. toastVetoed' \in BOOLEAN
  BY <1>1 DEF ToastState
<1> HIDE DEF f, k, l
<1>5. ~f.hurried => Unhurried(f)
  BY <1>1, <1>3, <1>4 DEF Unhurried, ToastOk
<1>6. CASE ~veto
  <2>1. toast' = Toasts!HideToast(f)
    BY <1>1, <1>6
  <2>2. f.kept => f.timers > 0
    BY <1>3, <1>4
  <2>3. toast' \in ToastState /\ ToastOk(toast', toastVetoed') /\ Due(toast') <= Due(f) + 1
    BY <1>1, <1>4, <1>5, <2>1, <2>2, HideToastKeeps
  <2>4. Due(toast') <= MaxToastTimers
    BY <1>1, <1>8, <2>3, DocsAssumption, DueCount
  <2> QED
    BY <1>1, <1>9, <2>3, <2>4 DEF ToastInv, ToastOk, Due
<1>7. CASE veto
  <2>1. toast' = f
    BY <1>1, <1>7
  <2>2. ~(f.show /\ ~toastVetoed')
    BY <1>1, <1>4, <1>7
  <2>3. ToastOk(f, toastVetoed')
    BY <1>3, <1>4, <1>5, <2>2 DEF ToastOk
  <2>4. Due(f) <= MaxToastTimers
    BY <1>1, <1>8, DocsAssumption
  <2> QED
    BY <1>1, <1>4, <1>9, <2>1, <2>3, <2>4 DEF ToastInv, ToastOk, Due
<1> QED
  BY <1>6, <1>7

\* The toast after n of the callbacks that wait: there is none yet to come that
\* it depends on, and the one of an unhurried toast leaves it settled.
ToastOnItsWay(n) ==
  {t \in ToastState :
     /\ t.ends = <<>> /\ t.hurried = toast.hurried /\ (t.kept => t.timers > 0)
     /\ t.timers <= toast.timers + n
     /\ t.show /\ toastConf.autohide /\ ~toastVetoed =>
          t.timers > 0 \/ \E i \in (n + 1)..Len(toast.ends) : toast.ends[i] = "show"
     /\ ~toast.hurried => IF n = 0 THEN t = [toast EXCEPT !.ends = <<>>] ELSE Unhurried(t)}

\* The function that ToastAfter defines exists.
LEMMA ToastAfterIs ==
  ASSUME toast \in ToastState
  PROVE  /\ Toasts!ToastAfter[0] = [toast EXCEPT !.ends = <<>>]
         /\ \A n \in 1..Len(toast.ends) :
              Toasts!ToastAfter[n] = IF toast.ends[n] = "show"
                                     THEN Toasts!ToastShown(Toasts!ToastAfter[n - 1])
                                     ELSE Toasts!ToastHidden(Toasts!ToastAfter[n - 1])
<1> DEFINE m == Len(toast.ends)
           base == [toast EXCEPT !.ends = <<>>]
           Run(t, e) == IF e = "show" THEN Toasts!ToastShown(t) ELSE Toasts!ToastHidden(t)
           step == [k \in 1..m |-> [t \in ToastState |-> Run(t, toast.ends[k])]]
           After(f) == [k \in 0..m |-> IF k = 0 THEN base ELSE Run(f[k - 1], toast.ends[k])]
<1>1. m \in Nat /\ base \in ToastState
  BY EmptySeq, LenProperties DEF ToastState
<1>2. step \in Steps(m, ToastState)
  BY ToastShownFields, ToastHiddenFields DEF Steps
<1>3. PICK f : Iteration(f, m, ToastState, base, step)
  <2> HIDE DEF m, base, step
  <2> QED
    BY <1>1, <1>2, Iterates
<1>4. \A k \in 1..m : step[k][f[k - 1]] = Run(f[k - 1], toast.ends[k])
  <2> HIDE DEF m, Run
  <2> QED
    BY <1>1, <1>3 DEF Iteration
<1>5. \A k \in 0..m : f[k] = IF k = 0 THEN base ELSE Run(f[k - 1], toast.ends[k])
  <2> HIDE DEF m, base, step, Run
  <2> QED
    BY <1>1, <1>3, <1>4 DEF Iteration
<1>6. f = After(f)
  <2>1. f = [k \in 0..m |-> f[k]]
    BY <1>3 DEF Iteration
  <2> HIDE DEF m, base, step, Run
  <2> QED
    BY <1>5, <2>1
<1>7. Toasts!ToastAfter = After(Toasts!ToastAfter)
  <2>1. Toasts!ToastAfter = CHOOSE g : g = After(g)
    BY DEF Toasts!ToastAfter
  <2> HIDE DEF After
  <2> QED
    BY <1>6, <2>1
<1> HIDE DEF m
<1>8. /\ Toasts!ToastAfter[0] = base
      /\ \A n \in 1..m : Toasts!ToastAfter[n] = Run(Toasts!ToastAfter[n - 1], toast.ends[n])
  <2> HIDE DEF base, Run
  <2> QED
    BY <1>1, <1>7
<1> QED
  BY <1>8 DEF m

\* The end of a fade runs every callback that waits for it.
LEMMA ToastEndKeeps ==
  ASSUME ToastInv, Toasts!ToastTransitionEnd
  PROVE  ToastInv'
<1> DEFINE m == Len(toast.ends)
           g == Toasts!ToastAfter
           A == [n \in 0..m |-> ToastOnItsWay(n)]
           base == [toast EXCEPT !.ends = <<>>]
<1>1. /\ toast \in ToastState /\ ToastOk(toast, toastVetoed) /\ toast.ends # <<>>
      /\ toastConf \in Toasts!ToastConf /\ toastConf' = toastConf
      /\ toastVetoed' = toastVetoed /\ toast' = g[m]
      /\ toastVetoed \in BOOLEAN /\ Due(toast) <= MaxToastTimers /\ toast.timers \in Nat
  BY DueCount, Zenon DEF ToastInv, Toasts!ToastTransitionEnd
<1>2. /\ toast.ends \in Seq({"show", "hide"}) /\ m \in Nat /\ m # 0
      /\ DOMAIN toast.ends = 1..m
      /\ \A i \in 1..m : toast.ends[i] \in {"show", "hide"}
  <2>1. toast.ends \in Seq({"show", "hide"})
    BY <1>1 DEF ToastState
  <2> QED
    BY <1>1, <2>1, EmptySeq, LenProperties, ElementOfSeq
<1>3. /\ g[0] = base
      /\ \A n \in 1..m : g[n] = IF toast.ends[n] = "show" THEN Toasts!ToastShown(g[n - 1])
                                ELSE Toasts!ToastHidden(g[n - 1])
  BY <1>1, ToastAfterIs
<1>4. ~toast.hurried =>
        m = 1 /\ \/ toast.ends[1] = "show" /\ ~toast.hide /\ toast.timers = 0 /\ ~toast.kept
                 \/ toast.ends[1] = "hide" /\ ~toast.show /\ ~toast.showing
  <2>1. Len(<<"show">>) = 1 /\ Len(<<"hide">>) = 1 /\ <<"show">>[1] = "show" /\ <<"hide">>[1] = "hide"
    OBVIOUS
  <2>2. CASE toast.ends = <<"show">>
    BY <1>1, <2>1, <2>2, OneOrNone DEF ToastOk, Unhurried
  <2>3. CASE toast.ends = <<"hide">>
    BY <1>1, <2>1, <2>3, OneOrNone DEF ToastOk, Unhurried
  <2> QED
    BY <1>1, <2>2, <2>3 DEF ToastOk, Unhurried
<1>5. base \in ToastOnItsWay(0)
  <2>1. /\ base \in ToastState /\ base.ends = <<>> /\ base.hurried = toast.hurried
        /\ base.kept = toast.kept /\ base.timers = toast.timers /\ base.show = toast.show
    BY <1>1, EmptySeq DEF ToastState
  <2> HIDE DEF base
  <2>2. ToastOk(toast, toastVetoed) /\ 0 + 1 = 1 /\ toast.timers <= toast.timers + 0
    BY <1>1
  <2> QED
    BY <1>2, <2>1, <2>2 DEF ToastOk, ToastOnItsWay, base
<1>6. ASSUME NEW n \in 1..m, g[n - 1] \in ToastOnItsWay(n - 1)
      PROVE  g[n] \in ToastOnItsWay(n)
  <2> DEFINE t == g[n - 1]
             s == g[n]
  <2> SUFFICES s \in ToastOnItsWay(n)
    OBVIOUS
  <2>1. /\ t \in ToastState /\ t.ends = <<>> /\ t.hurried = toast.hurried
        /\ t.kept => t.timers > 0
        /\ t.timers <= toast.timers + (n - 1)
        /\ t.show /\ toastConf.autohide /\ ~toastVetoed =>
             t.timers > 0 \/ \E i \in n..m : toast.ends[i] = "show"
        /\ ~toast.hurried => n = 1 /\ t = base
    BY <1>2, <1>4, <1>6 DEF ToastOnItsWay
  <2>2. t.timers \in Nat
    BY <2>1 DEF ToastState
  <2>5. n # 0
    BY <1>6
  <2>3. CASE toast.ends[n] = "show"
    <3>1. s = Toasts!ToastShown(t)
      BY <1>3, <2>3
    <3> HIDE DEF s, t
    <3>2. /\ s \in ToastState /\ s.ends = <<>> /\ s.hurried = toast.hurried
          /\ s.show /\ ~s.showing /\ s.hide = t.hide
          /\ IF toastConf.autohide THEN s.timers = t.timers + 1 /\ s.kept
             ELSE s.timers = t.timers /\ s.kept = t.kept
      BY <2>1, <3>1, ToastShownFields
    <3>3. (s.kept => s.timers > 0) /\ (toastConf.autohide => s.timers > 0)
      BY <2>1, <2>2, <3>2
    <3>4. ASSUME ~toast.hurried PROVE Unhurried(s)
      <4>1. t = base /\ n = 1
        BY <2>1, <3>4
      <4>2. t.hide = FALSE /\ t.timers = 0 /\ t.kept = FALSE
        BY <1>1, <1>4, <2>3, <3>4, <4>1, OneOrNone DEF ToastState
      <4>3. s.timers = (IF s.kept THEN 1 ELSE 0)
        <5>1. CASE toastConf.autohide
          BY <3>2, <4>2, <5>1
        <5>2. CASE ~toastConf.autohide
          <6>1. s.timers = 0 /\ s.kept = FALSE
            BY <3>2, <4>2, <5>2
          <6> QED
            BY <6>1
        <5> QED
          BY <5>1, <5>2
      <4> QED
        BY <3>2, <4>2, <4>3, OneOrNone DEF Unhurried
    <3>5. s.timers <= toast.timers + n
      BY <1>1, <1>2, <2>1, <2>2, <3>2
    <3> QED
      BY <2>5, <3>2, <3>3, <3>4, <3>5 DEF ToastOnItsWay
  <2>4. CASE toast.ends[n] = "hide"
    <3>1. s = Toasts!ToastHidden(t)
      BY <1>3, <2>4
    <3> HIDE DEF s, t
    <3>2. /\ s \in ToastState /\ s.ends = <<>> /\ s.hurried = toast.hurried
          /\ s.show = t.show /\ s.showing = t.showing /\ s.hide
          /\ s.timers = t.timers /\ s.kept = t.kept
      BY <2>1, <3>1, ToastHiddenFields
    <3>3. s.show /\ toastConf.autohide /\ ~toastVetoed =>
             s.timers > 0 \/ \E i \in (n + 1)..m : toast.ends[i] = "show"
      BY <1>2, <2>1, <2>4, <3>2
    <3>4. ASSUME ~toast.hurried PROVE Unhurried(s)
      <4>1. t = base /\ n = 1
        BY <2>1, <3>4
      <4>2. /\ t.show = FALSE /\ t.showing = FALSE
            /\ t.timers = (IF t.kept THEN 1 ELSE 0)
        BY <1>1, <1>4, <2>4, <3>4, <4>1, OneOrNone DEF ToastState, ToastOk, Unhurried
      <4> QED
        BY <3>2, <4>2, OneOrNone DEF Unhurried
    <3>5. s.timers <= toast.timers + n
      BY <1>1, <1>2, <2>1, <2>2, <3>2
    <3> QED
      BY <2>1, <2>5, <3>2, <3>3, <3>4, <3>5 DEF ToastOnItsWay
  <2> QED
    BY <1>2, <2>3, <2>4
<1>7. \A n \in 0..m : g[n] \in A[n]
  <2>1. g[0] \in A[0] /\ \A n \in 1..m : g[n - 1] \in A[n - 1] => g[n] \in A[n]
    <3> HIDE DEF m, g, base
    <3> QED
      BY <1>2, <1>3, <1>5, <1>6
  <2> HIDE DEF m, g, A
  <2> QED
    BY <1>2, <2>1, Reaches
<1>8. g[m] \in ToastOnItsWay(m)
  <2> HIDE DEF m, g
  <2> QED
    BY <1>2, <1>7
<1> HIDE DEF g
<1>9. /\ toast' \in ToastState /\ toast'.ends = <<>> /\ toast'.hurried = toast.hurried
      /\ toast'.kept => toast'.timers > 0
      /\ toast'.timers <= toast.timers + m
      /\ toast'.show /\ toastConf.autohide /\ ~toastVetoed => toast'.timers > 0
      /\ ~toast.hurried => Unhurried(toast')
  BY <1>1, <1>2, <1>8 DEF ToastOnItsWay
<1>10. Due(toast') <= MaxToastTimers
  <2>1. toast'.timers \in Nat /\ Len(toast'.ends) = 0
    BY <1>9, DueCount, EmptySeq
  <2> QED
    BY <1>1, <1>2, <1>9, <2>1, DocsAssumption DEF Due
<1> QED
  BY <1>1, <1>9, <1>10 DEF ToastInv, ToastOk, Due

\* Every step of the toast keeps its invariant.
LEMMA ToastStep == ASSUME ToastInv, Toasts!Next PROVE ToastInv'
<1>1. ASSUME Toasts!ScriptShowsToast PROVE ToastInv'
  <2>1. /\ toast' \in ToastState /\ ToastOk(toast', toastVetoed) /\ Due(toast') <= Due(toast) + 1
        /\ toastConf' = toastConf /\ toastVetoed' = toastVetoed
    BY <1>1, ShowToastKeeps DEF ToastInv, Toasts!ScriptShowsToast
  <2>2. Due(toast) < MaxToastTimers
    BY <1>1 DEF Toasts!ScriptShowsToast, Toasts!ToastRoom, Due
  <2>3. Due(toast') <= MaxToastTimers
    BY <2>1, <2>2, DueCount, DocsAssumption DEF ToastInv
  <2> QED
    BY <2>1, <2>3 DEF ToastInv, ToastOk, Due
<1>2. ASSUME Toasts!DismissToast PROVE ToastInv'
  <2>1. /\ toast \in ToastState /\ toastConf \in Toasts!ToastConf
        /\ toast.kept => toast.timers > 0
        /\ ~toast.hurried => Unhurried(toast)
    BY DEF ToastInv, ToastOk
  <2>2. /\ toast' \in ToastState /\ ToastOk(toast', toastVetoed) /\ Due(toast') <= Due(toast) + 1
        /\ toastConf' = toastConf /\ toastVetoed' = toastVetoed
    BY <1>2, <2>1, HideToastKeeps DEF Toasts!DismissToast
  <2>3. Due(toast) < MaxToastTimers
    BY <1>2 DEF Toasts!DismissToast, Toasts!ToastRoom, Due
  <2>4. Due(toast') <= MaxToastTimers
    BY <2>1, <2>2, <2>3, DueCount, DocsAssumption
  <2> QED
    BY <2>2, <2>4 DEF ToastInv, ToastOk, Due
<1> QED
  BY <1>1, <1>2, ToastTimerKeeps, ToastEndKeeps DEF Toasts!Next

\* The invariant of the toast is inductive.
THEOREM ToastKept == DocsSpec => []ToastInv
<1>1. ASSUME DocsInit PROVE ToastInv
  <2>1. PICK conf \in Toasts!ToastConf : Toasts!ToastLoad(conf)
    <3>1. [animation |-> TRUE, autohide |-> TRUE] \in Toasts!ToastConf
      BY DEF Toasts!ToastConf
    <3> QED
      BY <1>1, <3>1 DEF DocsInit, Toasts!Init
  <2>2. /\ toastConf \in Toasts!ToastConf /\ toastVetoed = FALSE
        /\ toast = [show |-> FALSE, showing |-> FALSE, hide |-> FALSE, ends |-> <<>>,
                    timers |-> 0, kept |-> FALSE, hurried |-> FALSE]
    BY <2>1 DEF Toasts!ToastLoad
  <2>3. toast \in ToastState
    BY <2>2, EmptySeq DEF ToastState
  <2>4. Due(toast) <= MaxToastTimers
    BY <2>2, EmptySeq, DocsAssumption DEF Due
  <2> QED
    BY <2>2, <2>3, <2>4, OneOrNone DEF ToastInv, ToastOk, Unhurried
<1>2. ToastInv /\ [DocsNext]_docsVars => ToastInv'
  <2> SUFFICES ASSUME ToastInv, [DocsNext]_docsVars PROVE ToastInv'
    OBVIOUS
  <2>1. Toasts!Next \/ UNCHANGED <<toastConf, toast, toastVetoed>>
    BY Zenon DEF DocsNext, docsVars
  <2>2. CASE UNCHANGED <<toastConf, toast, toastVetoed>>
    BY <2>2 DEF ToastInv, ToastOk, Due
  <2> QED
    BY <2>1, <2>2, ToastStep
<1> QED
  BY <1>1, <1>2, PTL DEF DocsSpec

\* A toast never has the classes of both ends, nor a timer of an earlier show
\* that cuts a later one short, and one that is shown goes away (Toast._timeout
\* and the callbacks of show() and hide()).
THEOREM ToastsAgree == DocsSpec => []Toasts!ToastConsistent
<1>1. ToastInv => Toasts!ToastConsistent
  <2> SUFFICES ASSUME ToastInv PROVE Toasts!ToastConsistent
    OBVIOUS
  <2>1. toast \in ToastState /\ ToastOk(toast, toastVetoed)
    BY DEF ToastInv
  <2>2. ~toast.hurried => /\ ~(toast.show /\ toast.hide) /\ toast.timers <= 1
                          /\ toast.showing => toast.timers = 0
    <3> SUFFICES ASSUME ~toast.hurried
                 PROVE  /\ ~(toast.show /\ toast.hide) /\ toast.timers <= 1
                        /\ toast.showing => toast.timers = 0
      OBVIOUS
    <3>1. Unhurried(toast)
      BY <2>1, Zenon DEF ToastOk
    <3>2. /\ toast.timers = (IF toast.kept THEN 1 ELSE 0)
          /\ toast.showing <=> toast.ends = <<"show">>
          /\ toast.ends = <<"show">> => toast.timers = 0
      BY <3>1, OneOrNone, Zenon DEF Unhurried
    <3>3. toast.timers <= 1
      BY ONLY <3>2
    <3> QED
      BY <3>1, <3>2, <3>3, Zenon DEF Unhurried
  <2>3. (\E i \in DOMAIN toast.ends : toast.ends[i] = "show") => "show" \in Toasts!Range(toast.ends)
    BY DEF Toasts!Range
  <2>4. toast.show /\ toastConf.autohide /\ ~toastVetoed =>
          toast.timers > 0 \/ \E i \in DOMAIN toast.ends : toast.ends[i] = "show"
    BY <2>1, Zenon DEF ToastOk
  <2> QED
    BY <2>2, <2>3, <2>4, Zenon DEF Toasts!ToastConsistent
<1> QED
  BY <1>1, ToastKept, PTL

-----------------------------------------------------------------------------
(***************************************************************************)
(* The tip beside an element (Tooltip).                                    *)
(***************************************************************************)
\* The state of a tooltip, and the callbacks that wait for its transition.
TipState == [enabled : BOOLEAN, active : SUBSET Tips!Triggers,
             hover : {"", "show", "out", "null"}, timeout : {"none", "show", "hide"},
             shown : BOOLEAN, inDom : BOOLEAN, popper : BOOLEAN,
             ends : Seq({"show", "hide"}), crossed : BOOLEAN]
Waiting(t) == {t.ends[i] : i \in DOMAIN t.ends}

\* hide() can undo what is shown.
CanHide(t) == t.enabled /\ (t.shown => t.popper /\ t.inDom)

\* A tip that no trigger asks for is shown only while the timeout that hides it
\* runs, with no callback of an earlier hide() to come; one that a trigger asks
\* for is shown, if show() is not delayed.
TipOk(t, waiting) ==
  /\ CanHide(t)
  /\ t.shown /\ t.active = {} => t.hover = "out" /\ t.timeout = "hide" /\ "hide" \notin waiting
  /\ t.hover = "show" => t.active # {}
  /\ t.active # {} /\ ~tipConf.delayShow => t.shown

\* The inductive invariant of the tooltip, which binds it as long as no script
\* meddles with it and no two of its callbacks cross.
TipInv ==
  /\ tipConf \in Tips!TipConf /\ tip \in TipState /\ meddled \in BOOLEAN
  /\ Tips!Calm => TipOk(tip, Waiting(tip))

\* The callback of hide(), of a tip that no trigger asks for.
LEMMA HideCompleteFields ==
  ASSUME NEW t \in TipState
  PROVE  LET s == Tips!HideComplete(t)
         IN /\ s \in TipState /\ s.crossed = t.crossed /\ s.enabled = t.enabled
            /\ s.shown = t.shown /\ s.active = t.active /\ s.hover = t.hover
            /\ s.timeout = t.timeout /\ s.ends = t.ends /\ (t.active # {} => s = t)
<1> DEFINE s == Tips!HideComplete(t)
           d == t.inDom /\ t.hover = "show"
           u == [t EXCEPT !.inDom = d, !.popper = FALSE]
<1>1. s = IF t.active # {} THEN t ELSE u
  BY Zenon DEF Tips!HideComplete
<1>2. d \in BOOLEAN
  BY DEF TipState
<1> HIDE DEF d
<1>3. /\ u \in TipState /\ u.crossed = t.crossed /\ u.enabled = t.enabled
      /\ u.shown = t.shown /\ u.active = t.active /\ u.hover = t.hover
      /\ u.timeout = t.timeout /\ u.ends = t.ends
  BY <1>2 DEF TipState
<1> HIDE DEF u, s
<1> SUFFICES /\ s \in TipState /\ s.crossed = t.crossed /\ s.enabled = t.enabled
             /\ s.shown = t.shown /\ s.active = t.active /\ s.hover = t.hover
             /\ s.timeout = t.timeout /\ s.ends = t.ends /\ (t.active # {} => s = t)
  BY DEF s
<1> QED
  BY <1>1, <1>3

\* hide() does nothing without a popper, and leaves nothing to undo otherwise.
LEMMA HideFields ==
  ASSUME NEW t \in TipState
  PROVE  LET s == Tips!Hide(t)
         IN /\ s \in TipState /\ s.crossed = t.crossed /\ s.enabled = t.enabled
            /\ ~t.popper => s = t
            /\ t.popper => s.shown = FALSE /\ s.active = {} /\ s.hover = ""
<1> DEFINE h == [t EXCEPT !.shown = FALSE, !.active = {}]
           ends == Append(h.ends, "hide")
           a == [h EXCEPT !.ends = ends]
           e == IF tipConf.animation THEN a ELSE Tips!HideComplete(h)
           u == [e EXCEPT !.hover = ""]
           s == Tips!Hide(t)
<1>1. s = IF t.popper THEN u ELSE t
  BY Zenon DEF Tips!Hide
<1>2. /\ h \in TipState /\ h.crossed = t.crossed /\ h.enabled = t.enabled
      /\ h.shown = FALSE /\ h.active = {}
  BY DEF TipState
<1> HIDE DEF h
<1>3. ends \in Seq({"show", "hide"})
  BY <1>2, AppendProperties DEF TipState
<1> HIDE DEF ends
<1>4. /\ a \in TipState /\ a.crossed = t.crossed /\ a.enabled = t.enabled
      /\ a.shown = FALSE /\ a.active = {}
  BY <1>2, <1>3 DEF TipState
<1> HIDE DEF a
<1>5. /\ e \in TipState /\ e.crossed = t.crossed /\ e.enabled = t.enabled
      /\ e.shown = FALSE /\ e.active = {}
  BY <1>2, <1>4, HideCompleteFields
<1> HIDE DEF e
<1>6. /\ u \in TipState /\ u.crossed = t.crossed /\ u.enabled = t.enabled
      /\ u.shown = FALSE /\ u.active = {} /\ u.hover = ""
  BY <1>5 DEF TipState
<1> HIDE DEF u
<1> SUFFICES /\ s \in TipState /\ s.crossed = t.crossed /\ s.enabled = t.enabled
             /\ ~t.popper => s = t
             /\ t.popper => s.shown = FALSE /\ s.active = {} /\ s.hover = ""
  BY DEF s
<1> HIDE DEF s
<1> QED
  BY <1>1, <1>6

\* _leave() does nothing while a trigger is active, and otherwise hides the tip
\* or starts the timeout that will.
LEMMA LeaveFields ==
  ASSUME NEW t \in TipState
  PROVE  LET s == Tips!Leave(t)
         IN /\ s \in TipState /\ (t.crossed => s.crossed) /\ s.enabled = t.enabled
            /\ t.active # {} => s = t
            /\ t.active = {} /\ CanHide(t) =>
                 /\ s.shown => t.shown /\ s.ends = t.ends
                 /\ s.shown /\ ~s.crossed => "hide" \notin Waiting(s)
                 /\ \A W : (s.shown => "hide" \notin W) => TipOk(s, W)
<1> DEFINE o == [t EXCEPT !.hover = "out", !.timeout = "none"]
           c == t.crossed \/ (t.shown /\ "hide" \in Tips!Range(t.ends))
           d == [o EXCEPT !.timeout = "hide", !.crossed = c]
           s == Tips!Leave(t)
<1>1. s = IF t.active # {} THEN t
          ELSE IF tipConf.delayHide THEN d ELSE Tips!Hide(o)
  <2>1. o.crossed = t.crossed
    BY DEF TipState
  <2>2. s = IF t.active # {} THEN t
            ELSE IF tipConf.delayHide
                 THEN [o EXCEPT !.timeout = "hide",
                        !.crossed = o.crossed \/ (t.shown /\ "hide" \in Tips!Range(t.ends))]
                 ELSE Tips!Hide(o)
    BY Zenon DEF Tips!Leave
  <2> HIDE DEF o, s
  <2> QED
    BY <2>1, <2>2
<1>2. /\ o \in TipState /\ o.crossed = t.crossed /\ o.enabled = t.enabled
      /\ o.shown = t.shown /\ o.active = t.active /\ o.hover = "out"
      /\ o.ends = t.ends /\ o.popper = t.popper /\ o.inDom = t.inDom
  BY DEF TipState
<1>3. /\ c \in BOOLEAN
      /\ t.crossed => c
      /\ ~c /\ t.shown => "hide" \notin Waiting(t)
  BY DEF TipState, Waiting, Tips!Range
<1> HIDE DEF o, c
<1>4. /\ d \in TipState /\ d.crossed = c /\ d.enabled = t.enabled
      /\ d.shown = t.shown /\ d.active = t.active /\ d.hover = "out" /\ d.timeout = "hide"
      /\ d.ends = t.ends /\ d.popper = t.popper /\ d.inDom = t.inDom
  BY <1>2, <1>3 DEF TipState
<1> HIDE DEF d
<1> SUFFICES /\ s \in TipState /\ (t.crossed => s.crossed) /\ s.enabled = t.enabled
             /\ t.active # {} => s = t
             /\ t.active = {} /\ CanHide(t) =>
                  /\ s.shown => t.shown /\ s.ends = t.ends
                  /\ s.shown /\ ~s.crossed => "hide" \notin Waiting(s)
                  /\ \A W : (s.shown => "hide" \notin W) => TipOk(s, W)
  BY DEF s
<1> HIDE DEF s
<1>5. CASE t.active # {}
  BY <1>1, <1>5
<1>6. CASE t.active = {} /\ tipConf.delayHide
  <2>1. s = d
    BY <1>1, <1>6
  <2>2. Waiting(d) = Waiting(t)
    BY <1>4 DEF Waiting
  <2>3. ASSUME CanHide(t), NEW W, d.shown => "hide" \notin W PROVE TipOk(d, W)
    BY <1>4, <1>6, <2>3 DEF TipOk, CanHide
  <2>4. /\ s \in TipState /\ (t.crossed => s.crossed) /\ s.enabled = t.enabled
        /\ s.shown = t.shown /\ s.ends = t.ends
        /\ s.shown /\ ~s.crossed => "hide" \notin Waiting(s)
    BY <1>3, <1>4, <2>1, <2>2
  <2>5. CanHide(t) => \A W : (s.shown => "hide" \notin W) => TipOk(s, W)
    BY <2>1, <2>3
  <2> QED
    BY <1>6, <2>4, <2>5
<1>7. CASE t.active = {} /\ ~tipConf.delayHide
  <2>1. /\ s \in TipState /\ s.crossed = t.crossed /\ s.enabled = t.enabled
        /\ ~t.popper => s = o
        /\ t.popper => s.shown = FALSE /\ s.active = {} /\ s.hover = ""
    BY <1>1, <1>2, <1>7, HideFields
  <2>2. CanHide(t) => s.shown = FALSE /\ s.active = {} /\ s.hover # "show"
    BY <1>2, <1>7, <2>1 DEF CanHide, TipState
  <2> QED
    BY <1>7, <2>1, <2>2 DEF TipOk, CanHide
<1> QED
  BY <1>5, <1>6, <1>7

\* The callback of show() makes up for a leave that came before it.
LEMMA ShowCompleteFields ==
  ASSUME NEW t \in TipState
  PROVE  LET s == Tips!ShowComplete(t)
         IN /\ s \in TipState /\ (t.crossed => s.crossed) /\ s.enabled = t.enabled
            /\ t.hover # "out" => s = [t EXCEPT !.hover = "null"]
            /\ s.shown /\ CanHide(t) => s.ends = t.ends
            /\ \A W : TipOk(t, W) => TipOk(s, W)
<1> DEFINE n == [t EXCEPT !.hover = "null"]
           s == Tips!ShowComplete(t)
<1>1. s = IF t.hover = "out" THEN Tips!Leave(n) ELSE n
  BY Zenon DEF Tips!ShowComplete
<1>2. /\ n \in TipState /\ n.crossed = t.crossed /\ n.enabled = t.enabled
      /\ n.shown = t.shown /\ n.active = t.active /\ n.hover = "null"
      /\ n.timeout = t.timeout
      /\ n.ends = t.ends /\ n.popper = t.popper /\ n.inDom = t.inDom
  BY DEF TipState
<1> SUFFICES /\ s \in TipState /\ (t.crossed => s.crossed) /\ s.enabled = t.enabled
             /\ t.hover # "out" => s = n
             /\ s.shown /\ CanHide(t) => s.ends = t.ends
             /\ \A W : TipOk(t, W) => TipOk(s, W)
  BY DEF s, n
<1> HIDE DEF s, n
<1>3. CASE t.hover # "out" \/ t.active # {}
  <2>1. s = n
    BY <1>1, <1>2, <1>3, LeaveFields
  <2> QED
    BY <1>2, <1>3, <2>1 DEF TipOk, CanHide
<1>4. CASE t.hover = "out" /\ t.active = {}
  <2>1. /\ s \in TipState /\ (n.crossed => s.crossed) /\ s.enabled = n.enabled
        /\ CanHide(n) =>
             /\ s.shown => n.shown /\ s.ends = n.ends
             /\ \A W : (s.shown => "hide" \notin W) => TipOk(s, W)
    BY <1>1, <1>2, <1>4, LeaveFields
  <2>2. CanHide(t) => CanHide(n)
    BY <1>2 DEF CanHide
  <2>3. ASSUME NEW W, TipOk(t, W) PROVE TipOk(s, W)
    <3>1. CanHide(n) /\ (t.shown => "hide" \notin W)
      BY <1>4, <2>2, <2>3 DEF TipOk
    <3> QED
      BY <1>2, <2>1, <3>1
  <2> QED
    BY <1>2, <1>4, <2>1, <2>2, <2>3
<1> QED
  BY <1>3, <1>4

\* show() of a tip that is wanted shows it.
LEMMA ShowFields ==
  ASSUME NEW t \in TipState
  PROVE  LET s == Tips!Show(t)
         IN /\ s \in TipState /\ (t.crossed => s.crossed) /\ s.enabled = t.enabled
            /\ t.enabled /\ t.hover = "show" =>
                 s.shown /\ s.popper /\ s.inDom /\ s.active = t.active
<1> DEFINE r == [t EXCEPT !.inDom = TRUE, !.popper = TRUE, !.shown = TRUE]
           ends == Append(r.ends, "show")
           a == [r EXCEPT !.ends = ends]
           n == [r EXCEPT !.hover = "null"]
           s == Tips!Show(t)
<1>1. s = IF ~t.enabled THEN t ELSE IF tipConf.animation THEN a ELSE Tips!ShowComplete(r)
  BY Zenon DEF Tips!Show
<1>2. /\ r \in TipState /\ r.crossed = t.crossed /\ r.enabled = t.enabled
      /\ r.shown = TRUE /\ r.popper = TRUE /\ r.inDom = TRUE /\ r.active = t.active
      /\ r.hover = t.hover
  BY DEF TipState
<1> HIDE DEF r
<1>3. ends \in Seq({"show", "hide"})
  BY <1>2, AppendProperties DEF TipState
<1> HIDE DEF ends
<1>4. /\ a \in TipState /\ a.crossed = t.crossed /\ a.enabled = t.enabled
      /\ a.shown = TRUE /\ a.popper = TRUE /\ a.inDom = TRUE /\ a.active = t.active
  BY <1>2, <1>3 DEF TipState
<1>5. /\ n.shown = TRUE /\ n.popper = TRUE /\ n.inDom = TRUE /\ n.active = t.active
  BY <1>2 DEF TipState
<1> SUFFICES /\ s \in TipState /\ (t.crossed => s.crossed) /\ s.enabled = t.enabled
             /\ t.enabled /\ t.hover = "show" =>
                  s.shown /\ s.popper /\ s.inDom /\ s.active = t.active
  BY DEF s
<1> HIDE DEF a, s
<1>6. CASE ~t.enabled
  BY <1>1, <1>6
<1>7. CASE t.enabled /\ tipConf.animation
  BY <1>1, <1>4, <1>7
<1>8. CASE t.enabled /\ ~tipConf.animation
  <2>1. /\ s \in TipState /\ (r.crossed => s.crossed) /\ s.enabled = r.enabled
        /\ r.hover # "out" => s = n
    BY <1>1, <1>2, <1>8, ShowCompleteFields
  <2> HIDE DEF n
  <2> QED
    BY <1>2, <1>5, <1>8, <2>1
<1> QED
  BY <1>6, <1>7, <1>8

\* _enter() of a tip that a trigger asks for.
LEMMA EnterFields ==
  ASSUME NEW t \in TipState
  PROVE  LET s == Tips!Enter(t)
         IN /\ s \in TipState /\ (t.crossed => s.crossed)
            /\ t.active # {} /\ CanHide(t) /\ (t.hover = "show" /\ ~tipConf.delayShow => t.shown)
                 => \A W : TipOk(s, W)
<1> DEFINE h == [t EXCEPT !.hover = "show"]
           d == [h EXCEPT !.timeout = "show"]
           c == [h EXCEPT !.timeout = "none"]
           s == Tips!Enter(t)
<1>1. s = IF t.shown \/ t.hover = "show" THEN h
          ELSE IF tipConf.delayShow THEN d ELSE Tips!Show(c)
  BY Zenon DEF Tips!Enter
<1>2. /\ h \in TipState /\ h.crossed = t.crossed /\ h.enabled = t.enabled
      /\ h.shown = t.shown /\ h.popper = t.popper /\ h.inDom = t.inDom /\ h.active = t.active
      /\ h.hover = "show"
  BY DEF TipState
<1> HIDE DEF h
<1>3. /\ d \in TipState /\ d.crossed = t.crossed /\ d.enabled = t.enabled
      /\ d.shown = t.shown /\ d.popper = t.popper /\ d.inDom = t.inDom /\ d.active = t.active
      /\ d.hover = "show"
  BY <1>2 DEF TipState
<1>4. /\ c \in TipState /\ c.crossed = t.crossed /\ c.enabled = t.enabled
      /\ c.active = t.active /\ c.hover = "show"
  BY <1>2 DEF TipState
<1> SUFFICES /\ s \in TipState /\ (t.crossed => s.crossed)
             /\ t.active # {} /\ CanHide(t) /\ (t.hover = "show" /\ ~tipConf.delayShow => t.shown)
                  => \A W : TipOk(s, W)
  BY DEF s
<1> HIDE DEF d, c, s
<1>5. CASE t.shown \/ t.hover = "show"
  <2>1. s = h
    BY <1>1, <1>5
  <2> QED
    BY <1>2, <1>5, <2>1 DEF TipOk, CanHide
<1>6. CASE ~(t.shown \/ t.hover = "show") /\ tipConf.delayShow
  <2>1. s = d
    BY <1>1, <1>6
  <2> QED
    BY <1>3, <1>6, <2>1 DEF TipOk, CanHide
<1>7. CASE ~(t.shown \/ t.hover = "show") /\ ~tipConf.delayShow
  <2>1. s = Tips!Show(c)
    BY <1>1, <1>7
  <2>2. /\ s \in TipState /\ (t.crossed => s.crossed) /\ s.enabled = t.enabled
        /\ t.enabled => s.shown /\ s.popper /\ s.inDom /\ s.active = t.active
    BY <1>4, <2>1, ShowFields
  <2> QED
    BY <2>2 DEF TipOk, CanHide
<1> QED
  BY <1>5, <1>6, <1>7

\* The tip after n of the callbacks that wait: what it depends on are those
\* that remain, and those that have come to wait meanwhile.
Remaining(n) == {tip.ends[i] : i \in (n + 1)..Len(tip.ends)}
TipOnItsWay(n) ==
  {t \in TipState :
     /\ tip.crossed => t.crossed
     /\ ~meddled /\ ~t.crossed => TipOk(t, Remaining(n) \cup Waiting(t))}

\* The function that TipAfter defines exists.
LEMMA TipAfterIs ==
  ASSUME tip \in TipState
  PROVE  /\ Tips!TipAfter[0] = [tip EXCEPT !.ends = <<>>]
         /\ \A n \in 1..Len(tip.ends) :
              Tips!TipAfter[n] = IF tip.ends[n] = "show"
                                 THEN Tips!ShowComplete(Tips!TipAfter[n - 1])
                                 ELSE Tips!HideComplete(Tips!TipAfter[n - 1])
<1> DEFINE m == Len(tip.ends)
           base == [tip EXCEPT !.ends = <<>>]
           Run(t, e) == IF e = "show" THEN Tips!ShowComplete(t) ELSE Tips!HideComplete(t)
           step == [k \in 1..m |-> [t \in TipState |-> Run(t, tip.ends[k])]]
           After(f) == [k \in 0..m |-> IF k = 0 THEN base ELSE Run(f[k - 1], tip.ends[k])]
<1>1. m \in Nat /\ base \in TipState
  BY EmptySeq, LenProperties DEF TipState
<1>2. step \in Steps(m, TipState)
  BY ShowCompleteFields, HideCompleteFields DEF Steps
<1>3. PICK f : Iteration(f, m, TipState, base, step)
  <2> HIDE DEF m, base, step
  <2> QED
    BY <1>1, <1>2, Iterates
<1>4. \A k \in 1..m : step[k][f[k - 1]] = Run(f[k - 1], tip.ends[k])
  <2> HIDE DEF m, Run
  <2> QED
    BY <1>1, <1>3 DEF Iteration
<1>5. \A k \in 0..m : f[k] = IF k = 0 THEN base ELSE Run(f[k - 1], tip.ends[k])
  <2> HIDE DEF m, base, step, Run
  <2> QED
    BY <1>1, <1>3, <1>4 DEF Iteration
<1>6. f = After(f)
  <2>1. f = [k \in 0..m |-> f[k]]
    BY <1>3 DEF Iteration
  <2> HIDE DEF m, base, step, Run
  <2> QED
    BY <1>5, <2>1
<1>7. Tips!TipAfter = After(Tips!TipAfter)
  <2>1. Tips!TipAfter = CHOOSE g : g = After(g)
    BY DEF Tips!TipAfter
  <2> HIDE DEF After
  <2> QED
    BY <1>6, <2>1
<1> HIDE DEF m
<1>8. /\ Tips!TipAfter[0] = base
      /\ \A n \in 1..m : Tips!TipAfter[n] = Run(Tips!TipAfter[n - 1], tip.ends[n])
  <2> HIDE DEF base, Run
  <2> QED
    BY <1>1, <1>7
<1> QED
  BY <1>8 DEF m

\* The end of the transition runs every callback that waits for it.
LEMMA TipEndKeeps ==
  ASSUME TipInv, Tips!TipTransitionEnd
  PROVE  TipInv'
<1> DEFINE m == Len(tip.ends)
           g == Tips!TipAfter
           A == [n \in 0..m |-> TipOnItsWay(n)]
           base == [tip EXCEPT !.ends = <<>>]
<1>1. /\ tip \in TipState /\ tip.ends # <<>> /\ meddled \in BOOLEAN
      /\ tipConf \in Tips!TipConf /\ tipConf' = tipConf /\ meddled' = meddled
      /\ ~meddled /\ ~tip.crossed => TipOk(tip, Waiting(tip))
      /\ tip' = g[m]
  BY Zenon DEF TipInv, Tips!TipTransitionEnd, Tips!Becomes, Tips!Calm, Tips!Free
<1>2. /\ tip.ends \in Seq({"show", "hide"}) /\ m \in Nat
      /\ DOMAIN tip.ends = 1..m
      /\ \A i \in 1..m : tip.ends[i] \in {"show", "hide"}
  <2>1. tip.ends \in Seq({"show", "hide"})
    BY <1>1 DEF TipState
  <2> QED
    BY <2>1, LenProperties, ElementOfSeq
<1>3. /\ g[0] = base
      /\ \A n \in 1..m : g[n] = IF tip.ends[n] = "show" THEN Tips!ShowComplete(g[n - 1])
                                ELSE Tips!HideComplete(g[n - 1])
  BY <1>1, TipAfterIs
<1>4. base \in TipOnItsWay(0)
  <2>1. /\ base \in TipState /\ base.ends = <<>> /\ base.crossed = tip.crossed
        /\ base.enabled = tip.enabled /\ base.shown = tip.shown /\ base.popper = tip.popper
        /\ base.inDom = tip.inDom /\ base.active = tip.active /\ base.hover = tip.hover
        /\ base.timeout = tip.timeout
    BY <1>1, EmptySeq DEF TipState
  <2> HIDE DEF base
  <2>2. Waiting(base) = {}
    BY <2>1 DEF Waiting
  <2>3. Remaining(0) = Waiting(tip)
    BY <1>2 DEF Remaining, Waiting
  <2>4. Remaining(0) \cup Waiting(base) = Waiting(tip)
    BY <2>2, <2>3
  <2>5. ASSUME NEW W, TipOk(tip, W) PROVE TipOk(base, W)
    BY <2>1, <2>5 DEF TipOk, CanHide
  <2> QED
    BY <1>1, <2>1, <2>4, <2>5 DEF TipOnItsWay
<1>5. ASSUME NEW n \in 1..m, g[n - 1] \in TipOnItsWay(n - 1)
      PROVE  g[n] \in TipOnItsWay(n)
  <2> DEFINE t == g[n - 1]
             s == g[n]
  <2> SUFFICES s \in TipOnItsWay(n)
    OBVIOUS
  <2>1. /\ t \in TipState /\ (tip.crossed => t.crossed)
        /\ ~meddled /\ ~t.crossed => TipOk(t, Remaining(n - 1) \cup Waiting(t))
    BY <1>5 DEF TipOnItsWay
  <2>2. /\ Remaining(n) \subseteq Remaining(n - 1)
        /\ tip.ends[n] \in Remaining(n - 1)
    BY <1>2 DEF Remaining
  <2>3. CASE tip.ends[n] = "show"
    <3>1. s = Tips!ShowComplete(t)
      BY <1>3, <2>3
    <3> HIDE DEF s, t
    <3>2. /\ s \in TipState /\ (t.crossed => s.crossed)
          /\ s.shown /\ CanHide(t) => s.ends = t.ends
          /\ \A W : TipOk(t, W) => TipOk(s, W)
      BY <2>1, <3>1, ShowCompleteFields
    <3>3. ASSUME ~meddled, ~s.crossed PROVE TipOk(s, Remaining(n) \cup Waiting(s))
      <4>1. TipOk(t, Remaining(n - 1) \cup Waiting(t))
        BY <2>1, <3>2, <3>3
      <4>2. TipOk(s, Remaining(n - 1) \cup Waiting(t)) /\ CanHide(t)
        BY <3>2, <4>1 DEF TipOk
      <4>3. s.shown => Waiting(s) = Waiting(t)
        BY <3>2, <4>2 DEF Waiting
      <4> QED
        BY <2>2, <4>2, <4>3 DEF TipOk
    <3> QED
      BY <2>1, <3>2, <3>3 DEF TipOnItsWay
  <2>4. CASE tip.ends[n] = "hide"
    <3>1. s = Tips!HideComplete(t)
      BY <1>3, <2>4
    <3> HIDE DEF s, t
    <3>2. /\ s \in TipState /\ s.crossed = t.crossed /\ s.enabled = t.enabled
          /\ s.shown = t.shown /\ s.active = t.active /\ s.hover = t.hover
          /\ s.timeout = t.timeout /\ s.ends = t.ends /\ (t.active # {} => s = t)
      BY <2>1, <3>1, HideCompleteFields
    <3>3. ASSUME ~meddled, ~s.crossed PROVE TipOk(s, Remaining(n) \cup Waiting(s))
      <4>1. TipOk(t, Remaining(n - 1) \cup Waiting(t)) /\ Waiting(s) = Waiting(t)
        BY <2>1, <3>2, <3>3 DEF Waiting
      <4>2. "hide" \in Remaining(n - 1)
        BY <2>2, <2>4
      <4>3. t.active = {} => ~t.shown
        BY <4>1, <4>2 DEF TipOk
      <4>4. CanHide(s)
        BY <3>2, <4>1, <4>3 DEF TipOk, CanHide
      <4> QED
        BY <2>2, <3>2, <4>1, <4>4 DEF TipOk
    <3> QED
      BY <2>1, <3>2, <3>3 DEF TipOnItsWay
  <2> QED
    BY <1>2, <2>3, <2>4
<1>6. \A n \in 0..m : g[n] \in A[n]
  <2>1. g[0] \in A[0] /\ \A n \in 1..m : g[n - 1] \in A[n - 1] => g[n] \in A[n]
    <3> HIDE DEF m, g, base
    <3> QED
      BY <1>2, <1>3, <1>4, <1>5
  <2> HIDE DEF m, g, A
  <2> QED
    BY <1>2, <2>1, Reaches
<1>7. g[m] \in TipOnItsWay(m)
  <2> HIDE DEF m, g
  <2> QED
    BY <1>2, <1>6
<1> HIDE DEF g
<1>8. Remaining(m) = {}
  BY <1>2 DEF Remaining
<1>9. /\ tip' \in TipState
      /\ ~meddled /\ ~tip'.crossed => TipOk(tip', Waiting(tip'))
  BY <1>1, <1>7, <1>8 DEF TipOnItsWay
<1> HIDE DEF m
<1> QED
  BY <1>1, <1>9 DEF TipInv, TipOk, Tips!Calm, Waiting

\* A step that leaves the tip in a state where what it should do agrees with
\* what it does keeps the invariant; so does one that a script takes.
LEMMA TipBecomes ==
  ASSUME TipInv, NEW t, Tips!Becomes(t), t \in TipState,
         \/ Tips!Meddles
         \/ Tips!Free /\ (Tips!Calm => (t.crossed \/ TipOk(t, Waiting(t)))) /\ (tip.crossed => t.crossed)
  PROVE  TipInv'
<1>1. tip' = t /\ tipConf' = tipConf /\ tipConf \in Tips!TipConf /\ meddled \in BOOLEAN
  BY DEF Tips!Becomes, TipInv
<1>2. CASE Tips!Meddles
  BY <1>1, <1>2 DEF Tips!Meddles, TipInv, Tips!Calm
<1>3. CASE Tips!Free /\ (Tips!Calm => (t.crossed \/ TipOk(t, Waiting(t)))) /\ (tip.crossed => t.crossed)
  <2>1. meddled' = meddled
    BY <1>3 DEF Tips!Free
  <2>2. Tips!Calm' => TipOk(t, Waiting(t))
    BY <1>1, <1>3, <2>1 DEF Tips!Calm
  <2> QED
    BY <1>1, <2>1, <2>2 DEF TipInv, TipOk, CanHide, Waiting
<1> QED
  BY <1>2, <1>3

\* A trigger that begins, or ends, changes what the tip is asked to do.
LEMMA TriggeredFields ==
  ASSUME TipInv, NEW a \in SUBSET Tips!Triggers
  PROVE  LET t == [tip EXCEPT !.active = a]
         IN /\ t \in TipState /\ t.active = a /\ t.crossed = tip.crossed
            /\ t.ends = tip.ends
            /\ Tips!Calm => /\ CanHide(t)
                            /\ t.hover = "show" /\ ~tipConf.delayShow => t.shown
                            /\ a # {} /\ a \subseteq tip.active => TipOk(t, Waiting(t))
<1> DEFINE t == [tip EXCEPT !.active = a]
<1>1. tip \in TipState /\ (Tips!Calm => TipOk(tip, Waiting(tip)))
  BY DEF TipInv
<1>2. /\ t \in TipState /\ t.active = a /\ t.crossed = tip.crossed
      /\ t.enabled = tip.enabled /\ t.shown = tip.shown /\ t.popper = tip.popper
      /\ t.inDom = tip.inDom /\ t.ends = tip.ends /\ t.hover = tip.hover
      /\ t.timeout = tip.timeout
  BY <1>1 DEF TipState
<1> SUFFICES /\ t \in TipState /\ t.active = a /\ t.crossed = tip.crossed
             /\ t.ends = tip.ends
             /\ Tips!Calm => /\ CanHide(t)
                             /\ t.hover = "show" /\ ~tipConf.delayShow => t.shown
                             /\ a # {} /\ a \subseteq tip.active => TipOk(t, Waiting(t))
  OBVIOUS
<1> HIDE DEF t
<1>3. ASSUME Tips!Calm
      PROVE  /\ CanHide(t)
             /\ t.hover = "show" /\ ~tipConf.delayShow => t.shown
             /\ a # {} /\ a \subseteq tip.active => TipOk(t, Waiting(t))
  <2>1. TipOk(tip, Waiting(tip))
    BY <1>1, <1>3
  <2>2. CanHide(t) /\ (t.hover = "show" /\ ~tipConf.delayShow => t.shown)
    BY <1>2, <2>1 DEF TipOk, CanHide
  <2> QED
    BY <1>2, <2>1, <2>2 DEF TipOk
<1> QED
  BY <1>2, <1>3

\* An enter event of a trigger.
LEMMA TipEnters ==
  ASSUME TipInv, NEW a \in SUBSET Tips!Triggers, a # {},
         Tips!Becomes(Tips!Enter([tip EXCEPT !.active = a])), Tips!Free
  PROVE  TipInv'
<1> DEFINE t == [tip EXCEPT !.active = a]
           s == Tips!Enter(t)
<1>1. /\ t \in TipState /\ t.active = a /\ t.crossed = tip.crossed
      /\ Tips!Calm => CanHide(t) /\ (t.hover = "show" /\ ~tipConf.delayShow => t.shown)
  BY TriggeredFields
<1> HIDE DEF t
<1>2. /\ s \in TipState /\ (t.crossed => s.crossed)
      /\ Tips!Calm => TipOk(s, Waiting(s))
  BY <1>1, EnterFields
<1>3. Tips!Becomes(s)
  BY DEF t
<1> HIDE DEF s
<1> QED
  BY <1>1, <1>2, <1>3, TipBecomes

\* A leave event of a trigger.
LEMMA TipLeaves ==
  ASSUME TipInv, NEW a \in SUBSET Tips!Triggers, a \subseteq tip.active,
         Tips!Becomes(Tips!Leave([tip EXCEPT !.active = a])), Tips!Free
  PROVE  TipInv'
<1> DEFINE t == [tip EXCEPT !.active = a]
           s == Tips!Leave(t)
<1>1. /\ t \in TipState /\ t.active = a /\ t.crossed = tip.crossed
      /\ Tips!Calm => CanHide(t) /\ (a # {} => TipOk(t, Waiting(t)))
  BY TriggeredFields
<1> HIDE DEF t
<1>2. /\ s \in TipState /\ (t.crossed => s.crossed)
      /\ t.active # {} => s = t
      /\ t.active = {} /\ CanHide(t) =>
           /\ s.shown /\ ~s.crossed => "hide" \notin Waiting(s)
           /\ \A W : (s.shown => "hide" \notin W) => TipOk(s, W)
  BY <1>1, LeaveFields
<1>3. Tips!Becomes(s)
  BY DEF t
<1> HIDE DEF s
<1>4. Tips!Calm => s.crossed \/ TipOk(s, Waiting(s))
  <2>1. CASE a # {}
    BY <1>1, <1>2, <2>1
  <2>2. CASE a = {}
    BY <1>1, <1>2, <2>2
  <2> QED
    BY <2>1, <2>2
<1> QED
  BY <1>1, <1>2, <1>3, <1>4, TipBecomes

\* hide() of the tip.
LEMMA TipHides ==
  ASSUME TipInv, Tips!Becomes(Tips!Hide(tip)), Tips!Free
  PROVE  TipInv'
<1> DEFINE s == Tips!Hide(tip)
<1>1. tip \in TipState /\ (Tips!Calm => TipOk(tip, Waiting(tip)))
  BY DEF TipInv
<1>2. /\ s \in TipState /\ s.crossed = tip.crossed /\ s.enabled = tip.enabled
      /\ ~tip.popper => s = tip
      /\ tip.popper => s.shown = FALSE /\ s.active = {} /\ s.hover = ""
  BY <1>1, HideFields
<1> HIDE DEF s
<1>3. Tips!Calm => TipOk(s, Waiting(s))
  <2>1. CASE tip.popper
    BY <1>1, <1>2, <2>1 DEF TipOk, CanHide
  <2>2. CASE ~tip.popper
    BY <1>1, <1>2, <2>2
  <2> QED
    BY <2>1, <2>2
<1> QED
  BY <1>2, <1>3, TipBecomes DEF s

\* The timeout acts only if the hover state still agrees with it.
LEMMA TipTimeoutKeeps ==
  ASSUME TipInv, Tips!TipTimeout
  PROVE  TipInv'
<1> DEFINE t == [tip EXCEPT !.timeout = "none"]
           s == IF tip.timeout = "show" /\ tip.hover = "show" THEN Tips!Show(t)
                ELSE IF tip.timeout = "hide" /\ tip.hover = "out" THEN Tips!Hide(t)
                ELSE t
<1>1. tip \in TipState /\ (Tips!Calm => TipOk(tip, Waiting(tip)))
  BY DEF TipInv
<1>2. /\ t \in TipState /\ t.active = tip.active /\ t.crossed = tip.crossed
      /\ t.enabled = tip.enabled /\ t.shown = tip.shown /\ t.popper = tip.popper
      /\ t.inDom = tip.inDom /\ t.ends = tip.ends /\ t.hover = tip.hover
  BY <1>1 DEF TipState
<1>3. Tips!Becomes(s) /\ Tips!Free
  BY Zenon DEF Tips!TipTimeout
<1> HIDE DEF t
<1>4. s \in TipState /\ (tip.crossed => s.crossed)
  <2>1. CASE tip.timeout = "show" /\ tip.hover = "show"
    BY <1>2, <2>1, ShowFields
  <2>2. CASE ~(tip.timeout = "show" /\ tip.hover = "show") /\ tip.timeout = "hide" /\ tip.hover = "out"
    BY <1>2, <2>2, HideFields
  <2> QED
    BY <1>2, <2>1, <2>2
<1>5. ASSUME Tips!Calm PROVE TipOk(s, Waiting(s))
  <2>1. TipOk(tip, Waiting(tip))
    BY <1>1, <1>5
  <2>2. CASE tip.timeout = "show" /\ tip.hover = "show"
    <3>1. s = Tips!Show(t)
      BY <2>2
    <3> HIDE DEF s
    <3>2. /\ s.enabled = t.enabled
          /\ t.enabled => s.shown /\ s.popper /\ s.inDom /\ s.active = t.active
      BY <1>2, <2>2, <3>1, ShowFields
    <3> QED
      BY <1>2, <2>1, <2>2, <3>2 DEF TipOk, CanHide
  <2>3. CASE tip.timeout = "hide" /\ tip.hover = "out"
    <3>1. s = Tips!Hide(t)
      BY <2>3
    <3> HIDE DEF s
    <3>2. /\ s.enabled = t.enabled
          /\ ~t.popper => s = t
          /\ t.popper => s.shown = FALSE /\ s.active = {} /\ s.hover = ""
      BY <1>2, <3>1, HideFields
    <3>3. CASE t.popper
      BY <1>2, <2>1, <3>2, <3>3 DEF TipOk, CanHide
    <3>4. CASE ~t.popper
      BY <1>2, <2>1, <2>3, <3>2, <3>4 DEF TipOk, CanHide
    <3> QED
      BY <3>3, <3>4
  <2>4. CASE ~(tip.timeout = "show" /\ tip.hover = "show") /\ ~(tip.timeout = "hide" /\ tip.hover = "out")
    <3>1. s = t
      BY <2>4
    <3> HIDE DEF s
    <3> QED
      BY <1>2, <2>1, <2>4, <3>1 DEF TipOk, CanHide
  <2> QED
    BY <2>2, <2>3, <2>4
<1> HIDE DEF s
<1> QED
  BY <1>3, <1>4, <1>5, TipBecomes

\* Every step of the tooltip keeps its invariant.
LEMMA TipStep == ASSUME TipInv, Tips!Next PROVE TipInv'
<1>1. tip \in TipState /\ tip.active \subseteq Tips!Triggers
  BY DEF TipInv, TipState
<1>2. ASSUME NEW trigger \in Tips!Triggers, Tips!EnterEvent(trigger) PROVE TipInv'
  <2>1. tip.active \cup {trigger} \in SUBSET Tips!Triggers /\ tip.active \cup {trigger} # {}
    BY <1>1
  <2> QED
    BY <1>2, <2>1, TipEnters DEF Tips!EnterEvent
<1>3. ASSUME NEW trigger \in Tips!Triggers, Tips!LeaveEvent(trigger) PROVE TipInv'
  <2> DEFINE a == tip.active \ {trigger}
  <2>1. a \in SUBSET Tips!Triggers /\ a \subseteq tip.active
    BY <1>1
  <2>2. Tips!Becomes(Tips!Leave([tip EXCEPT !.active = a])) /\ Tips!Free
    BY <1>3, Zenon DEF Tips!LeaveEvent
  <2> HIDE DEF a
  <2> QED
    BY <2>1, <2>2, TipLeaves
<1>8. ASSUME NEW trigger \in Tips!Triggers, Tips!MoveInside(trigger) PROVE TipInv'
  <2> DEFINE a == tip.active \cup {trigger}
             t == [tip EXCEPT !.active = a]
  <2>1. a \in SUBSET Tips!Triggers /\ a # {}
    BY <1>1
  <2>2. Tips!Becomes(Tips!Enter(Tips!Leave(t))) /\ Tips!Free
    BY <1>8, Zenon DEF Tips!MoveInside
  <2> HIDE DEF a
  <2>3. t.active = a
    BY <1>1 DEF TipState
  <2>4. Tips!Leave(t) = t
    BY <2>1, <2>3, Zenon DEF Tips!Leave
  <2> QED
    BY <2>1, <2>2, <2>4, TipEnters
<1>4. ASSUME NEW trigger \in Tips!Triggers, Tips!VetoedEvent(trigger) PROVE TipInv'
  <2> DEFINE b == [tip EXCEPT !.active = tip.active \cup {trigger}, !.hover = "show"]
             c == [tip EXCEPT !.active = {}, !.hover = "out"]
  <2>1. Tips!Meddles /\ (Tips!Becomes(b) \/ Tips!Becomes(c))
    BY <1>4, Zenon DEF Tips!VetoedEvent
  <2>2. b \in TipState /\ c \in TipState
    BY <1>1 DEF TipState
  <2> HIDE DEF b, c
  <2> QED
    BY <2>1, <2>2, TipBecomes
<1>5. ASSUME Tips!ClickEvent PROVE TipInv'
  <2> DEFINE a == IF "click" \notin tip.active THEN tip.active \cup {"click"}
                  ELSE tip.active \ {"click"}
             t == [tip EXCEPT !.active = a]
  <2>1. a \in SUBSET Tips!Triggers /\ ("click" \notin tip.active => a # {})
        /\ ("click" \in tip.active => a \subseteq tip.active)
    BY <1>1 DEF Tips!Triggers
  <2>2. /\ Tips!Free
        /\ Tips!Becomes(IF t.active # {} THEN Tips!Enter(t) ELSE Tips!Leave(t))
    BY <1>5, Zenon DEF Tips!ClickEvent
  <2>3. t.active = a
    BY <1>1 DEF TipState
  <2> HIDE DEF a
  <2>4. CASE a # {}
    BY <2>1, <2>2, <2>3, <2>4, TipEnters
  <2>5. CASE a = {}
    BY <2>1, <2>2, <2>3, <2>5, TipLeaves
  <2> QED
    BY <2>4, <2>5
<1>6. ASSUME Tips!ModalHides PROVE TipInv'
  BY <1>6, TipHides DEF Tips!ModalHides
<1>7. ASSUME Tips!ScriptCalls PROVE TipInv'
  <2> DEFINE e == [tip EXCEPT !.enabled = ~tip.enabled]
  <2>1. Tips!Meddles /\ (\/ Tips!Becomes(Tips!Show(tip)) \/ Tips!Becomes(Tips!Hide(tip))
                         \/ Tips!Becomes(Tips!Enter(tip)) \/ Tips!Becomes(Tips!Leave(tip))
                         \/ Tips!Becomes(e))
    <3>1. Tips!Becomes(IF tip.shown THEN Tips!Leave(tip) ELSE Tips!Enter(tip)) =>
            Tips!Becomes(Tips!Enter(tip)) \/ Tips!Becomes(Tips!Leave(tip))
      OBVIOUS
    <3> QED
      BY <1>7, <3>1, Zenon DEF Tips!ScriptCalls
  <2>2. e \in TipState
    BY <1>1 DEF TipState
  <2> HIDE DEF e
  <2>3. /\ Tips!Show(tip) \in TipState /\ Tips!Hide(tip) \in TipState
        /\ Tips!Enter(tip) \in TipState /\ Tips!Leave(tip) \in TipState
    BY <1>1, ShowFields, HideFields, EnterFields, LeaveFields
  <2> QED
    BY <2>1, <2>2, <2>3, TipBecomes
<1> QED
  BY <1>2, <1>3, <1>4, <1>5, <1>6, <1>7, <1>8, TipTimeoutKeeps, TipEndKeeps
     DEF Tips!Next, Tips!TipEvent

\* The invariant of the tooltip is inductive.
THEOREM TipKept == DocsSpec => []TipInv
<1>1. ASSUME DocsInit PROVE TipInv
  <2>1. PICK conf \in Tips!TipConf : Tips!TooltipLoad(conf)
    <3>1. [triggers |-> {"click"}, delayShow |-> FALSE, delayHide |-> FALSE,
           animation |-> TRUE] \in Tips!TipConf
      BY DEF Tips!TipConf, Tips!Triggers
    <3> QED
      BY <1>1, <3>1 DEF DocsInit, Tips!Init
  <2>2. /\ tipConf \in Tips!TipConf /\ meddled = FALSE
        /\ tip = [enabled |-> TRUE, active |-> {}, hover |-> "", timeout |-> "none",
                  shown |-> FALSE, inDom |-> FALSE, popper |-> FALSE, ends |-> <<>>,
                  crossed |-> FALSE]
    BY <2>1 DEF Tips!TooltipLoad
  <2>3. tip \in TipState
    BY <2>2, EmptySeq DEF TipState
  <2> QED
    BY <2>2, <2>3 DEF TipInv, TipOk, CanHide
<1>2. TipInv /\ [DocsNext]_docsVars => TipInv'
  <2> SUFFICES ASSUME TipInv, [DocsNext]_docsVars PROVE TipInv'
    OBVIOUS
  <2>1. Tips!Next \/ UNCHANGED <<tipConf, tip, meddled>>
    BY Zenon DEF DocsNext, docsVars
  <2>2. CASE UNCHANGED <<tipConf, tip, meddled>>
    BY <2>2 DEF TipInv, TipOk, CanHide, Waiting, Tips!Calm
  <2> QED
    BY <2>1, <2>2, TipStep
<1> QED
  BY <1>1, <1>2, PTL DEF DocsSpec

\* A tip that is shown can be put away, and one with nothing waiting is shown
\* exactly when a trigger asks for it.
THEOREM TipsAgree == DocsSpec => [](Tips!ShownTipCanBeHidden /\ Tips!TipFollowsTriggers)
<1>1. TipInv => Tips!ShownTipCanBeHidden /\ Tips!TipFollowsTriggers
  BY DEF TipInv, TipOk, CanHide, Tips!ShownTipCanBeHidden, Tips!TipFollowsTriggers
<1> QED
  BY <1>1, TipKept, PTL

\* A tip or a toast that is shown can go away again: what waits for it, and
\* what the instance remembers, agrees with what is on the page.
THEOREM NoticesKept == DocsSpec => []NoticesAgree
BY ToastsAgree, TipsAgree, PTL DEF NoticesAgree

-----------------------------------------------------------------------------
(***************************************************************************)
(* The slide show (Carousel).                                              *)
(***************************************************************************)
\* The items, and the state of a carousel.
Slidable == Carousels!Item
CarouselConf == [wrap : BOOLEAN, interval : BOOLEAN, hover : BOOLEAN, animated : BOOLEAN]
CarouselState ==
  [active : SUBSET Slidable, indicator : Slidable, isSliding : BOOLEAN,
   isPaused : BOOLEAN, interval : BOOLEAN, slides : [Slidable -> Seq(Slidable)],
   slid : Nat, waiting : Seq(Slidable \X BOOLEAN), touch : BOOLEAN,
   rushed : BOOLEAN]

\* One item is active, and all that moves, moves from it to the item of the
\* indicator.
Orderly(c) ==
  \E a \in c.active :
    /\ c.active = {a}
    /\ \/ Carousels!Moving(c) = {} /\ c.indicator = a
       \/ Carousels!Moving(c) = {<<a, c.indicator>>}

\* There is an active item, nothing moves to where it comes from, nor without
\* animation, and what waits has something to wait for.
CarouselOk(c) ==
  /\ c.active # {}
  /\ \A i \in Slidable : <<i, i>> \notin Carousels!Moving(c)
  /\ ~carouselConf.animated => Carousels!Moving(c) = {}
  /\ c.isPaused => ~c.interval
  /\ c.isSliding => Carousels!Moving(c) # {}
  /\ c.waiting # <<>> => c.slid > 0 \/ Carousels!Moving(c) # {}
  /\ ~c.rushed => Orderly(c)

\* The inductive invariant of the carousel.
CarouselInv ==
  /\ carouselConf \in CarouselConf
  /\ carousel \in CarouselState /\ CarouselOk(carousel)

\* The active item, and the one before or after it, are items.
LEMMA ItemsOfOrder ==
  ASSUME NEW c \in CarouselState, c.active # {}, NEW isNext \in BOOLEAN
  PROVE  /\ Carousels!ActiveItem(c) \in c.active
         /\ Carousels!ItemByOrder(c, isNext) \in Slidable
<1>1. Carousels!ActiveItem(c) \in c.active
  <2>1. c.active \in SUBSET Nat
    BY DocsAssumption DEF CarouselState, Slidable, Carousels!Item
  <2> QED
    BY <2>1, FirstOf, Zenon DEF Carousels!ActiveItem
<1>2. Carousels!ActiveItem(c) \in 0..(NItems - 1)
  BY <1>1 DEF CarouselState, Slidable, Carousels!Item
<1>3. NItems \in Nat /\ NItems > 0
  BY DocsAssumption
<1> DEFINE i == Carousels!ActiveItem(c) + (IF isNext THEN 1 ELSE -1)
<1>4. i \in Int
  BY <1>2, <1>3
<1> HIDE DEF i
<1>5. i % NItems \in 0..(NItems - 1)
  BY <1>3, <1>4
<1>6. Carousels!ItemByOrder(c, isNext) \in {i, i % NItems, Carousels!ActiveItem(c)}
      /\ (Carousels!ItemByOrder(c, isNext) = i => i \in 0..(NItems - 1)
                                                  \/ i = i % NItems \/ i = Carousels!ActiveItem(c))
  BY Zenon DEF Carousels!ItemByOrder, i, Carousels!Item
<1> QED
  BY <1>1, <1>2, <1>5, <1>6 DEF Slidable, Carousels!Item

\* What moves depends on the callbacks alone.
LEMMA SameMoving ==
  ASSUME NEW c, NEW d, d.slides = c.slides
  PROVE  Carousels!Moving(d) = Carousels!Moving(c)
BY Zenon DEF Carousels!Moving

\* A slide that begins moves beside those under way.
LEMMA MovesToo ==
  ASSUME NEW c \in CarouselState, NEW d \in CarouselState, NEW from \in Slidable,
         NEW target \in Slidable,
         d.slides = [c.slides EXCEPT ![from] = Append(c.slides[from], target)]
  PROVE  Carousels!Moving(d) = Carousels!Moving(c) \cup {<<from, target>>}
<1>1. c.slides \in [Slidable -> Seq(Slidable)]
  BY DEF CarouselState
<1>2. Carousels!Range(Append(c.slides[from], target)) = Carousels!Range(c.slides[from]) \cup {target}
  <2> DEFINE s == c.slides[from]
  <2>1. s \in Seq(Slidable)
    BY <1>1
  <2> HIDE DEF s
  <2>2. Carousels!Range(Append(s, target)) = Carousels!Range(s) \cup {target}
    <3>1. /\ Len(Append(s, target)) = Len(s) + 1 /\ Len(s) \in Nat
          /\ Append(s, target)[Len(s) + 1] = target
          /\ \A i \in 1..Len(s) : Append(s, target)[i] = s[i]
          /\ DOMAIN s = 1..Len(s) /\ DOMAIN Append(s, target) = 1..(Len(s) + 1)
      BY <2>1, AppendProperties, LenProperties
    <3> QED
      BY <3>1 DEF Carousels!Range
  <2> QED
    BY <2>2 DEF s
<1>3. \A i \in Slidable : d.slides[i] = IF i = from THEN Append(c.slides[from], target) ELSE c.slides[i]
  BY <1>1
<1>4. \A i, t \in Slidable : <<i, t>> \in Carousels!Moving(d) <=>
                               <<i, t>> \in Carousels!Moving(c) \/ (i = from /\ t = target)
  BY <1>2, <1>3 DEF Carousels!Moving, Slidable
<1>5. /\ Carousels!Moving(d) \subseteq Slidable \X Slidable
      /\ Carousels!Moving(c) \subseteq Slidable \X Slidable
  BY DEF Carousels!Moving, Slidable
<1> QED
  BY <1>4, <1>5

\* The end of a transition ends what moved from the item.
LEMMA MovedAway ==
  ASSUME NEW c \in CarouselState, NEW d \in CarouselState, NEW from \in Slidable,
         d.slides = [c.slides EXCEPT ![from] = <<>>]
  PROVE  \A i, t \in Slidable : <<i, t>> \in Carousels!Moving(d) <=>
                                  <<i, t>> \in Carousels!Moving(c) /\ i # from
<1>1. c.slides \in [Slidable -> Seq(Slidable)]
  BY DEF CarouselState
<1>2. Carousels!Range(<<>>) = {}
  BY DEF Carousels!Range
<1>3. \A i \in Slidable : d.slides[i] = IF i = from THEN <<>> ELSE c.slides[i]
  BY <1>1
<1> QED
  BY <1>2, <1>3 DEF Carousels!Moving, Slidable

\* What differs in its timer alone.
Retimed(c, d) ==
  /\ d \in CarouselState
  /\ d.isPaused => ~d.interval
  /\ d.active = c.active /\ d.indicator = c.indicator /\ d.isSliding = c.isSliding
  /\ d.slides = c.slides /\ d.slid = c.slid /\ d.waiting = c.waiting /\ d.rushed = c.rushed

\* It is as good as what it was made from.
LEMMA RetimedKeeps ==
  ASSUME NEW c, NEW d, CarouselOk(c), Retimed(c, d)
  PROVE  CarouselOk(d)
<1>1. Carousels!Moving(d) = Carousels!Moving(c)
  BY SameMoving DEF Retimed
<1> QED
  BY <1>1 DEF Retimed, CarouselOk, Orderly

\* pause() and cycle() change the timer alone, and so do the touch events.
LEMMA TimersFields ==
  ASSUME carouselConf \in CarouselConf, NEW c \in CarouselState, c.isPaused => ~c.interval
  PROVE  /\ Retimed(c, Carousels!Pause(c)) /\ Retimed(c, Carousels!PauseOnEvent(c))
         /\ Retimed(c, Carousels!CycleOnEvent(c)) /\ Retimed(c, Carousels!Cycle(c))
         /\ Retimed(c, [c EXCEPT !.touch = FALSE])
         /\ Retimed(c, [c EXCEPT !.touch = TRUE])
<1>1. /\ Retimed(c, [c EXCEPT !.touch = FALSE]) /\ Retimed(c, [c EXCEPT !.touch = TRUE])
      /\ Retimed(c, Carousels!Pause(c)) /\ Retimed(c, Carousels!PauseOnEvent(c))
  BY DEF Retimed, CarouselState, Carousels!Pause, Carousels!PauseOnEvent
<1>2. ASSUME NEW e \in CarouselState PROVE Retimed(e, Carousels!CycleOnEvent(e))
  <2> DEFINE t == carouselConf.interval /\ ~e.isPaused
             d == [e EXCEPT !.interval = t]
  <2>1. Carousels!CycleOnEvent(e) = d
    BY Zenon DEF Carousels!CycleOnEvent
  <2>2. t \in BOOLEAN /\ (e.isPaused => ~t)
    BY DEF CarouselState, CarouselConf
  <2> HIDE DEF t
  <2>3. Retimed(e, d)
    BY <2>2 DEF Retimed, CarouselState
  <2> QED
    BY <2>1, <2>3
<1>3. Retimed(c, Carousels!Cycle(c))
  <2> DEFINE e == [c EXCEPT !.isPaused = FALSE]
  <2>1. /\ e \in CarouselState /\ e.active = c.active /\ e.indicator = c.indicator
        /\ e.isSliding = c.isSliding /\ e.slides = c.slides /\ e.slid = c.slid
        /\ e.waiting = c.waiting /\ e.rushed = c.rushed
    BY DEF CarouselState
  <2>2. Carousels!Cycle(c) = Carousels!CycleOnEvent(e)
    BY Zenon DEF Carousels!Cycle
  <2> HIDE DEF e
  <2>3. Retimed(e, Carousels!Cycle(c))
    BY <1>2, <2>1, <2>2
  <2> QED
    BY <2>1, <2>3 DEF Retimed
<1> QED
  BY <1>1, <1>2, <1>3

\* Cycle(Pause(c)), which restarts the timer.
LEMMA Restarted ==
  ASSUME carouselConf \in CarouselConf, NEW c \in CarouselState, c.isPaused => ~c.interval
  PROVE  Retimed(c, Carousels!Cycle(Carousels!Pause(c)))
<1> DEFINE p == Carousels!Pause(c)
<1>1. Retimed(c, p)
  BY TimersFields
<1> HIDE DEF p
<1>2. Retimed(p, Carousels!Cycle(p))
  BY <1>1, TimersFields DEF Retimed
<1>3. Retimed(c, Carousels!Cycle(p))
  BY <1>1, <1>2 DEF Retimed
<1> QED
  BY <1>3 DEF p

\* _slide() begins a slide, or shows the item at once.
LEMMA SlideToKeeps ==
  ASSUME carouselConf \in CarouselConf, NEW c \in CarouselState, CarouselOk(c),
         NEW target \in Slidable, NEW veto
  PROVE  /\ Carousels!SlideTo(c, target, veto) \in CarouselState
         /\ CarouselOk(Carousels!SlideTo(c, target, veto))
<1> DEFINE from == Carousels!ActiveItem(c)
           r == c.rushed \/ ~ (Carousels!Moving(c) \subseteq {<<from, target>>})
           q == Append(c.slides[from], target)
           v == [c.slides EXCEPT ![from] = q]
           b == (c.active \ {from}) \cup {target}
           x == [c EXCEPT !.indicator = target, !.isSliding = TRUE, !.slides = v, !.rushed = r]
           y == [c EXCEPT !.indicator = target, !.isSliding = FALSE, !.active = b]
           z == [c EXCEPT !.isSliding = FALSE]
           moved == IF carouselConf.animated THEN x ELSE y
           s == Carousels!SlideTo(c, target, veto)
<1>1. s = IF target \in c.active THEN z
          ELSE IF target \in veto THEN c
          ELSE IF c.interval THEN Carousels!Cycle(Carousels!Pause(moved)) ELSE moved
  <2> DEFINE x0 == [c EXCEPT !.indicator = target, !.isSliding = TRUE,
                       !.slides[from] = Append(@, target),
                       !.rushed = @ \/ ~ (Carousels!Moving(c) \subseteq {<<from, target>>})]
  <2>1. s = IF target \in c.active THEN z
            ELSE IF target \in veto THEN c
            ELSE IF c.interval
                 THEN Carousels!Cycle(Carousels!Pause(IF carouselConf.animated THEN x0 ELSE y))
                 ELSE IF carouselConf.animated THEN x0 ELSE y
    BY Zenon DEF Carousels!SlideTo
  <2>2. x0 = x
    BY DEF CarouselState
  <2> HIDE DEF x0, x, y, z, s
  <2> QED
    BY <2>1, <2>2
<1>2. from \in c.active /\ from \in Slidable
  BY ItemsOfOrder DEF CarouselOk, CarouselState
<1>3. r \in BOOLEAN /\ v \in [Slidable -> Seq(Slidable)] /\ b \in SUBSET Slidable
  <2>1. c.slides \in [Slidable -> Seq(Slidable)]
    BY DEF CarouselState
  <2>2. q \in Seq(Slidable)
    BY <1>2, <2>1, AppendProperties
  <2> HIDE DEF q, from
  <2> QED
    BY <1>2, <2>1, <2>2 DEF CarouselState
<1> HIDE DEF v, b, r, from
<1>4. /\ z \in CarouselState /\ z.active = c.active /\ z.indicator = c.indicator
      /\ z.isSliding = FALSE /\ z.isPaused = c.isPaused /\ z.interval = c.interval
      /\ z.slides = c.slides /\ z.slid = c.slid /\ z.waiting = c.waiting /\ z.rushed = c.rushed
  BY DEF CarouselState
<1>5. /\ x \in CarouselState /\ x.active = c.active /\ x.indicator = target
      /\ x.isSliding = TRUE /\ x.isPaused = c.isPaused /\ x.interval = c.interval
      /\ x.slides = v /\ x.slid = c.slid /\ x.waiting = c.waiting /\ x.rushed = r
  BY <1>3 DEF CarouselState
<1>6. /\ y \in CarouselState /\ y.active = b /\ y.indicator = target
      /\ y.isSliding = FALSE /\ y.isPaused = c.isPaused /\ y.interval = c.interval
      /\ y.slides = c.slides /\ y.slid = c.slid /\ y.waiting = c.waiting /\ y.rushed = c.rushed
  BY <1>3 DEF CarouselState
<1> HIDE DEF x, y, z, s
<1>7. CarouselOk(z)
  <2>1. Carousels!Moving(z) = Carousels!Moving(c)
    BY <1>4, SameMoving
  <2> QED
    BY <1>4, <2>1 DEF CarouselOk, Orderly
<1>8. ASSUME target \notin c.active, carouselConf.animated PROVE CarouselOk(x)
  <2>1. Carousels!Moving(x) = Carousels!Moving(c) \cup {<<from, target>>}
    BY <1>2, <1>5, MovesToo DEF v, q
  <2>2. from # target
    BY <1>2, <1>8
  <2>3. ASSUME ~x.rushed PROVE Orderly(x)
    <3>1. ~r /\ Orderly(c)
      BY <1>5, <2>3 DEF CarouselOk, r
    <3>2. Carousels!Moving(x) = {<<from, target>>}
      BY <2>1, <3>1 DEF r
    <3>3. x.active = {from}
      BY <1>2, <1>5, <3>1 DEF Orderly
    <3> QED
      BY <1>5, <3>2, <3>3 DEF Orderly
  <2>4. \A i \in Slidable : <<i, i>> \notin Carousels!Moving(x)
    BY <2>1, <2>2 DEF CarouselOk
  <2> QED
    BY <1>5, <1>8, <2>1, <2>3, <2>4 DEF CarouselOk
<1>9. ASSUME target \notin c.active, ~carouselConf.animated PROVE CarouselOk(y)
  <2>1. Carousels!Moving(y) = {} /\ Carousels!Moving(c) = {}
    BY <1>6, <1>9, SameMoving DEF CarouselOk
  <2>2. ASSUME ~y.rushed PROVE Orderly(y)
    <3>1. c.active = {from}
      BY <1>2, <1>6, <2>2 DEF CarouselOk, Orderly
    <3>2. y.active = {target}
      BY <1>6, <3>1 DEF b
    <3> QED
      BY <1>6, <2>1, <3>2 DEF Orderly
  <2>3. y.active # {}
    BY <1>6 DEF b
  <2> QED
    BY <1>6, <2>1, <2>2, <2>3 DEF CarouselOk
<1>10. ASSUME target \notin c.active
       PROVE  moved \in CarouselState /\ CarouselOk(moved)
  BY <1>5, <1>6, <1>8, <1>9, <1>10
<1> HIDE DEF moved
<1>11. ASSUME target \notin c.active
       PROVE  /\ Carousels!Cycle(Carousels!Pause(moved)) \in CarouselState
              /\ CarouselOk(Carousels!Cycle(Carousels!Pause(moved)))
  <2>1. Retimed(moved, Carousels!Cycle(Carousels!Pause(moved)))
    BY <1>10, <1>11, Restarted DEF CarouselOk
  <2> QED
    BY <1>10, <1>11, <2>1, RetimedKeeps DEF Retimed
<1>12. s \in CarouselState /\ CarouselOk(s)
  BY <1>1, <1>4, <1>7, <1>10, <1>11
<1> QED
  BY <1>12 DEF s

\* to(index) waits for the slide under way, or slides.
LEMMA ToKeeps ==
  ASSUME carouselConf \in CarouselConf, NEW c \in CarouselState, CarouselOk(c),
         NEW index \in Slidable, NEW isNumber \in BOOLEAN, NEW veto
  PROVE  /\ Carousels!To(c, index, isNumber, veto) \in CarouselState
         /\ CarouselOk(Carousels!To(c, index, isNumber, veto))
<1> DEFINE w == Append(c.waiting, <<index, isNumber>>)
           x == [c EXCEPT !.waiting = w]
           s == Carousels!To(c, index, isNumber, veto)
<1>1. s = IF c.isSliding THEN x
          ELSE IF isNumber /\ Carousels!ActiveItem(c) = index
               THEN Carousels!Cycle(Carousels!Pause(c))
          ELSE Carousels!SlideTo(c, index, veto)
  BY Zenon DEF Carousels!To
<1>2. w \in Seq(Slidable \X BOOLEAN)
  BY AppendProperties DEF CarouselState
<1> HIDE DEF w
<1>3. /\ x \in CarouselState /\ x.active = c.active /\ x.indicator = c.indicator
      /\ x.isSliding = c.isSliding /\ x.isPaused = c.isPaused /\ x.interval = c.interval
      /\ x.slides = c.slides /\ x.slid = c.slid /\ x.rushed = c.rushed
  BY <1>2 DEF CarouselState
<1> HIDE DEF x, s
<1>4. CASE c.isSliding
  <2>1. Carousels!Moving(x) = Carousels!Moving(c)
    BY <1>3, SameMoving
  <2>2. CarouselOk(x)
    BY <1>3, <1>4, <2>1 DEF CarouselOk, Orderly
  <2> QED
    BY <1>1, <1>3, <1>4, <2>2 DEF s
<1>5. CASE ~c.isSliding /\ isNumber /\ Carousels!ActiveItem(c) = index
  <2>1. Retimed(c, Carousels!Cycle(Carousels!Pause(c)))
    BY Restarted DEF CarouselOk
  <2>2. s = Carousels!Cycle(Carousels!Pause(c))
    BY <1>1, <1>5
  <2> QED
    BY <2>1, <2>2, RetimedKeeps DEF Retimed, s
<1>6. CASE ~c.isSliding /\ ~(isNumber /\ Carousels!ActiveItem(c) = index)
  <2>1. s = Carousels!SlideTo(c, index, veto)
    BY <1>1, <1>6
  <2> QED
    BY <2>1, SlideToKeeps DEF s
<1> QED
  BY <1>4, <1>5, <1>6

\* The transition of the active item ends: what it moved to is active.
LEMMA ItemEndKeeps ==
  ASSUME CarouselInv, NEW i \in Slidable, Carousels!ItemTransitionEnd(i)
  PROVE  CarouselInv'
<1> DEFINE targets == carousel.slides[i]
           T == {targets[k] : k \in DOMAIN targets}
           b == (carousel.active \cup T) \ {i}
           v == [carousel.slides EXCEPT ![i] = <<>>]
           n == carousel.slid + Len(targets)
           s == [carousel EXCEPT !.active = b, !.isSliding = FALSE, !.slides = v, !.slid = n]
<1>1. /\ carouselConf \in CarouselConf /\ carouselConf' = carouselConf
      /\ carousel \in CarouselState /\ CarouselOk(carousel)
      /\ targets # <<>>
  BY Zenon DEF CarouselInv, Carousels!ItemTransitionEnd, Carousels!Becomes
<1>2. carousel' = s
  <2>1. carousel' = [carousel EXCEPT !.active = (@ \cup T) \ {i}, !.isSliding = FALSE,
                                     !.slides[i] = <<>>, !.slid = @ + Len(targets)]
    BY Zenon DEF Carousels!ItemTransitionEnd, Carousels!Becomes
  <2> QED
    BY <1>1, <2>1 DEF CarouselState
<1>3. targets \in Seq(Slidable)
  BY <1>1 DEF CarouselState
<1> HIDE DEF targets
<1>4. Len(targets) \in Nat /\ Len(targets) > 0 /\ DOMAIN targets = 1..Len(targets)
      /\ \A k \in 1..Len(targets) : targets[k] \in Slidable
  BY <1>1, <1>3, LenProperties, EmptySeq, ElementOfSeq
<1>5. T \in SUBSET Slidable /\ T # {}
  BY <1>4
<1>6. \A t \in Slidable : t \in T <=> <<i, t>> \in Carousels!Moving(carousel)
  BY DEF Carousels!Moving, Carousels!Range, Slidable, targets
<1> HIDE DEF T
<1>7. i \notin T
  BY <1>1, <1>6 DEF CarouselOk
<1>8. b \in SUBSET Slidable /\ b # {}
  BY <1>1, <1>5, <1>7 DEF CarouselState
<1>9. v \in [Slidable -> Seq(Slidable)]
  BY <1>1, EmptySeq DEF CarouselState
<1>10. n \in Nat /\ n > 0
  BY <1>1, <1>4 DEF CarouselState
<1>11. b = (carousel.active \cup T) \ {i} /\ v = [carousel.slides EXCEPT ![i] = <<>>]
  OBVIOUS
<1> HIDE DEF b, v, n
<1>12. /\ s \in CarouselState /\ s.active = b /\ s.indicator = carousel.indicator
       /\ s.isSliding = FALSE /\ s.isPaused = carousel.isPaused
       /\ s.interval = carousel.interval /\ s.slides = v /\ s.slid = n
       /\ s.waiting = carousel.waiting /\ s.rushed = carousel.rushed
  BY <1>1, <1>8, <1>9, <1>10 DEF CarouselState
<1> HIDE DEF s
<1>13. /\ Carousels!Moving(s) \subseteq Slidable \X Slidable
       /\ \A j, t \in Slidable : <<j, t>> \in Carousels!Moving(s) <=>
                                   <<j, t>> \in Carousels!Moving(carousel) /\ j # i
  <2>1. Carousels!Moving(s) \subseteq Slidable \X Slidable
    BY DEF Carousels!Moving, Slidable
  <2> QED
    BY <1>1, <1>11, <1>12, <2>1, MovedAway
<1>14. ASSUME ~s.rushed PROVE Orderly(s)
  <2>1. PICK a \in carousel.active :
          /\ carousel.active = {a}
          /\ \/ Carousels!Moving(carousel) = {} /\ carousel.indicator = a
             \/ Carousels!Moving(carousel) = {<<a, carousel.indicator>>}
    BY <1>1, <1>12, <1>14 DEF CarouselOk, Orderly
  <2>2. a \in Slidable /\ carousel.indicator \in Slidable
    BY <1>1, <2>1 DEF CarouselState
  <2>3. PICK t \in T : TRUE
    BY <1>5
  <2>4. <<i, t>> \in Carousels!Moving(carousel)
    BY <1>5, <1>6
  <2>5. Carousels!Moving(carousel) = {<<a, carousel.indicator>>}
    BY <2>1, <2>4
  <2>6. i = a /\ T = {carousel.indicator}
    BY <1>5, <1>6, <2>4, <2>5
  <2>7. Carousels!Moving(s) = {}
    BY <1>13, <2>5, <2>6
  <2>8. s.active = {s.indicator}
    BY <1>7, <1>11, <1>12, <2>1, <2>6
  <2> QED
    BY <2>7, <2>8 DEF Orderly
<1>15. CarouselOk(s)
  <2>1. \A j \in Slidable : <<j, j>> \notin Carousels!Moving(s)
    BY <1>1, <1>13 DEF CarouselOk
  <2>2. ~carouselConf.animated => Carousels!Moving(s) = {}
    BY <1>1, <1>13 DEF CarouselOk
  <2>3. s.active # {} /\ s.slid > 0 /\ (s.isPaused => ~s.interval)
    BY <1>1, <1>8, <1>10, <1>12 DEF CarouselOk
  <2> QED
    BY <1>12, <1>14, <2>1, <2>2, <2>3 DEF CarouselOk
<1>16. carousel' \in CarouselState /\ carouselConf' = carouselConf /\ CarouselOk(carousel')
  BY <1>1, <1>2, <1>12, <1>15
<1> QED
  BY <1>1, <1>16 DEF CarouselInv, CarouselOk, Orderly, Carousels!Moving

\* The task of `slid` runs every call of to() that waits for it.
LEMMA SlidKeeps ==
  ASSUME CarouselInv, NEW veto, Carousels!SlidEvent(veto)
  PROVE  CarouselInv'
<1> DEFINE calls == carousel.waiting
           m == Len(calls)
           k0 == carousel.slid - 1
           base == [carousel EXCEPT !.slid = k0, !.waiting = <<>>]
           Good == {c \in CarouselState : CarouselOk(c)}
           Run(c, call) == Carousels!To(c, call[1], call[2], veto)
           step == [k \in 1..m |-> [c \in Good |-> Run(c, calls[k])]]
           After(f) == [k \in 0..m |-> IF k = 0 THEN base ELSE Run(f[k - 1], calls[k])]
<1>1. /\ carouselConf \in CarouselConf /\ carouselConf' = carouselConf
      /\ carousel \in CarouselState /\ CarouselOk(carousel) /\ carousel.slid > 0
  BY Zenon DEF CarouselInv, Carousels!SlidEvent, Carousels!Becomes
<1>2. carousel' = (CHOOSE g : g = After(g))[m]
  <2>1. base = [carousel EXCEPT !.slid = @ - 1, !.waiting = <<>>]
    OBVIOUS
  <2> QED
    BY Zenon DEF Carousels!SlidEvent, Carousels!Becomes
<1>3. /\ m \in Nat
      /\ \A k \in 1..m : calls[k][1] \in Slidable /\ calls[k][2] \in BOOLEAN
  <2>1. calls \in Seq(Slidable \X BOOLEAN)
    BY <1>1 DEF CarouselState
  <2> HIDE DEF calls
  <2>2. m \in Nat /\ \A k \in 1..m : calls[k] \in Slidable \X BOOLEAN
    BY <2>1, LenProperties, ElementOfSeq
  <2> QED
    BY <2>2
<1>4. base \in Good
  <2>1. k0 \in Nat
    BY <1>1 DEF CarouselState
  <2> HIDE DEF k0
  <2>2. /\ base \in CarouselState /\ base.active = carousel.active
        /\ base.indicator = carousel.indicator
        /\ base.isSliding = carousel.isSliding /\ base.isPaused = carousel.isPaused
        /\ base.interval = carousel.interval /\ base.slides = carousel.slides
        /\ base.waiting = <<>> /\ base.rushed = carousel.rushed
    BY <1>1, <2>1, EmptySeq DEF CarouselState
  <2> HIDE DEF base
  <2>3. Carousels!Moving(base) = Carousels!Moving(carousel)
    BY <2>2, SameMoving
  <2>4. CarouselOk(base)
    BY <1>1, <2>2, <2>3 DEF CarouselOk, Orderly
  <2> QED
    BY <2>2, <2>4
<1>5. \A c \in Good, k \in 1..m : Run(c, calls[k]) \in Good
  <2> HIDE DEF calls, m
  <2> QED
    BY <1>1, <1>3, ToKeeps
<1> HIDE DEF calls, m, base, Run, Good
<1>6. step \in Steps(m, Good)
  BY <1>5 DEF Steps
<1>7. PICK f : Iteration(f, m, Good, base, step)
  <2> HIDE DEF step
  <2> QED
    BY <1>3, <1>4, <1>6, Iterates
<1>8. \A k \in 1..m : step[k][f[k - 1]] = Run(f[k - 1], calls[k])
  BY <1>3, <1>7 DEF Iteration
<1>9. \A k \in 0..m : f[k] = IF k = 0 THEN base ELSE Run(f[k - 1], calls[k])
  <2> HIDE DEF step
  <2> QED
    BY <1>3, <1>7, <1>8 DEF Iteration
<1>10. f = After(f)
  <2>1. f = [k \in 0..m |-> f[k]]
    BY <1>7 DEF Iteration
  <2> QED
    BY <1>9, <2>1
<1> DEFINE g == CHOOSE h : h = After(h)
<1>11. g = After(g)
  <2> HIDE DEF After
  <2> QED
    BY <1>10
<1> HIDE DEF g
<1>12. g[0] = base /\ \A k \in 1..m : g[k] = Run(g[k - 1], calls[k])
  BY <1>3, <1>11
<1>13. \A k \in 0..m : g[k] \in Good
  <2> DEFINE A == [k \in 0..m |-> Good]
  <2>1. g[0] \in A[0] /\ \A k \in 1..m : g[k - 1] \in A[k - 1] => g[k] \in A[k]
    BY <1>3, <1>4, <1>5, <1>12
  <2>2. \A k \in 0..m : g[k] \in A[k]
    <3> HIDE DEF A
    <3> QED
      BY <1>3, <2>1, Reaches
  <2> QED
    BY <2>2
<1>14. carousel' = g[m]
  BY <1>2 DEF g
<1>15. carousel' \in CarouselState /\ CarouselOk(carousel')
  BY <1>3, <1>13, <1>14 DEF Good
<1> QED
  BY <1>1, <1>15 DEF CarouselInv, CarouselOk, Orderly, Carousels!Moving

\* Every step of the carousel keeps its invariant.
LEMMA CarouselStep == ASSUME CarouselInv, Carousels!Next PROVE CarouselInv'
<1>1. /\ carouselConf \in CarouselConf /\ carousel \in CarouselState /\ CarouselOk(carousel)
      /\ carousel.active # {} /\ (carousel.isPaused => ~carousel.interval)
  BY DEF CarouselInv, CarouselOk
<1>2. ASSUME NEW c \in CarouselState, CarouselOk(c), Carousels!Becomes(c) PROVE CarouselInv'
  BY <1>1, <1>2 DEF Carousels!Becomes, CarouselInv, CarouselOk, Orderly, Carousels!Moving
<1>3. ASSUME NEW isNext \in BOOLEAN, NEW veto
      PROVE  /\ Carousels!Slide(carousel, isNext, veto) \in CarouselState
             /\ CarouselOk(Carousels!Slide(carousel, isNext, veto))
  BY <1>1, ItemsOfOrder, SlideToKeeps DEF Carousels!Slide
<1>4. ASSUME NEW c, Retimed(carousel, c), Carousels!Becomes(c) PROVE CarouselInv'
  BY <1>1, <1>2, <1>4, RetimedKeeps DEF Retimed
<1>5. ASSUME NEW isNext \in BOOLEAN, NEW veto, Carousels!Swipe(isNext, veto) PROVE CarouselInv'
  <2> DEFINE c == Carousels!Slide(carousel, isNext, veto)
             p == Carousels!Pause(c)
             t == [p EXCEPT !.touch = TRUE]
  <2>1. Carousels!Becomes(IF carouselConf.hover THEN t ELSE c)
    BY <1>5, Zenon DEF Carousels!Swipe
  <2>2. c \in CarouselState /\ CarouselOk(c) /\ (c.isPaused => ~c.interval)
    BY <1>3 DEF CarouselOk
  <2> HIDE DEF c
  <2>3. Retimed(c, p)
    BY <1>1, <2>2, TimersFields
  <2> HIDE DEF p
  <2>4. CarouselOk(p) /\ p \in CarouselState /\ (p.isPaused => ~p.interval)
    BY <2>2, <2>3, RetimedKeeps DEF Retimed
  <2>5. Retimed(p, t)
    BY <1>1, <2>4, TimersFields
  <2> HIDE DEF t
  <2>6. CarouselOk(t) /\ t \in CarouselState
    BY <2>4, <2>5, RetimedKeeps DEF Retimed
  <2> QED
    BY <1>2, <2>1, <2>2, <2>6
<1>6. ASSUME Carousels!TouchTimeout PROVE CarouselInv'
  <2> DEFINE t == [carousel EXCEPT !.touch = FALSE]
  <2>1. Retimed(carousel, t)
    BY <1>1, TimersFields
  <2>2. Carousels!Becomes(Carousels!Cycle(t))
    BY <1>6, Zenon DEF Carousels!TouchTimeout
  <2> HIDE DEF t
  <2>3. Retimed(t, Carousels!Cycle(t))
    BY <1>1, <2>1, TimersFields DEF Retimed
  <2>4. Retimed(carousel, Carousels!Cycle(t))
    BY <2>1, <2>3 DEF Retimed
  <2> QED
    BY <1>4, <2>2, <2>4
<1>7. ASSUME Carousels!CallPauseOrCycle \/ Carousels!MouseEnterOrLeave PROVE CarouselInv'
  BY <1>1, <1>4, <1>7, TimersFields DEF Carousels!CallPauseOrCycle, Carousels!MouseEnterOrLeave
<1>8. ASSUME NEW index \in Carousels!Item, NEW isNumber \in BOOLEAN, NEW veto,
             Carousels!GoTo(index, isNumber, veto)
      PROVE  CarouselInv'
  BY <1>1, <1>2, <1>8, ToKeeps DEF Carousels!GoTo, Slidable
<1>9. ASSUME NEW isNext \in BOOLEAN, NEW veto,
             Carousels!ClickControl(isNext, veto) \/ Carousels!Keydown(isNext, veto)
      PROVE  CarouselInv'
  BY <1>2, <1>3, <1>9 DEF Carousels!ClickControl, Carousels!Keydown
<1>10. ASSUME NEW veto, Carousels!IntervalTick(veto) PROVE CarouselInv'
  BY <1>2, <1>3, <1>10 DEF Carousels!IntervalTick
<1>11. ASSUME Carousels!UserInput PROVE CarouselInv'
  BY <1>5, <1>7, <1>8, <1>9, <1>10, <1>11 DEF Carousels!UserInput
<1> QED
  BY <1>6, <1>11, ItemEndKeeps, SlidKeeps DEF Carousels!Next, Slidable

\* The invariant of the carousel is inductive.
THEOREM CarouselKept == DocsSpec => []CarouselInv
<1>1. ASSUME DocsInit PROVE CarouselInv
  <2>1. PICK conf \in CarouselConf, ride \in BOOLEAN : Carousels!CarouselLoad(conf, ride)
    <3>1. CASE widget = "carousel"
      <4>1. PICK wrap, hover, animated, ride \in BOOLEAN :
              Carousels!CarouselLoad([wrap |-> wrap, interval |-> TRUE, hover |-> hover,
                                      animated |-> animated], ride)
        BY <1>1, <3>1 DEF DocsInit, Carousels!Init
      <4>2. [wrap |-> wrap, interval |-> TRUE, hover |-> hover, animated |-> animated]
              \in CarouselConf
        BY DEF CarouselConf
      <4> QED
        BY <4>1, <4>2
    <3>2. CASE widget # "carousel"
      <4>1. [wrap |-> TRUE, interval |-> FALSE, hover |-> FALSE, animated |-> TRUE] \in CarouselConf
        BY DEF CarouselConf
      <4> QED
        BY <1>1, <3>2, <4>1 DEF DocsInit
    <3> QED
      BY <3>1, <3>2
  <2> DEFINE i == ride /\ conf.interval
             v == [k \in Slidable |-> <<>>]
             s == [active |-> {0}, indicator |-> 0, isSliding |-> FALSE,
                   isPaused |-> FALSE, interval |-> i, slides |-> v, slid |-> 0,
                   waiting |-> <<>>, touch |-> FALSE, rushed |-> FALSE]
  <2>2. carouselConf \in CarouselConf /\ carousel = s
    BY <2>1 DEF Carousels!CarouselLoad, Slidable
  <2>3. 0 \in Slidable /\ 0 \in Nat
    BY DocsAssumption DEF Slidable, Carousels!Item
  <2>4. i \in BOOLEAN /\ v \in [Slidable -> Seq(Slidable)]
    BY EmptySeq DEF CarouselConf
  <2>5. v = [k \in Slidable |-> <<>>]
    OBVIOUS
  <2> HIDE DEF i, v
  <2>6. /\ s \in CarouselState /\ s.active = {0} /\ s.indicator = 0 /\ s.isSliding = FALSE
        /\ s.isPaused = FALSE /\ s.slides = v /\ s.waiting = <<>>
    BY <2>3, <2>4, EmptySeq DEF CarouselState
  <2> HIDE DEF s
  <2>7. Carousels!Moving(s) = {}
    BY <2>5, <2>6 DEF Carousels!Moving, Carousels!Range, Slidable
  <2>8. CarouselOk(s)
    BY <2>6, <2>7 DEF CarouselOk, Orderly
  <2> QED
    BY <2>2, <2>6, <2>8 DEF CarouselInv
<1>2. CarouselInv /\ [DocsNext]_docsVars => CarouselInv'
  <2> SUFFICES ASSUME CarouselInv, [DocsNext]_docsVars PROVE CarouselInv'
    OBVIOUS
  <2>1. Carousels!Next \/ UNCHANGED <<carouselConf, carousel>>
    BY Zenon DEF DocsNext, docsVars
  <2>2. CASE UNCHANGED <<carouselConf, carousel>>
    BY <2>2 DEF CarouselInv, CarouselOk, Orderly, Carousels!Moving
  <2> QED
    BY <2>1, <2>2, CarouselStep
<1> QED
  BY <1>1, <1>2, PTL DEF DocsSpec

\* Unless a slide was begun while another moved, one item is active, and
\* between slides it is the one the indicator points at; a carousel that was
\* paused has no timer (Carousel's _slide, pause and cycle).
THEOREM OneItemActive == DocsSpec => []OneActiveItem
<1>1. CarouselInv => OneActiveItem
  <2> SUFFICES ASSUME CarouselInv PROVE OneActiveItem
    OBVIOUS
  <2>1. ASSUME ~carousel.rushed
        PROVE  /\ Carousels!Cardinality(carousel.active) = 1
               /\ Carousels!Moving(carousel) = {} => carousel.active = {carousel.indicator}
    <3>1. PICK a \in carousel.active :
            /\ carousel.active = {a}
            /\ \/ Carousels!Moving(carousel) = {} /\ carousel.indicator = a
               \/ Carousels!Moving(carousel) = {<<a, carousel.indicator>>}
      BY <2>1 DEF CarouselInv, CarouselOk, Orderly
    <3>2. Carousels!Cardinality({a}) = Cardinality({a})
      BY DEF Carousels!Cardinality, Cardinality
    <3>3. Cardinality({a}) = 1
      BY FS_Singleton
    <3> QED
      BY <3>1, <3>2, <3>3
  <2> QED
    BY <2>1 DEF CarouselInv, CarouselOk, OneActiveItem, Carousels!OneActiveItem,
                Carousels!PausedIsStill
<1> QED
  BY <1>1, CarouselKept, PTL

\* Whatever slides, keys and swipes come together, a sliding carousel has an
\* item that moves, and every call of to() that waits has something to wait for.
THEOREM DeferredServed == DocsSpec => []DeferredToIsServed
<1>1. CarouselInv => DeferredToIsServed
  BY DEF CarouselInv, CarouselOk, DeferredToIsServed, Carousels!DeferredToIsServed
<1> QED
  BY <1>1, CarouselKept, PTL

-----------------------------------------------------------------------------
(***************************************************************************)
(* The search box (SearchBox).                                             *)
(***************************************************************************)
\* The results of which the list shows an entry each.
Suggested(found) == Only(found, Page \ NoBody)
Entry == [page : Page, latest : BOOLEAN]

\* A query finds so many pages, and no more are suggested.
LEMMA FoundPages ==
  ASSUME NEW found \in Box!Found
  PROVE  /\ found \in Seq(Page) /\ Len(found) \in 0..MaxResults
         /\ Suggested(found) \in Seq(Page) /\ Len(Suggested(found)) \in 0..Len(found)
         /\ Box!Only(found, Page \ NoBody) = Suggested(found)
<1>1. PICK n \in 0..MaxResults : found \in [1..n -> Page]
  BY DEF Box!Found
<1>2. n \in Nat
  BY DocsAssumption
<1>3. found \in Seq(Page) /\ Len(found) = n
  BY <1>1, <1>2, IsASeq, LenProperties
<1>4. Suggested(found) \in Seq(Page) /\ Len(Suggested(found)) <= Len(found)
  BY <1>3, OnlyOf DEF Suggested
<1>5. Len(Suggested(found)) \in Nat
  BY <1>4, LenProperties
<1>6. Box!Only(found, Page \ NoBody) = Suggested(found)
  BY Zenon DEF Suggested, Only, Box!Only
<1> QED
  BY <1>1, <1>2, <1>3, <1>4, <1>5, <1>6

\* The list e shows what the query found: some entries of earlier queries, and
\* then one for each page with a body, in the order of the results.
Shows(e, found) ==
  LET suggested == Suggested(found)
      earlier == Len(e) - Len(suggested)
  IN e # <<>> =>
       /\ earlier \in 0..(Len(found) - Len(suggested))
       /\ \A i \in DOMAIN e : e[i].latest <=> i > earlier
       /\ \A i \in DOMAIN suggested : e[earlier + i].page = suggested[i]

\* The inductive invariant of the search box.
SearchInv ==
  /\ Box!SearchTypeOK
  /\ Shows(entries, results)

\* The list is never longer than there are results.
LEMMA ShownFit ==
  ASSUME NEW e \in Seq(Entry), NEW found \in Box!Found, Shows(e, found)
  PROVE  Len(e) \in 0..MaxResults
<1>1. /\ Len(found) \in 0..MaxResults /\ Len(Suggested(found)) \in 0..Len(found)
      /\ Len(e) \in Nat /\ MaxResults \in Nat
  BY FoundPages, LenProperties, DocsAssumption
<1>2. CASE e = <<>>
  BY <1>1, <1>2, EmptySeq
<1>3. CASE e # <<>>
  BY <1>1, <1>3 DEF Shows
<1> QED
  BY <1>2, <1>3

\* show_results(): the entries of the query come last and the oldest ones go,
\* so that the list is as long as the results are.
LEMMA ResultsShown ==
  ASSUME SearchInv, NEW found \in Box!Found, Box!ShowResults(found)
  PROVE  SearchInv'
<1> DEFINE suggested == Suggested(found)
           old == [i \in DOMAIN entries |-> [entries[i] EXCEPT !.latest = FALSE]]
           new == [i \in DOMAIN suggested |-> [page |-> suggested[i], latest |-> TRUE]]
           childs == old \o new
           surplus == IF Len(childs) > Len(found) THEN Len(childs) - Len(found) ELSE 0
           e == SubSeq(childs, surplus + 1, Len(childs))
           m == Len(entries)
           n == Len(suggested)
           earlier == Len(e) - n
<1>1. /\ found \in Seq(Page) /\ Len(found) \in Nat /\ suggested \in Seq(Page)
      /\ n \in 0..Len(found) /\ DOMAIN suggested = 1..n
      /\ Box!Only(found, Page \ NoBody) = suggested
  BY FoundPages, LenProperties
<1>2. /\ focus = Box!AtUserInput /\ hidden' = FALSE /\ results' = found /\ focus' = focus
      /\ entries' = e
  BY <1>1, Zenon DEF Box!ShowResults
<1>3. /\ entries \in Seq(Entry) /\ m \in Nat /\ DOMAIN entries = 1..m
      /\ \A i \in 1..m : entries[i] \in Entry
  <2>1. entries \in Seq(Entry)
    BY DEF SearchInv, Box!SearchTypeOK, Entry
  <2> QED
    BY <2>1, LenProperties, ElementOfSeq
<1> HIDE DEF suggested
<1>4. old \in Seq(Entry) /\ Len(old) = m /\ \A i \in 1..m : ~old[i].latest
  <2>1. \A i \in 1..m : old[i] \in Entry /\ ~old[i].latest
    BY <1>3 DEF Entry
  <2>2. old \in [1..m -> Entry]
    BY <1>3, <2>1
  <2> HIDE DEF old
  <2> QED
    BY <1>3, <2>1, <2>2, IsASeq, LenProperties
<1>5. /\ new \in Seq(Entry) /\ Len(new) = n
      /\ \A i \in 1..n : new[i].latest /\ new[i].page = suggested[i]
  <2>1. \A i \in 1..n : suggested[i] \in Page
    BY <1>1, ElementOfSeq
  <2>2. \A i \in 1..n : new[i] \in Entry /\ new[i].latest /\ new[i].page = suggested[i]
    BY <1>1, <2>1 DEF Entry
  <2>3. new \in [1..n -> Entry]
    BY <1>1, <2>2
  <2> HIDE DEF new
  <2> QED
    BY <1>1, <2>2, <2>3, IsASeq, LenProperties
<1> HIDE DEF old, new, m, n
<1>6. /\ childs \in Seq(Entry) /\ Len(childs) = m + n
      /\ \A i \in 1..m : childs[i] = old[i]
      /\ \A i \in 1..n : childs[m + i] = new[i]
  <2>1. /\ childs \in Seq(Entry) /\ Len(childs) = m + n
        /\ \A i \in 1..(m + n) : childs[i] = IF i <= m THEN old[i] ELSE new[i - m]
    <3>1. /\ old \o new \in Seq(Entry) /\ Len(old \o new) = Len(old) + Len(new)
          /\ \A i \in 1..(Len(old) + Len(new)) :
               (old \o new)[i] = IF i <= Len(old) THEN old[i] ELSE new[i - Len(old)]
      BY <1>4, <1>5, ConcatProperties, Zenon
    <3> QED
      BY <1>4, <1>5, <3>1
  <2> HIDE DEF childs
  <2>2. ASSUME NEW i \in 1..n PROVE childs[m + i] = new[i]
    <3>1. m + i \in 1..(m + n) /\ ~(m + i <= m) /\ (m + i) - m = i
      BY <1>1, <1>3
    <3> QED
      BY <2>1, <3>1
  <2>3. ASSUME NEW i \in 1..m PROVE childs[i] = old[i]
    <3>1. i \in 1..(m + n) /\ i <= m
      BY <1>1, <1>3
    <3> QED
      BY <2>1, <3>1
  <2> QED
    BY <2>1, <2>2, <2>3
<1>7. /\ surplus \in 0..m /\ m + n - surplus = (IF m + n > Len(found) THEN Len(found) ELSE m + n)
  BY <1>1, <1>3, <1>6
<1> HIDE DEF childs, surplus
<1>8. /\ e \in Seq(Entry) /\ Len(e) = m + n - surplus
      /\ \A i \in 1..(m + n - surplus) : e[i] = childs[surplus + i]
  <2>1. /\ surplus + 1 \in 1..(Len(childs) + 1) /\ Len(childs) \in Nat
        /\ \A i \in (surplus + 1)..Len(childs) : childs[i] \in Entry
    BY <1>1, <1>3, <1>6, <1>7, ElementOfSeq
  <2> DEFINE from == surplus + 1
             to == Len(childs)
  <2>2. /\ from \in Int /\ to \in Int
        /\ to - from + 1 = m + n - surplus
        /\ from <= to => to - from + 1 = m + n - surplus
        /\ ~(from <= to) => 0 = m + n - surplus
        /\ \A i \in 1..(m + n - surplus) : from + i - 1 = surplus + i
        /\ \A i \in from..to : childs[i] \in Entry
    BY <1>3, <1>1, <1>6, <1>7, <2>1
  <2> HIDE DEF from, to
  <2>3. /\ SubSeq(childs, from, to) \in Seq(Entry)
        /\ Len(SubSeq(childs, from, to)) = IF from <= to THEN to - from + 1 ELSE 0
        /\ \A i \in 1..(to - from + 1) :
             SubSeq(childs, from, to)[i] = childs[from + i - 1]
    <3>1. from \in Int /\ to \in Int /\ \A i \in from..to : childs[i] \in Entry
      BY <2>2
    <3> HIDE DEF e
    <3> QED
      BY ONLY <3>1, SubSeqProperties
  <2>4. e = SubSeq(childs, from, to)
    BY Zenon DEF from, to
  <2> HIDE DEF e
  <2>5. Len(e) = m + n - surplus
    BY <2>2, <2>3, <2>4, Zenon
  <2>6. ASSUME NEW i \in 1..(m + n - surplus) PROVE e[i] = childs[surplus + i]
    BY <2>2, <2>3, <2>4, <2>6, Zenon
  <2> QED
    BY <2>3, <2>4, <2>5, <2>6, Zenon
<1> HIDE DEF e
<1>9. earlier = m - surplus /\ earlier \in 0..(Len(found) - n) /\ DOMAIN e = 1..(earlier + n)
  BY <1>1, <1>3, <1>7, <1>8, LenProperties
<1> HIDE DEF earlier
<1>10. ASSUME NEW i \in 1..(earlier + n) PROVE e[i].latest <=> i > earlier
  <2>1. e[i] = childs[surplus + i]
    <3>1. 1..(earlier + n) = 1..(m + n - surplus)
      <4>1. earlier + n = m + n - surplus
        BY <1>1, <1>3, <1>7, <1>9
      <4> QED
        BY <4>1
    <3> QED
      BY <1>8, <1>10, <3>1, Zenon
  <2>2. CASE i > earlier
    <3>1. i - earlier \in 1..n /\ m + (i - earlier) = surplus + i
      BY <1>1, <1>3, <1>7, <1>9, <2>2
    <3> QED
      BY <1>5, <1>6, <2>1, <2>2, <3>1
  <2>3. CASE ~(i > earlier)
    <3>1. surplus + i \in 1..m
      BY <1>1, <1>3, <1>7, <1>9, <2>3
    <3> QED
      BY <1>4, <1>6, <2>1, <2>3, <3>1
  <2> QED
    BY <2>2, <2>3
<1>11. ASSUME NEW i \in 1..n PROVE e[earlier + i].page = suggested[i]
  <2>1. earlier + i \in 1..(m + n - surplus) /\ surplus + (earlier + i) = m + i
    BY <1>1, <1>3, <1>7, <1>9
  <2>2. e[earlier + i] = childs[m + i]
    BY <1>8, <2>1
  <2> QED
    BY <1>5, <1>6, <2>2
<1>12. Shows(e, found)
  BY <1>1, <1>9, <1>10, <1>11 DEF Shows, earlier, n, suggested
<1>13. Box!SearchTypeOK'
  <2>1. focus' \in Box!Focus /\ ~(focus' > 0)
    BY <1>2 DEF SearchInv, Box!SearchTypeOK, Box!AtUserInput
  <2>2. entries' \in Seq([page : Page, latest : BOOLEAN])
    BY <1>2, <1>8 DEF Entry
  <2> QED
    BY <1>2, <2>1, <2>2 DEF Box!SearchTypeOK
<1> QED
  BY <1>2, <1>12, <1>13 DEF SearchInv

\* Every step of the search box keeps its invariant.
LEMMA SearchStep == ASSUME SearchInv, Box!SearchNext PROVE SearchInv'
<1>1. /\ entries \in Seq(Entry) /\ hidden \in BOOLEAN /\ results \in Box!Found
      /\ focus \in Box!Focus /\ (focus > 0 => ~hidden /\ focus <= Len(entries))
      /\ Shows(entries, results)
  BY DEF SearchInv, Box!SearchTypeOK, Entry
<1>2. Len(entries) \in 0..MaxResults /\ MaxResults \in Nat
  BY <1>1, ShownFit, DocsAssumption
<1>3. focus \in Int
  BY <1>1, <1>2 DEF Box!Focus, Box!AtPage, Box!AtUserInput, Box!AtOtherField
<1>4. <<>> \in Seq(Entry) /\ Shows(<<>>, results)
  BY EmptySeq DEF Shows
<1>5. ASSUME entries' = entries \/ entries' = <<>>, results' = results,
             hidden' \in BOOLEAN, focus' \in Box!Focus,
             focus' > 0 => ~hidden' /\ focus' <= Len(entries')
      PROVE  SearchInv'
  BY <1>1, <1>4, <1>5 DEF SearchInv, Box!SearchTypeOK, Entry
<1> USE DEF Box!Focus, Box!AtPage, Box!AtUserInput, Box!AtOtherField, Box!Unfocused
<1>6. CASE Box!Slash
  BY <1>1, <1>5, <1>6 DEF Box!Slash
<1>7. CASE Box!Escape
  BY <1>1, <1>3, <1>5, <1>7 DEF Box!Escape
<1>8. CASE Box!ClickSuggestion
  BY <1>1, <1>3, <1>5, <1>8 DEF Box!ClickSuggestion
<1>9. CASE Box!ClickList
  BY <1>1, <1>5, <1>9 DEF Box!ClickList
<1>10. ASSUME NEW target, Box!ClickOutsideList(target) PROVE SearchInv'
  BY <1>1, <1>5, <1>10 DEF Box!ClickOutsideList
<1>11. ASSUME NEW isDown \in BOOLEAN, Box!ArrowKey(isDown) PROVE SearchInv'
  <2> DEFINE index == IF focus > 0 THEN focus ELSE 0
             f == IF isDown THEN (IF index < Len(entries) THEN index + 1 ELSE index)
                  ELSE IF index > 1 THEN index - 1 ELSE 1
  <2>1. ~hidden /\ entries # <<>> /\ focus' = f /\ UNCHANGED <<entries, hidden, results>>
    BY <1>11, Zenon DEF Box!ArrowKey
  <2>2. Len(entries) > 0
    BY <1>1, <1>2, <2>1, EmptySeq
  <2>3. index \in 0..Len(entries)
    BY <1>1, <1>2, <1>3
  <2>4. f \in 1..Len(entries)
    BY <1>2, <2>2, <2>3
  <2> HIDE DEF f
  <2> QED
    BY <1>1, <1>2, <1>5, <2>1, <2>4
<1> QED
  BY <1>6, <1>7, <1>8, <1>9, <1>10, <1>11, ResultsShown DEF Box!SearchNext

\* The invariant of the search box is inductive.
THEOREM SearchKept == DocsSpec => []SearchInv
<1>1. ASSUME DocsInit PROVE SearchInv
  <2>1. entries = <<>> /\ hidden = FALSE /\ focus = Box!AtPage /\ results = <<>>
    BY <1>1 DEF DocsInit, Box!Init, Box!SearchLoad
  <2>2. <<>> \in Box!Found
    <3>1. <<>> \in [1..0 -> Page] /\ 0 \in 0..MaxResults
      BY DocsAssumption
    <3>2. Box!IsInjective(<<>>)
      BY DEF Box!IsInjective
    <3> QED
      BY <3>1, <3>2 DEF Box!Found
  <2>3. focus \in Box!Focus /\ ~(focus > 0)
    BY <2>1 DEF Box!Focus, Box!AtPage
  <2>4. entries \in Seq([page : Page, latest : BOOLEAN])
    BY <2>1, EmptySeq
  <2> QED
    BY <2>1, <2>2, <2>3, <2>4 DEF SearchInv, Box!SearchTypeOK, Shows
<1>2. SearchInv /\ [DocsNext]_docsVars => SearchInv'
  <2> SUFFICES ASSUME SearchInv, [DocsNext]_docsVars PROVE SearchInv'
    OBVIOUS
  <2>1. Box!SearchNext \/ UNCHANGED <<entries, hidden, focus, results>>
    BY Zenon DEF DocsNext, docsVars
  <2>2. CASE UNCHANGED <<entries, hidden, focus, results>>
    BY <2>2 DEF SearchInv, Box!SearchTypeOK
  <2> QED
    BY <2>1, <2>2, SearchStep
<1> QED
  BY <1>1, <1>2, PTL DEF DocsSpec

\* The list shows the suggestions of the last query, in its order and at its
\* end, and an earlier one only for a result without text (show_results()).
THEOREM SuggestionsShown == DocsSpec => []Box!SuggestionsAreResults
<1>1. SearchInv => Box!SuggestionsAreResults
  <2> SUFFICES ASSUME SearchInv PROVE Box!SuggestionsAreResults
    OBVIOUS
  <2>1. Box!Only(results, Page \ NoBody) = Suggested(results) /\ Shows(entries, results)
    BY FoundPages DEF SearchInv, Box!SearchTypeOK
  <2> QED
    BY <2>1 DEF Shows, Box!SuggestionsAreResults
<1> QED
  BY <1>1, SearchKept, PTL

-----------------------------------------------------------------------------
(***************************************************************************)
(* The excerpts: every step keeps what was loaded or quotes it.            *)
(***************************************************************************)
TeaserInv ==
  \/ limit = 0 /\ page \in Seq(Char) /\ quoted \in {NotYet, MakeTeaser(page)}
  \/ limit \in Nat \ {0} /\ WellFormed(page) /\ quoted \in {NotYet, SubstringByByte(page, limit)}

\* What is quoted of a page is its excerpt, and what is left of a word without
\* half a surrogate pair is its cut.
THEOREM TeaserKept == DocsSpec => []TeaserInv
<1>1. ASSUME DocsInit PROVE TeaserInv
  <2>1. TeaserInit \/ TeaserLoad(<<>>, 0)
    BY <1>1, Zenon DEF DocsInit
  <2>2. ASSUME NEW n \in Nat, NEW text \in [1..n -> Char], TeaserLoad(text, 0) PROVE TeaserInv
    <3>1. text \in Seq(Char)
      BY SeqDef
    <3> QED
      BY <2>2, <3>1, Zenon DEF TeaserLoad, TeaserInv
  <2>3. ASSUME NEW n \in Nat, NEW bytes \in Nat \ {0}, NEW points \in [1..n -> CodePoint],
               TeaserLoad(FlattenSeq(points), bytes)
        PROVE  TeaserInv
    <3>1. WellFormed(FlattenSeq(points))
      BY PointsWellFormed
    <3> QED
      BY <2>3, <3>1, Zenon DEF TeaserLoad, TeaserInv
  <2>4. CASE TeaserLoad(<<>>, 0)
    <3>1. <<>> \in [1..0 -> Char] /\ 0 \in Nat
      OBVIOUS
    <3> QED
      BY <2>2, <2>4, <3>1, Zenon
  <2>5. CASE TeaserInit
    <3>1. /\ \A n \in 0..MaxPage : n \in Nat
          /\ \A n \in 0..(MaxPage - 1) : n \in Nat
          /\ \A bytes \in 1..(2 * MaxPage) : bytes \in Nat \ {0}
      BY TeaserAssumption
    <3>2. CASE \E n \in 0..MaxPage : \E text \in [1..n -> Char] : TeaserLoad(text, 0)
      BY <2>2, <3>1, <3>2, Zenon
    <3>3. CASE \E n \in 0..(MaxPage - 1), bytes \in 1..(2 * MaxPage) :
                 \E points \in [1..n -> CodePoint] : TeaserLoad(FlattenSeq(points), bytes)
      BY <2>3, <3>1, <3>3, Zenon
    <3> QED
      BY <2>5, <3>2, <3>3, Zenon DEF TeaserInit
  <2> QED
    BY <2>1, <2>4, <2>5
<1>2. TeaserInv /\ [DocsNext]_docsVars => TeaserInv'
  <2> SUFFICES ASSUME TeaserInv, [DocsNext]_docsVars PROVE TeaserInv'
    OBVIOUS
  <2>1. TeaserNext \/ UNCHANGED teaserVars
    BY Zenon DEF DocsNext, docsVars
  <2>2. CASE UNCHANGED teaserVars
    BY <2>2, Zenon DEF TeaserInv, teaserVars
  <2>3. CASE TeaserNext
    <3>1. /\ page' = page /\ limit' = limit
          /\ quoted' = IF limit = 0 THEN MakeTeaser(page) ELSE SubstringByByte(page, limit)
      BY <2>3 DEF TeaserNext
    <3>2. CASE limit = 0
      <4>1. page \in Seq(Char)
        BY <3>2 DEF TeaserInv
      <4> QED
        BY <3>1, <3>2, <4>1, Zenon DEF TeaserInv
    <3>3. CASE limit # 0
      <4>1. limit \in Nat \ {0} /\ WellFormed(page)
        BY <3>3 DEF TeaserInv
      <4> QED
        BY <3>1, <3>3, <4>1, Zenon DEF TeaserInv
    <3> QED
      BY <3>2, <3>3
  <2> QED
    BY <2>1, <2>2, <2>3
<1> QED
  BY <1>1, <1>2, PTL DEF DocsSpec

\* The suggestions are those of the last query, and each excerpt is the best
\* passage of its page, if none of its letters becomes two in lower case; a long
\* word is never cut inside of a pair of surrogates, nor inside of an emoji joined
\* from pairs: for pages and words of any length (show_results(), makeTeaser(),
\* substringByByte()).
THEOREM SearchShows == DocsSpec => []SearchShowsResults
<1>1. TeaserInv => TeaserIsBestPassage
  <2> SUFFICES ASSUME TeaserInv, Done, limit = 0, Starts # {}, "dotted" \notin Range(page),
                      ~(\E i \in Window(Best) : Cuts(i))
               PROVE  quoted = SubSeq(page, Best, End(Max(Window(Best))))
    BY Zenon DEF TeaserIsBestPassage
  <2>1. page \in Seq(Char) /\ quoted = MakeTeaser(page)
    BY DEF TeaserInv, Done
  <2>2. \A i \in Window(Best) : ~Cuts(i)
    BY Zenon
  <2> QED
    BY <2>1, <2>2, TeaserIs
<1>2. TeaserInv => CutKeepsCharacters
  <2> SUFFICES ASSUME TeaserInv, Done, limit > 0
               PROVE  /\ \E n \in 0..Len(page) :
                           /\ quoted = SubSeq(page, 1, n) /\ BytesUpTo(n) <= limit
                           /\ n > 0 => page[n] # "high"
                      /\ PairsJoined => quoted = SubSeq(page, 1,
                           Max({n \in 0..Len(page) : Whole(n) /\ BytesUpTo(n) <= limit}))
    BY Zenon DEF CutKeepsCharacters
  <2>1. limit \in Nat /\ WellFormed(page) /\ quoted = SubstringByByte(page, limit)
    BY DEF TeaserInv, Done
  <2> QED
    BY <2>1, CutIsLongest
<1> QED
  BY <1>1, <1>2, TeaserKept, SuggestionsShown, PTL DEF SearchShowsResults
=============================================================================
