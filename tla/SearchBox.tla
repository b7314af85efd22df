------------------------------ MODULE SearchBox ------------------------------
(***************************************************************************)
(* The search box of the documentation site and the list of suggestions    *)
(* under it (static/js/search.js).  A query appends its suggestions and    *)
(* then removes the oldest children until as many are left as there are    *)
(* results; two listeners of the document hear every key and click too.    *)
(***************************************************************************)
EXTENDS Integers, Functions, SeqFilter

CONSTANTS
  Page,         \* the pages of the index
  NoBody,       \* those without text, which are found but not suggested
  MaxResults    \* bound: results of one query

VARIABLES
  entries,      \* the children of `suggestions`, with the query they are from
  hidden,       \* its class d-none
  focus,        \* activeElement: elsewhere, an input, or an entry
  results       \* history: what the last query found

searchVars == <<entries, hidden, focus, results>>

Found == {r \in UNION {[1..n -> Page] : n \in 0..MaxResults} : IsInjective(r)}
\* What can have the focus: an entry, by its position, or one of these.
AtPage == 0
AtUserInput == -1
AtOtherField == -2
Focus == {AtPage, AtUserInput, AtOtherField} \cup 1..MaxResults

SearchTypeOK ==
  /\ entries \in Seq([page : Page, latest : BOOLEAN])
  /\ hidden \in BOOLEAN /\ results \in Found
  /\ focus \in Focus
  /\ focus > 0 => ~hidden /\ focus <= Len(entries)

SearchLoad == entries = <<>> /\ hidden = FALSE /\ focus = AtPage /\ results = <<>>

Init == SearchLoad
-----------------------------------------------------------------------------
\* The browser takes the focus from an entry that is hidden or removed.
Unfocused(f) == IF f > 0 THEN AtPage ELSE f

\* show_results(), on every input event: `len` counts the results, also those
\* that appended no child.
ShowResults(found) ==
  LET old == [i \in DOMAIN entries |-> [entries[i] EXCEPT !.latest = FALSE]]
      suggested == Only(found, Page \ NoBody)
      childs == old \o [i \in DOMAIN suggested |-> [page |-> suggested[i], latest |-> TRUE]]
      surplus == IF Len(childs) > Len(found) THEN Len(childs) - Len(found) ELSE 0
  IN /\ focus = AtUserInput
     /\ hidden' = FALSE
     /\ entries' = SubSeq(childs, surplus + 1, Len(childs))
     /\ results' = found
     /\ UNCHANGED focus

\* inputFocus(): the slash, unless it is typed into a field, and Escape.
Slash ==
  /\ focus \notin {AtUserInput, AtOtherField}
  /\ focus' = AtUserInput
  /\ UNCHANGED <<entries, hidden, results>>

Escape ==
  /\ hidden' = TRUE
  /\ focus' = IF focus = AtUserInput THEN AtPage ELSE Unfocused(focus)
  /\ UNCHANGED <<entries, results>>

\* suggestionFocus(): an arrow key with the list in sight, whatever has the
\* focus; not past either end.
ArrowKey(isDown) ==
  LET index == IF focus > 0 THEN focus ELSE 0
  IN /\ ~hidden /\ entries # <<>>
     /\ focus' = IF isDown THEN (IF index < Len(entries) THEN index + 1 ELSE index)
                 ELSE IF index > 1 THEN index - 1 ELSE 1
     /\ UNCHANGED <<entries, hidden, results>>

\* accept_suggestion() empties the list first, so that for the listener of the
\* document the click was outside of it.
ClickSuggestion ==
  /\ ~hidden /\ entries # <<>>
  /\ entries' = <<>> /\ hidden' = TRUE /\ focus' = Unfocused(focus)
  /\ UNCHANGED results

\* A click on the list beside its entries, or anywhere else.
ClickList ==
  /\ ~hidden
  /\ entries' = <<>> /\ focus' = AtPage
  /\ UNCHANGED <<hidden, results>>

ClickOutsideList(target) ==
  /\ target \in {AtPage, AtUserInput, AtOtherField}
  /\ hidden' = TRUE /\ focus' = target
  /\ UNCHANGED <<entries, results>>

SearchNext ==
  \/ \E found \in Found : ShowResults(found)
  \/ Slash \/ Escape \/ ClickSuggestion \/ ClickList
  \/ \E isDown \in BOOLEAN : ArrowKey(isDown)
  \/ \E target \in Focus : ClickOutsideList(target)

Spec == Init /\ [][SearchNext]_searchVars
-----------------------------------------------------------------------------
\* The suggestions are those of the last query, in its order and at its end of
\* the list; one of an earlier query stays only in the place of a result that
\* has no text, for which none was appended.
SuggestionsAreResults ==
  LET suggested == Only(results, Page \ NoBody)
      earlier == Len(entries) - Len(suggested)
  IN entries # <<>> =>
       /\ earlier \in 0..(Len(results) - Len(suggested))
       /\ \A i \in DOMAIN entries : entries[i].latest <=> i > earlier
       /\ \A i \in DOMAIN suggested : entries[earlier + i].page = suggested[i]
=============================================================================
