---------------------------- MODULE ComboEditor ----------------------------
(***************************************************************************)
(* The combos tab of ConfigEditor.tsx: a list of combos in groups, the     *)
(* selected one in a detail panel, its members one row each, and the rows' *)
(* requests for a member's limits and prices from models.dev.              *)
(*                                                                         *)
(* Rows have their index as key and the panel has none, so a row goes from *)
(* one combo to the next with its state when the selection changes.  A     *)
(* request ends in the closure of the render it was sent from: the index   *)
(* and the members of the combo that was selected then.                    *)
(***************************************************************************)
EXTENDS Integers, Sequences, FiniteSets, SequencesExt

CONSTANTS
    Names,      \* identities of combos: the first two exist, others are added
    Groups,     \* values of owned_by besides "default"
    Models,     \* upstream model IDs, positive numbers; 0 is the empty input
    MaxMembers, \* bound: members of a combo
    MaxClicks   \* bound: what the administrator does in one visit

ASSUME ComboEditorConstants ==
    /\ IsFiniteSet(Names) /\ Cardinality(Names) >= 2
    /\ Models \subseteq Nat \ {0} /\ MaxMembers \in Nat \ {0, 1} /\ MaxClicks \in Nat
    /\ "default" \notin Groups /\ Groups # {}

VARIABLES
    combos,     \* cfg.combos; the name of each is history, inputs may repeat
    sel,        \* selCombo
    tabOpen,    \* the tab is open: the panel and its rows are mounted
    folded,     \* collapsedGroups
    rowState,   \* per row: suggesting, and the model its candidates are for
    ask,        \* per row: the request under way, with its closure
    clicks

comboVars == <<combos, sel, tabOpen, folded, rowState, ask, clicks>>

RowIndex      == 1 .. MaxMembers
AllGroups == Groups \cup {"default"}
NameSeq   == SetToSeq(Names)

\* params is the model a member's limits and prices were taken for, 0 if none.
Member == [model: Models \cup {0}, params: Models \cup {0}]
Combo  == [name: Names, group: AllGroups, flag: BOOLEAN, relay: BOOLEAN,
           members: BoundedSeq(Member, MaxMembers) \ {<<>>}]
NoAsk  == [at |-> 0, members |-> <<>>, name |-> NameSeq[1], live |-> FALSE,
           quiet |-> FALSE]

ComboEditorTypeOK ==
    /\ \A i \in DOMAIN combos : combos[i] \in Combo
    /\ IsInjective([i \in DOMAIN combos |-> combos[i].name])
    /\ sel \in 1 .. Len(combos) \/ (sel = 1 /\ combos = <<>>)
    /\ tabOpen \in BOOLEAN /\ folded \in SUBSET AllGroups
    /\ rowState \in [RowIndex -> [busy: BOOLEAN, hits: Models \cup {0}]]
    /\ \A r \in RowIndex : ask[r].at \in 0 .. Len(NameSeq) /\ ask[r].name \in Names
    /\ clicks \in 0 .. MaxClicks

FreshRow    == [busy |-> FALSE, hits |-> 0]
EmptyMember == [model |-> 0, params |-> 0]

ComboEditorInit ==
    \E m \in Models :
        /\ combos = << [name |-> NameSeq[1], group |-> "default", flag |-> TRUE,
                        relay |-> FALSE,
                        members |-> <<[model |-> m, params |-> 0], EmptyMember>>],
                       [name |-> NameSeq[2], group |-> CHOOSE g \in Groups : TRUE,
                        flag |-> FALSE, relay |-> FALSE,
                        members |-> <<[model |-> m, params |-> m]>>] >>
        /\ sel = 1 /\ tabOpen = TRUE /\ folded = {}
        /\ rowState = [r \in RowIndex |-> FreshRow] /\ ask = [r \in RowIndex |-> NoAsk]
        /\ clicks = 0

-----------------------------------------------------------------------------
(* Rendering.                                                               *)

Current == combos[sel]
Mounted(r) == tabOpen /\ combos # <<>> /\ r \in DOMAIN Current.members
OnScreen(i) == tabOpen /\ i \in DOMAIN combos /\ combos[i].group \notin folded

\* After a step: the rows that are gone lose their state, and a request of
\* theirs has nobody to tell but the list itself.
Rerender(newRow, newAsk) ==
    LET there(r) == tabOpen' /\ combos' # <<>> /\ r \in DOMAIN combos'[sel'].members
    IN  /\ rowState' = [r \in RowIndex |-> IF there(r) THEN newRow[r] ELSE FreshRow]
        /\ ask' = [r \in RowIndex |->
              IF newAsk[r] = NoAsk THEN NoAsk
              ELSE [newAsk[r] EXCEPT !.live = @ /\ there(r),
                                     !.quiet = @ /\ combos' = combos]]

Click == clicks < MaxClicks /\ clicks' = clicks + 1
Redraw == Click /\ Rerender(rowState, ask)

-----------------------------------------------------------------------------
(* The list.                                                                *)

\* A click on an item of the list.
Select(i) ==
    /\ OnScreen(i)
    /\ sel' = i
    /\ UNCHANGED <<combos, tabOpen, folded>> /\ Redraw

SwitchTab ==
    /\ tabOpen' = ~tabOpen
    /\ UNCHANGED <<combos, sel, folded>> /\ Redraw

toggleGroupCollapse(g) ==
    /\ tabOpen /\ \E i \in DOMAIN combos : combos[i].group = g
    /\ folded' = IF g \in folded THEN folded \ {g} ELSE folded \cup {g}
    /\ UNCHANGED <<combos, sel, tabOpen>> /\ Redraw

\* The new combo is selected by a timer of 0 ms, before the next event.  (A
\* group that is new comes from a prompt.)
addCombo(g) ==
    /\ tabOpen
    /\ \E n \in {n \in Names : \A i \in DOMAIN combos : combos[i].name # n} :
           combos' = Append(combos, [name |-> n, group |-> g, flag |-> g = "default",
                                     relay |-> FALSE, members |-> <<EmptyMember>>])
    /\ sel' = Len(combos')
    /\ UNCHANGED <<tabOpen, folded>> /\ Redraw

removeCombo ==
    /\ tabOpen /\ combos # <<>>
    /\ combos' = RemoveAt(combos, sel)
    /\ sel' = IF sel = 1 THEN 1 ELSE sel - 1
    /\ UNCHANGED <<tabOpen, folded>> /\ Redraw

\* An item dropped on another takes its group and its place, and only a drop
\* into "default" leaves it in a default group.
handleComboReorder(i, j) ==
    /\ i # j /\ OnScreen(i) /\ OnScreen(j)
    /\ LET g == combos[j].group
           moved == [combos[i] EXCEPT !.group = g, !.flag = g = "default"]
       IN  combos' = InsertAt(RemoveAt(combos, i), j, moved)
    /\ sel' = j
    /\ UNCHANGED <<tabOpen, folded>> /\ Redraw

-----------------------------------------------------------------------------
(* The detail panel of the selected combo.                                  *)

\* updateCombo: a combo that is no longer there is left alone.
updateCombo(i, cb) == IF i \in DOMAIN combos THEN [combos EXCEPT ![i] = cb] ELSE combos

Update(cb) ==
    /\ tabOpen /\ combos # <<>>
    /\ cb # Current
    /\ combos' = updateCombo(sel, cb)
    /\ UNCHANGED <<sel, tabOpen, folded>> /\ Redraw

SetGroup(g) ==
    Update([Current EXCEPT !.group = g, !.flag = IF g = "default" THEN TRUE ELSE @])
ToggleDefault == Update([Current EXCEPT !.flag = ~@])
ToggleRelay   == Update([Current EXCEPT !.relay = ~@])

Members == Current.members
UpdateMembers(ms) == Update([Current EXCEPT !.members = ms])

AddMember ==
    /\ Len(Members) < MaxMembers
    /\ UpdateMembers(Append(Members, EmptyMember))
RemoveMember(r) ==
    /\ Mounted(r) /\ Len(Members) > 1
    /\ UpdateMembers(RemoveAt(Members, r))
\* The button of one of two neighbours.
MoveMember(r) ==
    /\ Mounted(r) /\ Mounted(r + 1)
    /\ UpdateMembers([Members EXCEPT ![r] = Members[r + 1], ![r + 1] = Members[r]])

-----------------------------------------------------------------------------
(* A member's row.                                                          *)

SetModel(r, m) ==
    /\ Mounted(r) /\ ~Current.relay
    /\ UpdateMembers([Members EXCEPT ![r].model = m])

\* Where a row's change goes: the combo at an index, with all of its members.
WithParams(i, members, r, p) ==
    IF i \in DOMAIN combos
    THEN updateCombo(i, [combos[i] EXCEPT !.members = [members EXCEPT ![r].params = p]])
    ELSE combos

clearParams(r) ==
    /\ Mounted(r) /\ Members[r].params # 0
    /\ combos' = WithParams(sel, Members, r, 0)
    /\ UNCHANGED <<sel, tabOpen, folded>>
    /\ Click /\ Rerender([rowState EXCEPT ![r].hits = 0], ask)

\* A candidate of the row, or one of the picker, whose query starts as the
\* row's model and may be changed to any other.
applyEntry(r, m) ==
    /\ Mounted(r)
    /\ rowState[r].hits = m \/ ~Current.relay
    /\ combos' = WithParams(sel, Members, r, m)
    /\ UNCHANGED <<sel, tabOpen, folded>>
    /\ Click /\ Rerender([rowState EXCEPT ![r].hits = 0], ask)

\* The row asks for the best entries of its model.  (Bound: one request per
\* row index; a row that was mounted anew could send a second.)
suggest(r) ==
    /\ Mounted(r) /\ ask[r] = NoAsk /\ ~rowState[r].busy
    /\ ~Current.relay /\ Members[r].model # 0
    /\ UNCHANGED <<combos, sel, tabOpen, folded>>
    /\ Click
    /\ Rerender([rowState EXCEPT ![r].busy = TRUE],
                [ask EXCEPT ![r] = [at |-> sel, members |-> Members,
                     name |-> Current.name, live |-> TRUE, quiet |-> TRUE]])

\* The answer reaches the row that asked, if it is still mounted.
TellRow(r, new) == IF ask[r].live THEN [rowState EXCEPT ![r] = new] ELSE rowState

\* Mutated form: the answer goes to the combo that is selected now.
AnsweredIndexNow(r) == sel

\* The index in the closure.
AnsweredIndex(r) == ask[r].at

\* One entry is best: it is applied at once, to the members of the closure.
SuggestApplied(r) ==
    /\ ask[r] # NoAsk
    /\ combos' = WithParams(AnsweredIndex(r), ask[r].members, r, ask[r].members[r].model)
    /\ UNCHANGED <<sel, tabOpen, folded, clicks>>
    /\ Rerender(TellRow(r, FreshRow), [ask EXCEPT ![r] = NoAsk])

\* Several are: the row offers them.
SuggestOffered(r) ==
    /\ ask[r] # NoAsk
    /\ UNCHANGED <<combos, sel, tabOpen, folded, clicks>>
    /\ Rerender(TellRow(r, [busy |-> FALSE, hits |-> ask[r].members[r].model]),
                [ask EXCEPT ![r] = NoAsk])

\* None is: the function returns before it clears "suggesting", and the button
\* stays disabled.  A request that fails clears it.
SuggestEmpty(r) ==
    /\ ask[r] # NoAsk
    /\ UNCHANGED <<combos, sel, tabOpen, folded, clicks>>
    /\ Rerender(rowState, [ask EXCEPT ![r] = NoAsk])
SuggestFails(r) ==
    /\ ask[r] # NoAsk
    /\ UNCHANGED <<combos, sel, tabOpen, folded, clicks>>
    /\ Rerender(TellRow(r, [rowState[r] EXCEPT !.busy = FALSE]), [ask EXCEPT ![r] = NoAsk])

-----------------------------------------------------------------------------
EditList ==
    \/ \E i \in DOMAIN combos : Select(i)
    \/ SwitchTab
    \/ \E g \in AllGroups : toggleGroupCollapse(g) \/ addCombo(g)
    \/ removeCombo
    \/ \E i, j \in DOMAIN combos : handleComboReorder(i, j)

EditCombo ==
    \/ \E g \in AllGroups : SetGroup(g)
    \/ ToggleDefault
    \/ ToggleRelay
    \/ AddMember
    \/ \E r \in RowIndex : RemoveMember(r) \/ MoveMember(r)
    \/ \E r \in RowIndex, m \in Models \cup {0} : SetModel(r, m)

UseRow(r) ==
    \/ clearParams(r)
    \/ suggest(r)
    \/ \E m \in Models : applyEntry(r, m)

EditDetail ==
    /\ tabOpen /\ combos # <<>>
    /\ EditCombo \/ \E r \in RowIndex : UseRow(r)

SuggestAnswered(r) ==
    SuggestApplied(r) \/ SuggestOffered(r) \/ SuggestEmpty(r) \/ SuggestFails(r)

ComboEditorNext ==
    \/ EditList
    \/ EditDetail
    \/ \E r \in RowIndex : SuggestAnswered(r)

\* An entry that arrives when nothing has been edited since it was asked for,
\* whatever was selected, folded or left meanwhile, changes the limits and
\* prices of the member it was asked for and nothing else (suggest, applyEntry
\* and the closures they hand up to updateCombo).
QuietSuggestionIsLocal ==
    [][\A r \in RowIndex : (ask[r] # NoAsk /\ ask[r].quiet /\ ask'[r] = NoAsk) =>
          \A i \in DOMAIN combos :
              IF combos[i].name = ask[r].name
              THEN combos'[i] = combos[i] \/
                   combos'[i] = [combos[i] EXCEPT !.members[r].params =
                                     combos[i].members[r].model]
              ELSE combos'[i] = combos[i]]_comboVars
=============================================================================
