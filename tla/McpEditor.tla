----------------------------- MODULE McpEditor -----------------------------
(***************************************************************************)
(* McpConfig.tsx: how the isolation of a provider and the allow-lists of a *)
(* combo's members are edited, what the page makes of them when it saves   *)
(* (sanitizeProviders, sanitizeCombos), what the gateway makes of that     *)
(* (internal/config/build.go) and what the page then shows (dump.go).      *)
(*                                                                         *)
(* One combo is edited, by one administrator; ConfigStore has the tabs and *)
(* the file.  Names, transports, secrets and the selection are left out.   *)
(***************************************************************************)
EXTENDS Integers, Sequences, SequencesExt

CONSTANTS
    McpProviders,   \* providers that exist or can be added
    Items,          \* names of tools and resources
    All,            \* the pattern "*"
    ItemsOf,        \* what each provider has, in either category
    MaxEntries,     \* bound: members of the combo
    MaxEdits        \* bound: what the administrator does in one visit

ASSUME McpEditorConstants ==
    /\ All \notin Items
    /\ ItemsOf \in [McpProviders -> SUBSET Items]
    /\ MaxEntries \in Nat \ {0} /\ MaxEdits \in Nat

VARIABLES
    provs,      \* providers: name -> settings
    entries,    \* members of the combo
    inCombos,   \* which tab is open
    caps,       \* providerCapsCache and loadingCaps
    put,        \* the save under way
    gw,         \* what the gateway runs
    said,       \* history: what the page showed when the last save was sent
    edited,     \* history: the page was edited since the last answer
    edits

mcpVars == <<provs, entries, inCombos, caps, put, gw, said, edited, edits>>

\* Prompts are edited and saved the way resources are.
Categories == {"tools", "resources"}
Modes      == {"none", "api_key", "oauth2"}
Lists      == [Categories -> SUBSET (Items \cup {All})]

\* auth_mode = "isolated" is listed apart from the auth section and its flag.
Setting  == [mode: Modes, isolated: BOOLEAN, authMode: BOOLEAN]
Settings == UNION {[P -> Setting] : P \in SUBSET McpProviders}
Entry    == [provider: McpProviders, lists: Lists]
Running  == UNION {[P -> [mode: Modes, isolated: BOOLEAN]] : P \in SUBSET McpProviders}
EntrySeq(es) == es \in Seq(Entry) /\ Len(es) <= MaxEntries

NoPut == [at |-> "idle", provs |-> <<>>, entries |-> <<>>]

McpEditorTypeOK ==
    /\ provs \in Settings /\ EntrySeq(entries)
    /\ inCombos \in BOOLEAN /\ edited \in BOOLEAN /\ edits \in 0 .. MaxEdits
    /\ caps \in [McpProviders -> [got: {"nothing", "items", "error"}, loading: BOOLEAN]]
    /\ put.at \in {"idle", "sent", "done", "refused", "notIsolated"}
    /\ gw.provs \in Running /\ EntrySeq(gw.entries)
    /\ \A e \in ToSet(gw.entries) : e.provider \in DOMAIN gw.provs

-----------------------------------------------------------------------------
(* What is on the page, and what the gateway does.                          *)

IsIsolated(p) == p.isolated \/ p.authMode
IsAll(list) == list = {All}

\* Of the items of a provider, those whose box is checked.
Checked(e, c) ==
    {i \in ItemsOf[e.provider] : IsAll(e.lists[c]) \/ i \in e.lists[c]}

\* isItemAllowed.
LetThrough(e, c) ==
    {i \in ItemsOf[e.provider] : e.lists[c] = {} \/ e.lists[c] \cap {All, i} # {}}

NoCaps == [got |-> "nothing", loading |-> FALSE]

\* The effect on c.members, and what the handlers that add a provider ask for
\* themselves: whatever is not cached (an error is) and not being loaded.
WithLoads(cs, es) ==
    [p \in McpProviders |->
        IF (\E e \in ToSet(es) : e.provider = p) /\ cs[p].got = "nothing"
        THEN [cs[p] EXCEPT !.loading = TRUE] ELSE cs[p]]

\* What the page is given of a configuration: the flag goes with the section.
Dumped(run) == [p \in DOMAIN run |-> [mode |-> run[p].mode, isolated |-> run[p].isolated,
                                      authMode |-> run[p].isolated]]

\* A provider that has only auth_mode in the file has no auth section.
McpEditorInit ==
    /\ \E first \in McpProviders, iso \in BOOLEAN :
          /\ gw = [provs |-> [p \in {first} |-> [mode |-> "none", isolated |-> iso]],
                   entries |-> <<[provider |-> first,
                                  lists |-> [c \in Categories |-> {All}]]>>]
          /\ \E section \in BOOLEAN :
                provs = [p \in {first} |-> [mode |-> "none", isolated |-> iso /\ section,
                                            authMode |-> iso]]
    /\ entries = gw.entries
    /\ inCombos = FALSE
    /\ caps = [p \in McpProviders |-> NoCaps]
    /\ put = NoPut
    /\ said = [provs |-> provs, entries |-> entries]
    /\ edited = FALSE /\ edits = 0

Edit == edits < MaxEdits /\ edits' = edits + 1

-----------------------------------------------------------------------------
(* The providers.                                                           *)

EditProvs(new) ==
    /\ ~inCombos /\ Edit
    /\ provs' = new /\ edited' = TRUE
    /\ UNCHANGED <<entries, inCombos, caps, put, gw, said>>

\* updateAuth recomputes auth_mode from the flag of the section alone: without
\* a section, a change of the mode ends the isolation.
updateAuth(p, mode, isolated) ==
    EditProvs([provs EXCEPT ![p] = [mode |-> mode, isolated |-> isolated,
                                    authMode |-> isolated]])
SetMode(p, mode) == mode # provs[p].mode /\ updateAuth(p, mode, provs[p].isolated)
SetIsolated(p)   == updateAuth(p, provs[p].mode, ~IsIsolated(provs[p]))

AddProvider(p) ==
    /\ p \notin DOMAIN provs
    /\ EditProvs([q \in DOMAIN provs \cup {p} |->
           IF q = p THEN [mode |-> "none", isolated |-> FALSE, authMode |-> FALSE]
           ELSE provs[q]])
RemoveProvider(p) == EditProvs([q \in DOMAIN provs \ {p} |-> provs[q]])

-----------------------------------------------------------------------------
(* The members.                                                             *)

EditEntries(new, cs) ==
    /\ inCombos /\ Edit
    /\ entries' = new /\ edited' = TRUE
    /\ caps' = WithLoads(cs, new)
    /\ UNCHANGED <<provs, inCombos, put, gw, said>>

addMember ==
    /\ Len(entries) < MaxEntries
    /\ \E p \in DOMAIN provs :
          EditEntries(Append(entries, [provider |-> p, lists |-> [c \in Categories |-> {All}]]),
                      caps)
removeMember(k) == EditEntries(RemoveAt(entries, k), caps)

\* The lists stay as they are.
SetProvider(k, p) ==
    p \in DOMAIN provs /\ EditEntries([entries EXCEPT ![k].provider = p], caps)

SetList(k, c, list) ==
    /\ list # entries[k].lists[c]
    /\ EditEntries([entries EXCEPT ![k].lists[c] = list], caps)

\* The items the page knows of.
Known(k) == LET p == entries[k].provider
            IN  IF caps[p].got = "items" THEN ItemsOf[p] ELSE {}

\* The box for all, and its opposite: all that are known, one by one.
ToggleAll(k, c) ==
    SetList(k, c, IF IsAll(entries[k].lists[c]) THEN Known(k) ELSE {All})

\* The box of one item, and the buttons over the boxes.
ToggleItem(k, c, i) ==
    /\ i \in Known(k) /\ ~IsAll(entries[k].lists[c])
    /\ LET cur == entries[k].lists[c] \ {All}
       IN  SetList(k, c, IF i \in cur THEN cur \ {i} ELSE cur \cup {i})
PickAll(k, c) ==
    Known(k) # {} /\ ~IsAll(entries[k].lists[c]) /\ SetList(k, c, Known(k))
Clear(k, c) ==
    Known(k) # {} /\ ~IsAll(entries[k].lists[c]) /\ SetList(k, c, {})
Invert(k) ==
    /\ Known(k) # {} /\ ~IsAll(entries[k].lists["tools"])
    /\ SetList(k, "tools", Known(k) \ entries[k].lists["tools"])

\* The input under the boxes takes any list.
TypeList(k, c, list) == SetList(k, c, list)

\* The panel of the combo is unmounted with its tab, and its cache with it.
SwitchTabs ==
    /\ Edit
    /\ inCombos' = ~inCombos
    /\ caps' = WithLoads([p \in McpProviders |-> NoCaps],
                         IF inCombos' THEN entries ELSE <<>>)
    /\ UNCHANGED <<provs, entries, put, gw, said, edited>>

RefreshCaps(p) ==
    /\ inCombos /\ Edit
    /\ ~caps[p].loading /\ \E e \in ToSet(entries) : e.provider = p
    /\ caps' = [caps EXCEPT ![p].loading = TRUE]
    /\ UNCHANGED <<provs, entries, inCombos, put, gw, said, edited>>

\* The capabilities of a provider, which the gateway must know and reach.
AnswerCaps(p) ==
    /\ caps[p].loading
    /\ \E got \in {"error"} \cup {"items" : x \in {p} \cap DOMAIN gw.provs} :
          caps' = [caps EXCEPT ![p] = [got |-> got, loading |-> FALSE]]
    /\ UNCHANGED <<provs, entries, inCombos, put, gw, said, edited, edits>>

-----------------------------------------------------------------------------
(* Saving.                                                                  *)

\* Mutated form: auth_mode is not looked at.
SanitizedFlagOnly(p) ==
    [mode |-> p.mode, isolated |-> p.mode = "oauth2" \/ p.isolated]

\* sanitizeProviders: there is always an auth section, with the flag.
Sanitized(p) ==
    [mode |-> p.mode, isolated |-> p.mode = "oauth2" \/ IsIsolated(p)]

\* sanitizeCombos and build.go: an empty list becomes "*", here for tools and
\* for the others, which are then not sent, at the other end.
Unrestricted(list) == IF list = {} THEN {All} ELSE list
SanitizedEntry(e) == [e EXCEPT !.lists = [c \in Categories |-> Unrestricted(e.lists[c])]]

SavePage ==
    /\ put.at = "idle"
    /\ put' = [at |-> "sent",
               provs |-> [p \in DOMAIN provs |-> Sanitized(provs[p])],
               entries |-> [k \in DOMAIN entries |-> SanitizedEntry(entries[k])]]
    /\ said' = [provs |-> provs, entries |-> entries]
    /\ UNCHANGED <<provs, entries, inCombos, caps, gw, edited>> /\ Edit

NotIsolated == \E p \in DOMAIN put.provs :
    put.provs[p].mode = "oauth2" /\ ~put.provs[p].isolated
Dangling == \E e \in ToSet(put.entries) : e.provider \notin DOMAIN put.provs

\* The gateway builds the configuration and runs it; the flag of the auth
\* section decides.  A save can fail for many another reason.
Install ==
    /\ put.at = "sent" /\ ~NotIsolated /\ ~Dangling
    /\ gw' = [provs |-> put.provs, entries |-> put.entries]
    /\ put' = [NoPut EXCEPT !.at = "done"]
    /\ UNCHANGED <<provs, entries, inCombos, caps, said, edited, edits>>
Refuse ==
    /\ put.at = "sent"
    /\ put' = [NoPut EXCEPT !.at = IF NotIsolated THEN "notIsolated" ELSE "refused"]
    /\ UNCHANGED <<provs, entries, inCombos, caps, gw, said, edited, edits>>

\* The answer takes the place of what the page has, edits made while it was
\* saving included; a refusal leaves the page as it is.
AnswerSaved ==
    /\ put.at = "done"
    /\ provs' = Dumped(gw.provs) /\ entries' = gw.entries
    /\ caps' = IF inCombos THEN WithLoads(caps, gw.entries) ELSE caps
    /\ put' = NoPut /\ edited' = FALSE
    /\ UNCHANGED <<inCombos, gw, said, edits>>
AnswerRefused ==
    /\ put.at \in {"refused", "notIsolated"}
    /\ put' = NoPut
    /\ UNCHANGED <<provs, entries, inCombos, caps, gw, said, edited, edits>>

-----------------------------------------------------------------------------
EditProviders ==
    \/ \E p \in DOMAIN provs :
          \/ \E mode \in Modes : SetMode(p, mode)
          \/ SetIsolated(p)
          \/ RemoveProvider(p)
    \/ \E p \in McpProviders : AddProvider(p)

EditCategory(k, c) ==
    \/ ToggleAll(k, c)
    \/ PickAll(k, c)
    \/ Clear(k, c)
    \/ \E i \in Items : ToggleItem(k, c, i)
    \/ \E list \in SUBSET (Items \cup {All}) : TypeList(k, c, list)

EditMembers ==
    \/ addMember
    \/ \E k \in DOMAIN entries :
          \/ removeMember(k)
          \/ \E p \in McpProviders : SetProvider(k, p)
          \/ Invert(k)
          \/ \E c \in Categories : EditCategory(k, c)

McpEditorNext ==
    \/ EditProviders
    \/ EditMembers
    \/ SwitchTabs
    \/ \E p \in McpProviders : RefreshCaps(p) \/ AnswerCaps(p)
    \/ SavePage
    \/ Install
    \/ Refuse
    \/ AnswerSaved
    \/ AnswerRefused

\* After a save has gone through, the gateway isolates the users of exactly the
\* providers whose box was checked when it was sent, and of those with oauth2,
\* which it never turns down for their isolation; it lets through exactly the
\* items whose boxes were checked, unless none was or "*" stood among others
\* (then everything, at mcp/gateway/combo.go:38); and the page shows what runs
\* until it is edited again.
ShownIsWhatRuns ==
    /\ put.at # "notIsolated"
    /\ put.at = "done" =>
          /\ DOMAIN gw.provs = DOMAIN said.provs
          /\ \A p \in DOMAIN gw.provs :
                gw.provs[p].isolated <=> \/ IsIsolated(said.provs[p])
                                         \/ said.provs[p].mode = "oauth2"
          /\ \A k \in DOMAIN said.entries, c \in Categories :
                LET list == said.entries[k].lists[c]
                IN  \/ LetThrough(gw.entries[k], c) = Checked(said.entries[k], c)
                    \/ list = {}
                    \/ All \in list /\ ~IsAll(list)
    /\ ~edited =>
          /\ entries = gw.entries
          /\ \A p \in DOMAIN gw.provs : IsIsolated(provs[p]) = gw.provs[p].isolated
=============================================================================
