------------------------------ MODULE Console ------------------------------
(***************************************************************************)
(* The Web UI: one page is open at a time, and a page that is left is      *)
(* unmounted with all of its state (the routes in App.tsx).  A behaviour   *)
(* is one visit to one page.  Login and logout are in AdminSession, what   *)
(* the two editors and the logging settings do to the one configuration    *)
(* file in ConfigStore.                                                    *)
(***************************************************************************)
EXTENDS ComboEditor, McpEditor, UserTokens, PageLoads, McpPlayground, Playground

VARIABLE open   \* the page

consoleVars == <<open, comboVars, mcpVars, tokenVars, loadVars, playVars, tryVars>>

Pages == {"config", "mcp/config", "mcp/tokens", "lists", "mcp/test", "test"}

\* Every page keeps to its types: the selection is in the list, a deleted token
\* is gone, at most one request of each kind is remembered, and the bounds hold.
TypeOK ==
    /\ open \in Pages
    /\ ComboEditorTypeOK
    /\ McpEditorTypeOK
    /\ UserTokensTypeOK
    /\ PageLoadsTypeOK
    /\ McpPlaygroundTypeOK
    /\ PlaygroundTypeOK

\* The pages that are not open are in one initial state, without loads.
OthersAtRest ==
    /\ open # "lists" => kind = "Inspect"
    /\ open # "mcp/config" => provs = [p \in {CHOOSE q \in McpProviders : TRUE} |->
           [mode |-> "none", isolated |-> FALSE, authMode |-> FALSE]]

Init ==
    /\ open \in Pages
    /\ ComboEditorInit
    /\ McpEditorInit
    /\ UserTokensInit
    /\ PageLoadsInit
    /\ McpPlaygroundInit
    /\ PlaygroundInit
    /\ OthersAtRest

-----------------------------------------------------------------------------
OnConfig ==
    /\ open = "config" /\ ComboEditorNext
    /\ UNCHANGED <<open, mcpVars, tokenVars, loadVars, playVars, tryVars>>

OnMcpConfig ==
    /\ open = "mcp/config" /\ McpEditorNext
    /\ UNCHANGED <<open, comboVars, tokenVars, loadVars, playVars, tryVars>>

\* With the calls and the flows whose token the page lists: they go on whatever
\* is open and have nothing in common with the other pages.
OnMcpTokens ==
    /\ open = "mcp/tokens" /\ UserTokensNext
    /\ UNCHANGED <<open, comboVars, mcpVars, loadVars, playVars, tryVars>>

\* The lists, statistics and status pages, and the dialogs that load.
OnLists(step) ==
    /\ open = "lists" /\ step
    /\ UNCHANGED <<open, comboVars, mcpVars, tokenVars, playVars, tryVars>>

OnMcpTest ==
    /\ open = "mcp/test" /\ McpPlaygroundNext
    /\ UNCHANGED <<open, comboVars, mcpVars, tokenVars, loadVars, tryVars>>

OnTest ==
    /\ open = "test" /\ PlaygroundNext
    /\ UNCHANGED <<open, comboVars, mcpVars, tokenVars, loadVars, playVars>>

Next ==
    \/ OnConfig
    \/ OnMcpConfig
    \/ OnMcpTokens
    \/ OnLists(PageLoadsNext)
    \/ OnMcpTest
    \/ OnTest

\* Timers fire and requests are answered sooner or later.
Fairness ==
    /\ WF_consoleVars(OnLists(Tick))
    /\ WF_consoleVars(OnLists(Debounced))
    /\ WF_consoleVars(OnLists(OldestAnswered))

Spec == Init /\ [][Next]_consoleVars /\ Fairness
=============================================================================
