--------------------------- MODULE McpPlayground ---------------------------
(***************************************************************************)
(* McpTest.tsx: the administrator chooses an MCP combo, the page loads the *)
(* tools that it aggregates, and one of them is chosen and called.         *)
(*                                                                         *)
(* Loads are not dropped when another combo is chosen, and until one ends  *)
(* the tools of the combo before stay on the page and can be called.  The  *)
(* user's name, the search box and the arguments, which are refused where  *)
(* they are not JSON, are left out.                                        *)
(***************************************************************************)
EXTENDS Naturals, Sequences, SequencesExt

CONSTANTS
    McpCombos,      \* combos of the gateway
    NoCombo,        \* no combo is chosen, or the tools are nobody's
    Tools,          \* names of tools: every combo that can be asked has them all
    MaxToolLoads,   \* bound: loads of tools under way
    MaxChoices      \* bound: what the administrator does in one visit

ASSUME McpPlaygroundConstants ==
    /\ NoCombo \notin McpCombos
    /\ Tools \subseteq Nat \ {0} /\ Tools # {}
    /\ MaxToolLoads \in Nat \ {0} /\ MaxChoices \in Nat

VARIABLES
    selectedCombo,
    tools,          \* whose tools are listed
    selectedTool,   \* selectedToolName, 0 if it is empty
    toolLoads,      \* loads of tools under way
    loadingTools,
    toolCall,       \* the call under way: what was sent, what the page showed
    callResult,     \* the call whose result is shown
    toolsCrossed,   \* history: the last answers came from loads that overlapped
    choices

playVars == <<selectedCombo, tools, selectedTool, toolLoads, loadingTools, toolCall,
              callResult, toolsCrossed, choices>>

AnyCombo == McpCombos \cup {NoCombo}
FirstTool == CHOOSE t \in Tools : \A u \in Tools : t <= u

\* early: sent while a load was under way or after loads had crossed; moved:
\* the page has chosen, listed or asked for something else since.
Call   == [on: BOOLEAN, combo: AnyCombo, listed: AnyCombo, tool: Tools \cup {0},
           early: BOOLEAN, moved: BOOLEAN]
NoCall == [on |-> FALSE, combo |-> NoCombo, listed |-> NoCombo, tool |-> 0,
           early |-> FALSE, moved |-> FALSE]

McpPlaygroundTypeOK ==
    /\ selectedCombo \in AnyCombo /\ tools \in AnyCombo /\ selectedTool \in Tools \cup {0}
    /\ toolLoads \in Seq([combo: McpCombos, alone: BOOLEAN])
    /\ Len(toolLoads) <= MaxToolLoads
    /\ loadingTools \in BOOLEAN /\ toolsCrossed \in BOOLEAN
    /\ toolCall \in Call /\ callResult \in Call
    /\ choices \in 0 .. MaxChoices

McpPlaygroundInit ==
    /\ selectedCombo = NoCombo /\ tools = NoCombo /\ selectedTool = 0
    /\ toolLoads = <<>> /\ loadingTools = FALSE
    /\ toolCall = NoCall /\ callResult = NoCall
    /\ toolsCrossed = FALSE /\ choices = 0

Choice == choices < MaxChoices /\ choices' = choices + 1
Moved == toolCall' = [toolCall EXCEPT !.moved = toolCall.on]

-----------------------------------------------------------------------------
(* Loading.                                                                 *)

fetchTools(c) ==
    /\ Len(toolLoads) < MaxToolLoads
    /\ loadingTools' = TRUE
    /\ toolLoads' = IF toolLoads = <<>> THEN <<[combo |-> c, alone |-> TRUE]>>
                    ELSE [l \in 1 .. Len(toolLoads) + 1 |->
                             [combo |-> IF l <= Len(toolLoads) THEN toolLoads[l].combo ELSE c,
                              alone |-> FALSE]]
    /\ toolsCrossed' = (toolsCrossed \/ toolLoads # <<>>)

\* The list of combos arrives and the first one is chosen, whose tools an
\* effect loads.
LoadCombos ==
    /\ selectedCombo = NoCombo
    /\ \E c \in McpCombos : selectedCombo' = c /\ fetchTools(c)
    /\ UNCHANGED <<tools, selectedTool, toolCall, callResult, choices>>

\* An answer lists the tools of the combo it was asked for, and chooses the
\* first.  A combo whose tools cannot be listed answers with none.
AnswerTools(l) ==
    /\ \/ /\ tools' = toolLoads[l].combo
          /\ selectedTool' = FirstTool
       \/ /\ tools' = NoCombo
          /\ selectedTool' = 0
    /\ callResult' = NoCall
    /\ loadingTools' = FALSE
    /\ toolLoads' = RemoveAt(toolLoads, l)
    /\ toolsCrossed' = (toolsCrossed /\ ~toolLoads[l].alone)
    /\ Moved
    /\ UNCHANGED <<selectedCombo, choices>>

\* Mutated form: the tools stay where they are.
ToolsAfterError == tools

\* The handler of an error: no tools.
ToolsAfterFailure == NoCombo

ToolsFail(l) ==
    /\ tools' = ToolsAfterFailure
    /\ loadingTools' = FALSE
    /\ toolLoads' = RemoveAt(toolLoads, l)
    /\ Moved
    /\ UNCHANGED <<selectedCombo, selectedTool, callResult, toolsCrossed, choices>>

-----------------------------------------------------------------------------
(* What the administrator does.                                             *)

ChooseCombo(c) ==
    /\ selectedCombo \notin {NoCombo, c} /\ Choice
    /\ selectedCombo' = c /\ fetchTools(c)
    /\ Moved
    /\ UNCHANGED <<tools, selectedTool, callResult>>

\* The button beside it, which the first answer enables again.
RefreshTools ==
    /\ ~loadingTools /\ selectedCombo # NoCombo /\ Choice
    /\ fetchTools(selectedCombo)
    /\ UNCHANGED <<selectedCombo, tools, selectedTool, toolCall, callResult>>

handleSelectTool(t) ==
    /\ tools # NoCombo /\ Choice
    /\ selectedTool' = t
    /\ callResult' = NoCall
    /\ Moved
    /\ UNCHANGED <<selectedCombo, tools, toolLoads, loadingTools, toolsCrossed>>

\* The panel of the chosen tool is there as long as the tool is listed.
PanelShown == tools # NoCombo /\ selectedTool # 0

handleExecute ==
    /\ PanelShown /\ ~toolCall.on /\ Choice
    /\ toolCall' = [on |-> TRUE, combo |-> selectedCombo, listed |-> tools,
                    tool |-> selectedTool, early |-> toolLoads # <<>> \/ toolsCrossed,
                    moved |-> FALSE]
    /\ callResult' = NoCall
    /\ UNCHANGED <<selectedCombo, tools, selectedTool, toolLoads, loadingTools, toolsCrossed>>

\* The result, an error of the tool, or why there is none: all are shown.
AnswerCall ==
    /\ toolCall.on
    /\ callResult' = toolCall
    /\ toolCall' = NoCall
    /\ UNCHANGED <<selectedCombo, tools, selectedTool, toolLoads, loadingTools, toolsCrossed,
                   choices>>

-----------------------------------------------------------------------------
McpPlaygroundNext ==
    \/ LoadCombos
    \/ \E l \in DOMAIN toolLoads : AnswerTools(l) \/ ToolsFail(l)
    \/ \E c \in McpCombos : ChooseCombo(c)
    \/ RefreshTools
    \/ \E t \in Tools : handleSelectTool(t)
    \/ handleExecute
    \/ AnswerCall

\* A call sent when no load of tools is under way, and none has crossed
\* another, names a tool that the combo it is sent to has listed, whatever was
\* chosen and whatever failed before; and a result stands under the tool and
\* the combo it comes from, unless the page moved on while it was called
\* (fetchTools, handleSelectTool and handleExecute).
ToolOfShownCombo ==
    /\ toolCall.on /\ ~toolCall.early => toolCall.listed = toolCall.combo
    /\ callResult.on /\ ~callResult.moved /\ PanelShown =>
          /\ callResult.listed = tools /\ callResult.tool = selectedTool
          /\ callResult.combo = selectedCombo \/ toolLoads # <<>>
=============================================================================
