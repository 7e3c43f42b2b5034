----------------------------- MODULE ConfigStore -----------------------------
(***************************************************************************)
(* Editing the configuration: the pages ConfigEditor.tsx, McpConfig.tsx    *)
(* and Logs.tsx (its settings), each in a tab of its own, the handlers of  *)
(* internal/server/admin.go and admin_logs.go that save what they send,    *)
(* and State.SaveAndReload, which writes config.yaml by way of one         *)
(* temporary file and then installs the configuration.                     *)
(*                                                                         *)
(* A handler reads the running configuration, replaces what it was sent,   *)
(* and saves, with no lock around the three.                               *)
(***************************************************************************)
EXTENDS Naturals, FiniteSets

CONSTANTS
    MaxVersion,   \* bound: versions of a section that are ever typed
    MaxSaves,     \* bound: saves that are ever sent
    Gone,         \* what is not there: an answer, a file, a gateway that is down
    Empty,        \* a file between its truncation and the write
    Damaged       \* a file whose write failed half way or went over a longer one

\* The inodes: config.yaml, and what each of the three pages may have open.
Inodes == 0 .. 3

ASSUME StoreConstants ==
    /\ MaxVersion \in Nat \ {0} /\ MaxSaves \in Nat \ {0}
    /\ Gone \notin Inodes

VARIABLES
    \* --- the server
    running,    \* State.service.Config, or Gone if the gateway did not come up
    options,    \* what the catalog client and the report logger are set up with
    \* --- the disk
    disk,       \* inode -> what is in the file
    conf, tmp,  \* the inodes of config.yaml and of config.yaml.tmp (Gone: none)
    \* --- the tabs
    page,       \* per page: what it shows, whether it was loaded, the original
    save,       \* per page: its PUT, through the handler and back
    next,       \* the next version somebody types
    puts,       \* saves sent so far
    \* --- history
    ran,        \* versions of the MCP sections that have been running
    agree       \* the last change of the file went through undisturbed

storeVars == <<running, options, disk, conf, tmp, page, save, next, puts, ran, agree>>
diskVars  == <<disk, conf, tmp>>

\* The editor has all sections and edits two; the other pages have one each.
\* Version 0 is what a page shows before anything was loaded.
Pages    == {"editor", "mcp", "logs"}
Sections == {"model", "mcp", "logging"}
Sends(c) == CASE c = "editor" -> Sections
              [] c = "mcp"    -> {"mcp"}
              [] c = "logs"   -> {"logging"}
Edits(c) == IF c = "editor" THEN {"model", "logging"} ELSE Sends(c)

Versions == 0 .. MaxVersion
Config   == [Sections -> Versions]
Blank    == [s \in Sections |-> 0]

Content == Config \cup {Empty, Damaged}

Working == {"sent", "built", "opened", "written", "renamed"}
NoSave  == [at |-> "idle", cfg |-> Blank, fd |-> 0, shared |-> FALSE, ok |-> FALSE]

TypeOK ==
    /\ running \in Config \cup {Gone}
    /\ options \in Config
    /\ disk \in [Inodes -> Content]
    /\ conf \in Inodes /\ tmp \in Inodes \cup {Gone} /\ tmp # conf
    /\ page \in [Pages -> [cfg: Config, loaded: BOOLEAN, orig: Versions]]
    /\ save \in [Pages -> [at: Working \cup {"idle", "answered"}, cfg: Config,
                           fd: Inodes, shared: BOOLEAN, ok: BOOLEAN]]
    /\ next \in 1 .. MaxVersion + 1 /\ puts \in 0 .. MaxSaves
    /\ ran \in SUBSET Versions
    /\ agree \in BOOLEAN

Up == running # Gone
Saving(c) == save[c].at # "idle"
InHandler(c) == save[c].at \in Working \ {"sent"}
Others(c) == {d \in Pages \ {c} : InHandler(d)}

FirstPage == [cfg |-> Blank, loaded |-> FALSE, orig |-> 0]
FirstCfg  == [s \in Sections |-> 1]

Init ==
    /\ running = FirstCfg /\ options = FirstCfg
    /\ disk = [i \in Inodes |-> IF i = 0 THEN FirstCfg ELSE Empty]
    /\ conf = 0 /\ tmp = Gone
    /\ page = [c \in Pages |-> FirstPage]
    /\ save = [c \in Pages |-> NoSave]
    /\ next = 2 /\ puts = 0
    /\ ran = {1} /\ agree = TRUE

-----------------------------------------------------------------------------
(* The pages.                                                               *)

\* What a page shows of a configuration: its own sections.
Shown(c, cfg) == [s \in Sections |-> IF s \in Sends(c) THEN cfg[s] ELSE 0]

\* The GET of a page's mount effect is answered: the answer replaces what the
\* page showed, edits made before it included.  (An answer that is late is no
\* different from a page that has been open for a while; one that fails, from
\* none.)
Load(c) ==
    /\ ~page[c].loaded /\ Up
    /\ page' = [page EXCEPT ![c] =
          [cfg |-> Shown(c, running), loaded |-> TRUE,
           orig |-> IF c = "mcp" THEN running["mcp"] ELSE 0]]
    /\ UNCHANGED <<puts, running, options, diskVars, save, next, ran, agree>>

\* The administrator changes a section.  ConfigEditor renders nothing before
\* it has a configuration; the other two can be edited at once.  Nothing is
\* disabled while a save is under way.
Edit(c, s) ==
    /\ s \in Edits(c)
    /\ c = "editor" => page[c].loaded
    /\ next <= MaxVersion
    /\ page' = [page EXCEPT ![c].cfg[s] = next]
    /\ next' = next + 1
    /\ UNCHANGED <<puts, running, options, diskVars, save, ran, agree>>

Send(c, cfg) ==
    /\ puts < MaxSaves
    /\ puts' = puts + 1
    /\ save' = [save EXCEPT ![c] = [NoSave EXCEPT !.at = "sent", !.cfg = cfg]]

\* ConfigEditor.save: one at a time, and all there is.
SaveEditor ==
    /\ page["editor"].loaded /\ ~Saving("editor")
    /\ Send("editor", page["editor"].cfg)
    /\ UNCHANGED <<running, options, diskVars, page, next, ran, agree>>

\* McpConfig.save, whose button waits for the first load.
SaveMcp ==
    /\ page["mcp"].loaded /\ ~Saving("mcp")
    /\ Send("mcp", page["mcp"].cfg)
    /\ UNCHANGED <<running, options, diskVars, page, next, ran, agree>>

\* Logs.saveAdvancedConfig: whatever is in the form, loaded or not.
SaveLogs ==
    /\ ~Saving("logs")
    /\ Send("logs", page["logs"].cfg)
    /\ UNCHANGED <<running, options, diskVars, page, next, ran, agree>>

\* Logs.toggleVerbose: the form's values with another switch, which the page
\* shows when it is answered.  (Bound: not while the form is being saved.)
ToggleVerbose ==
    /\ ~Saving("logs")
    /\ next <= MaxVersion
    /\ Send("logs", [Blank EXCEPT !["logging"] = next])
    /\ next' = next + 1
    /\ UNCHANGED <<running, options, diskVars, page, ran, agree>>

\* The page is left and opened again: a new component with nothing loaded.  The
\* request it had under way is the server's alone (it is not aborted); in the
\* model the page waits for it to be over.
Reopen(c) ==
    /\ ~Saving(c)
    /\ page' = [page EXCEPT ![c] = FirstPage]
    /\ UNCHANGED <<puts, running, options, diskVars, save, next, ran, agree>>

\* Mutated form: what the page shows now counts as saved.
AnswerMcpKeepsEdits ==
    page' = [page EXCEPT !["mcp"].orig = page["mcp"].cfg["mcp"]]

\* McpConfig takes the sections from the answer, as shown and as original.
AnswerMcp ==
    page' = [page EXCEPT !["mcp"].cfg["mcp"] = save["mcp"].cfg["mcp"],
                         !["mcp"].orig = save["mcp"].cfg["mcp"]]

\* The answer: ConfigEditor only shows a message; the other two take the
\* values.  After an error the page is as it was.
ReceiveSave(c) ==
    /\ save[c].at = "answered"
    /\ CASE ~save[c].ok \/ c = "editor" -> UNCHANGED page
         [] save[c].ok /\ c = "mcp"     -> AnswerMcp
         [] save[c].ok /\ c = "logs"    ->
              page' = [page EXCEPT ![c].cfg["logging"] = save[c].cfg["logging"]]
    /\ save' = [save EXCEPT ![c] = NoSave]
    /\ UNCHANGED <<puts, running, options, diskVars, next, ran, agree>>

-----------------------------------------------------------------------------
(* The handlers.                                                            *)

\* What the page will read of the answer.
AnswerSave(c, ok) ==
    save' = [save EXCEPT ![c] = [NoSave EXCEPT !.at = "answered", !.ok = ok,
        !.cfg = IF ok /\ c # "editor" THEN Shown(c, save[c].cfg) ELSE Blank]]

\* Mutated form: the sections that were not sent are those of the last load.
MergedFromPage(c) ==
    [s \in Sections |-> IF s \in Sends(c) THEN save[c].cfg[s] ELSE page["editor"].cfg[s]]

\* The configuration to save: the sections that were sent, and the others as
\* they run now.
Merged(c) ==
    [s \in Sections |-> IF s \in Sends(c) THEN save[c].cfg[s] ELSE running[s]]

\* putConfig, putMcpConfig, putLogSettings up to a valid configuration.  Two
\* saves that are in their handlers at once share the temporary file.
Build(c) ==
    /\ save[c].at = "sent" /\ Up
    /\ save' = [d \in Pages |->
          CASE d = c -> [save[c] EXCEPT !.at = "built", !.cfg = Merged(c),
                                        !.shared = Others(c) # {}]
            [] d \in Others(c) -> [save[d] EXCEPT !.shared = TRUE]
            [] OTHER -> save[d]]
    /\ UNCHANGED <<puts, running, options, diskVars, page, next, ran, agree>>

\* The configuration is not valid, or its log directory not writable.
Reject(c) ==
    /\ save[c].at = "sent" /\ Up
    /\ AnswerSave(c, FALSE)
    /\ UNCHANGED <<puts, running, options, diskVars, page, next, ran, agree>>

FreeInode == CHOOSE i \in Inodes :
    i \notin {conf, tmp} \cup {save[d].fd : d \in {e \in Pages : save[e].at \in {"opened", "written"}}}

\* os.WriteFile opens the temporary file, which is truncated or created ...
OpenTmp(c) ==
    /\ save[c].at = "built"
    /\ LET i == IF tmp = Gone THEN FreeInode ELSE tmp IN
         /\ tmp' = i
         /\ disk' = [disk EXCEPT ![i] = Empty]
         /\ save' = [save EXCEPT ![c].at = "opened", ![c].fd = i]
    /\ UNCHANGED <<puts, running, options, conf, page, next, ran, agree>>

\* ... and writes from the start of the file it has opened, whatever its name
\* is by now.  A text written over a longer one leaves the rest of that.
WriteTmp(c) ==
    /\ save[c].at = "opened"
    /\ \/ disk' = [disk EXCEPT ![save[c].fd] = save[c].cfg]
       \/ /\ disk[save[c].fd] # Empty
          /\ disk' = [disk EXCEPT ![save[c].fd] = Damaged]
    /\ save' = [save EXCEPT ![c].at = "written"]
    /\ UNCHANGED <<puts, running, options, conf, tmp, page, next, ran, agree>>

\* The write fails half way.
WriteFails(c) ==
    /\ save[c].at = "opened"
    /\ disk' = [disk EXCEPT ![save[c].fd] = Damaged]
    /\ AnswerSave(c, FALSE)
    /\ agree' = (agree /\ ~save[c].shared)
    /\ UNCHANGED <<puts, running, options, conf, tmp, page, next, ran>>

\* Renaming fails if another save has taken the temporary file away.
RenameTmp(c) ==
    /\ save[c].at = "written"
    /\ \/ /\ tmp # Gone
          /\ conf' = tmp /\ tmp' = Gone
          /\ disk' = [disk EXCEPT ![conf] = Empty]   \* nobody can read it any more
          /\ save' = [save EXCEPT ![c].at = "renamed", ![c].fd = 0]
          /\ UNCHANGED agree
       \/ /\ tmp = Gone
          /\ AnswerSave(c, FALSE)
          /\ agree' = FALSE
          /\ UNCHANGED diskVars
    /\ UNCHANGED <<puts, running, options, page, next, ran>>

\* Mutated form: a configuration is installed whose log options were refused.
ReloadKeepsOptions(c) ==
    /\ save[c].at = "renamed"
    /\ running' = save[c].cfg
    /\ AnswerSave(c, TRUE)
    /\ ran' = ran \cup {save[c].cfg["mcp"]}
    /\ agree' = ~save[c].shared
    /\ UNCHANGED <<puts, options, diskVars, page, next>>

\* State.Reload under its mutex: the catalog and the logger are set up, then
\* the services are built and installed.
ReloadInstalls(c) ==
    /\ save[c].at = "renamed"
    /\ running' = save[c].cfg /\ options' = save[c].cfg
    /\ AnswerSave(c, TRUE)
    /\ ran' = ran \cup {save[c].cfg["mcp"]}
    /\ agree' = ~save[c].shared
    /\ UNCHANGED <<puts, diskVars, page, next>>

\* A step of Reload after the first is refused: the file is the new one, the
\* catalog and the logger may be set up for it, and the old configuration runs.
ReloadFails(c) ==
    /\ save[c].at = "renamed"
    /\ options' \in {options, save[c].cfg}
    /\ AnswerSave(c, FALSE)
    /\ agree' = FALSE
    /\ UNCHANGED <<puts, running, diskVars, page, next, ran>>

\* The process ends and is started again: it loads the file, and stays down if
\* that cannot be loaded.  Whoever waits for an answer gets an error.
Restart ==
    /\ Up
    /\ running' = IF disk[conf] \in Config THEN disk[conf] ELSE Gone
    /\ options' = IF disk[conf] \in Config THEN disk[conf] ELSE options
    /\ save' = [c \in Pages |->
          IF save[c].at \in Working THEN [NoSave EXCEPT !.at = "answered"] ELSE save[c]]
    /\ ran' = IF disk[conf] \in Config THEN ran \cup {disk[conf]["mcp"]} ELSE ran
    /\ agree' = TRUE
    /\ UNCHANGED <<puts, diskVars, page, next>>

\* A gateway that is down is noticed by the browser.
Refuse(c) ==
    /\ save[c].at = "sent" /\ ~Up
    /\ AnswerSave(c, FALSE)
    /\ UNCHANGED <<puts, running, options, diskVars, page, next, ran, agree>>

-----------------------------------------------------------------------------
Handle(c) ==
    \/ Build(c) \/ Reject(c) \/ Refuse(c)
    \/ OpenTmp(c) \/ WriteTmp(c) \/ WriteFails(c) \/ RenameTmp(c)
    \/ ReloadInstalls(c) \/ ReloadFails(c)

Next ==
    \/ \E c \in Pages :
         \/ Load(c) \/ Reopen(c)
         \/ \E s \in Sections : Edit(c, s)
         \/ Handle(c) \/ ReceiveSave(c)
    \/ SaveEditor \/ SaveMcp \/ SaveLogs \/ ToggleVerbose
    \/ Restart

Spec == Init /\ [][Next]_storeVars

-----------------------------------------------------------------------------
\* The file, the running configuration, and what the catalog and the logger
\* are set up with are the same whenever no save is between its rename and its
\* reload and the last save was not disturbed: a reload that failed or saves
\* that overlapped let them differ (state.go:236, 281), and the next save that
\* runs alone, or a restart, puts them right.
FileIsWhatRuns ==
    (Up /\ agree /\ \A c \in Pages : ~InHandler(c)) =>
        disk[conf] = running /\ options = running

\* A page that sends one section changes only that one: a save during which no
\* other was in its handler leaves every other section running as it was.
SectionSaveKeepsRest ==
    [][\A c \in Pages :
         (ReloadInstalls(c) /\ ~save[c].shared) =>
             \A s \in Sections \ Sends(c) : running'[s] = running[s]]_storeVars

\* McpConfig marks what it shows as unsaved when it differs from the original;
\* what it does not mark has been running, also when the administrator went on
\* typing while a save was under way.
UnmarkedHasRun ==
    (page["mcp"].loaded /\ page["mcp"].cfg["mcp"] = page["mcp"].orig)
        => page["mcp"].orig \in ran

\* "SaveAndReload validates, atomically writes YAML, then hot-reloads."
\* (state.go:271): config.yaml is always one whole configuration.
FileAlwaysWhole == disk[conf] \in Config
=============================================================================
