------------------------- MODULE ConfigStoreProofs -------------------------
(***************************************************************************)
(* Safety of ConfigStore for any number of saves and of versions.  A save  *)
(* that had the handlers to itself from its Build on is called solo; the   *)
(* invariant says what the temporary file, config.yaml and the running     *)
(* configuration are at each of its steps.  Of saves that overlap nothing  *)
(* is said but that they are marked, and that none of them leaves its      *)
(* handler with agree still set.                                           *)
(***************************************************************************)
EXTENDS ConfigStore, TLAPS

Solo(c) == InHandler(c) /\ ~save[c].shared

(* The file, the options and what runs are one configuration.              *)
Settled == disk[conf] = running /\ options = running

SoloOK(c) ==
    /\ \A d \in Pages \ {c} : ~InHandler(d)
    /\ \A s \in Sections \ Sends(c) : save[c].cfg[s] = running[s]
    /\ save[c].at \in {"opened", "written"} => tmp = save[c].fd
    /\ save[c].at = "opened" => disk[save[c].fd] = Empty
    /\ save[c].at = "written" => disk[save[c].fd] = save[c].cfg
    /\ save[c].at = "renamed" => disk[conf] = save[c].cfg
    /\ (save[c].at # "renamed" /\ Up /\ agree) => Settled

(* What a page has taken for saved has been running.                       *)
RanOK ==
    /\ Up => running["mcp"] \in ran
    /\ page["mcp"].loaded => page["mcp"].orig \in ran
    /\ (save["mcp"].at = "answered" /\ save["mcp"].ok) => save["mcp"].cfg["mcp"] \in ran

SolosOK == \A c \in Pages : Solo(c) => SoloOK(c)

StoreInv ==
    /\ TypeOK
    /\ SolosOK
    /\ FileIsWhatRuns
    /\ RanOK

----------------------------------------------------------------------------
(* What the handlers pass on is a configuration.                           *)
LEMMA ConfigsFit ==
    ASSUME TypeOK, NEW c \in Pages
    PROVE  /\ Blank \in Config /\ FirstCfg \in Config
           /\ \A cfg \in Config : Shown(c, cfg) \in Config
           /\ Up => Merged(c) \in Config
           /\ save[c].cfg \in Config /\ page[c].cfg \in Config
<1>1. 0 \in Versions /\ 1 \in Versions
  BY StoreConstants DEF Versions
<1>2. \A cfg \in Config : \A s \in Sections : cfg[s] \in Versions
  BY DEF Config
<1>3. save[c].cfg \in Config /\ page[c].cfg \in Config
  BY DEF TypeOK
<1>4. Up => running \in Config
  BY DEF TypeOK, Up
<1>5. Blank \in Config /\ FirstCfg \in Config
  BY <1>1 DEF Config, Blank, FirstCfg
<1>6. \A cfg \in Config : Shown(c, cfg) \in Config
  BY <1>1, <1>2 DEF Config, Shown
<1>7. Up => Merged(c) \in Config
  BY <1>2, <1>3, <1>4 DEF Config, Merged
<1> QED BY <1>3, <1>5, <1>6, <1>7

Save == [at: Working \cup {"idle", "answered"}, cfg: Config,
         fd: Inodes, shared: BOOLEAN, ok: BOOLEAN]

(* A save that is answered is an answer, of the page's own sections.       *)
LEMMA AnswerFits ==
    ASSUME TypeOK, NEW c \in Pages, NEW ok \in BOOLEAN, AnswerSave(c, ok)
    PROVE  /\ save' \in [Pages -> Save]
           /\ save'[c].at = "answered" /\ save'[c].ok = ok
           /\ ~(InHandler(c))'
           /\ \A d \in Pages \ {c} : save'[d] = save[d] /\ ((InHandler(d))' <=> InHandler(d))
           /\ (ok /\ c = "mcp") => save'[c].cfg["mcp"] = save[c].cfg["mcp"]
<1>1. save \in [Pages -> Save]
  BY DEF TypeOK, Save
<1> DEFINE v == IF ok /\ c # "editor" THEN Shown(c, save[c].cfg) ELSE Blank
           a == [NoSave EXCEPT !.at = "answered", !.ok = ok, !.cfg = v]
<1>2. v \in Config /\ ((ok /\ c = "mcp") => v["mcp"] = save[c].cfg["mcp"])
  BY ConfigsFit DEF Shown, Sends, Sections
<1>3. save' = [save EXCEPT ![c] = a]
  BY DEF AnswerSave
<1> HIDE DEF v
<1>4. NoSave \in Save
  BY ConfigsFit DEF Save, NoSave, Inodes, Working
<1>5. a \in Save /\ a.at = "answered" /\ a.ok = ok /\ a.cfg = v
  BY <1>2, <1>4 DEF Save
<1> HIDE DEF a
<1>6. save'[c] = a /\ \A d \in Pages \ {c} : save'[d] = save[d]
  BY <1>1, <1>3
<1> QED BY <1>1, <1>2, <1>3, <1>5, <1>6 DEF InHandler, Working

(* Whoever is in a handler beside another is marked.                       *)
LEMMA Overlapping ==
    ASSUME StoreInv, NEW c \in Pages, NEW d \in Pages \ {c}, InHandler(c), InHandler(d)
    PROVE  ~Solo(c) /\ ~Solo(d)
  BY DEF StoreInv, SolosOK, SoloOK

(* A step outside the handlers disturbs nobody in them.                    *)
LEMMA HandlersRest ==
    ASSUME StoreInv, UNCHANGED <<running, options, diskVars, agree>>,
           \A c \in Pages : (InHandler(c))' <=> InHandler(c),
           \A c \in Pages : InHandler(c) => save'[c] = save[c]
    PROVE  SolosOK' /\ FileIsWhatRuns'
<1>1. ASSUME NEW c \in Pages, (Solo(c))'
      PROVE  (SoloOK(c))'
  <2>1. InHandler(c) /\ Solo(c) /\ save'[c] = save[c]
    BY <1>1 DEF Solo
  <2> QED BY <2>1 DEF StoreInv, SolosOK, SoloOK, diskVars, Up, Settled
<1>2. FileIsWhatRuns'
  BY DEF StoreInv, FileIsWhatRuns, diskVars, Up
<1> QED BY <1>1, <1>2 DEF SolosOK

----------------------------------------------------------------------------
LEMMA InitStore ==
    ASSUME Init
    PROVE  StoreInv
<1>1. FirstCfg \in Config /\ Blank \in Config /\ 0 \in Versions /\ 1 \in Versions
  BY StoreConstants DEF Config, FirstCfg, Blank, Versions
<1>2. TypeOK
  <2>1. page \in [Pages -> [cfg: Config, loaded: BOOLEAN, orig: Versions]]
    BY <1>1 DEF Init, FirstPage
  <2>2. save \in [Pages -> Save]
    BY <1>1 DEF Init, NoSave, Save, Inodes
  <2>3. disk \in [Inodes -> Content] /\ conf \in Inodes /\ tmp # conf
    BY <1>1, StoreConstants DEF Init, Content, Inodes
  <2>4. next \in 1 .. MaxVersion + 1 /\ puts \in 0 .. MaxSaves /\ ran \in SUBSET Versions
    BY <1>1, StoreConstants DEF Init
  <2> QED BY <1>1, <2>1, <2>2, <2>3, <2>4 DEF Init, TypeOK, Save
<1>3. \A c \in Pages : ~InHandler(c) /\ save[c].at = "idle" /\ ~page[c].loaded
  BY DEF Init, InHandler, Working, NoSave, FirstPage
<1>4. SolosOK
  BY <1>3 DEF SolosOK, Solo
<1>5. FileIsWhatRuns
  BY DEF Init, FileIsWhatRuns, Inodes
<1>6. RanOK
  BY <1>3 DEF Init, RanOK, FirstCfg, Sections, Pages
<1> QED BY <1>2, <1>4, <1>5, <1>6 DEF StoreInv

Page == [cfg: Config, loaded: BOOLEAN, orig: Versions]

(* Steps that change only what a page shows.                               *)
LEMMA PageStepKeeps ==
    ASSUME StoreInv, UNCHANGED <<running, options, diskVars, save, ran, agree, puts>>,
           page' \in [Pages -> Page], next' \in 1 .. MaxVersion + 1,
           page'["mcp"].loaded => page'["mcp"].orig \in ran
    PROVE  StoreInv'
<1>1. TypeOK'
  BY DEF StoreInv, TypeOK, diskVars, Page
<1>2. SolosOK' /\ FileIsWhatRuns'
  BY HandlersRest DEF InHandler
<1>3. RanOK'
  BY DEF StoreInv, RanOK, Up
<1> QED BY <1>1, <1>2, <1>3 DEF StoreInv

LEMMA LoadKeeps ==
    ASSUME StoreInv, NEW c \in Pages, Load(c)
    PROVE  StoreInv'
<1>1. running \in Config /\ page \in [Pages -> Page] /\ Up
  BY DEF Load, StoreInv, TypeOK, Up, Page
<1>2. Shown(c, running) \in Config /\ running["mcp"] \in Versions /\ 0 \in Versions
  BY <1>1, ConfigsFit, StoreConstants DEF StoreInv, Config, Sections, Versions
<1>3. page' \in [Pages -> Page]
  BY <1>1, <1>2 DEF Load, Page
<1>4. page'["mcp"].loaded => page'["mcp"].orig \in ran
  BY <1>1 DEF Load, StoreInv, RanOK, Pages, Page
<1>5. next' \in 1 .. MaxVersion + 1
  BY DEF Load, StoreInv, TypeOK
<1> QED BY <1>3, <1>4, <1>5, PageStepKeeps DEF Load

LEMMA EditKeeps ==
    ASSUME StoreInv, NEW c \in Pages, NEW s \in Sections, Edit(c, s)
    PROVE  StoreInv'
<1>1. page \in [Pages -> Page] /\ next \in Versions /\ next' \in 1 .. MaxVersion + 1
  BY StoreConstants DEF Edit, StoreInv, TypeOK, Page, Versions
<1>2. [page[c].cfg EXCEPT ![s] = next] \in Config
  BY <1>1 DEF Page, Config
<1>3. page' = [page EXCEPT ![c].cfg = [page[c].cfg EXCEPT ![s] = next]]
  BY DEF Edit
<1>4. page' \in [Pages -> Page]
  BY <1>1, <1>2, <1>3 DEF Page
<1>5. page'["mcp"].loaded => page'["mcp"].orig \in ran
  BY <1>1, <1>3 DEF StoreInv, RanOK, Pages, Page
<1> QED BY <1>1, <1>4, <1>5, PageStepKeeps DEF Edit

LEMMA ReopenKeeps ==
    ASSUME StoreInv, NEW c \in Pages, Reopen(c)
    PROVE  StoreInv'
<1>1. page \in [Pages -> Page] /\ Blank \in Config /\ 0 \in Versions
  BY ConfigsFit, StoreConstants DEF StoreInv, TypeOK, Page, Versions
<1>2. FirstPage \in Page /\ ~FirstPage.loaded
  BY <1>1 DEF FirstPage, Page
<1>3. page' \in [Pages -> Page]
  BY <1>1, <1>2 DEF Reopen
<1>4. page'["mcp"].loaded => page'["mcp"].orig \in ran
  BY <1>1, <1>2 DEF Reopen, StoreInv, RanOK, Pages
<1>5. next' \in 1 .. MaxVersion + 1
  BY DEF Reopen, StoreInv, TypeOK
<1> QED BY <1>3, <1>4, <1>5, PageStepKeeps DEF Reopen

(* Steps that change the request of one page, before its handler or after  *)
(* it, and leave the server alone.                                         *)
LEMMA RequestStepKeeps ==
    ASSUME StoreInv, NEW c \in Pages,
           UNCHANGED <<running, options, diskVars, ran, agree>>,
           ~InHandler(c), ~(InHandler(c))',
           save' \in [Pages -> Save], \A d \in Pages \ {c} : save'[d] = save[d],
           save'[c].at = "answered" => ~save'[c].ok,
           page' \in [Pages -> Page], next' \in 1 .. MaxVersion + 1, puts' \in 0 .. MaxSaves,
           page'["mcp"].loaded => page'["mcp"].orig \in ran
    PROVE  StoreInv'
<1>1. TypeOK'
  BY DEF StoreInv, TypeOK, diskVars, Page, Save
<1>2. \A d \in Pages : (InHandler(d))' <=> InHandler(d)
  BY DEF InHandler
<1>3. SolosOK' /\ FileIsWhatRuns'
  BY <1>2, HandlersRest
<1>4. RanOK'
  BY DEF StoreInv, RanOK, Up, Pages
<1> QED BY <1>1, <1>3, <1>4 DEF StoreInv

LEMMA SendKeeps ==
    ASSUME StoreInv, NEW c \in Pages, ~Saving(c), NEW cfg \in Config, Send(c, cfg),
           UNCHANGED <<running, options, diskVars, page, ran, agree>>,
           next' \in 1 .. MaxVersion + 1
    PROVE  StoreInv'
<1>1. save \in [Pages -> Save] /\ page \in [Pages -> Page] /\ Blank \in Config
  BY ConfigsFit DEF StoreInv, TypeOK, Save, Page
<1>2. NoSave \in Save
  BY <1>1 DEF NoSave, Save, Inodes
<1> DEFINE r == [NoSave EXCEPT !.at = "sent", !.cfg = cfg]
<1>3. r \in Save /\ r.at = "sent"
  BY <1>2 DEF Save, Working
<1> HIDE DEF r
<1>4. save' = [save EXCEPT ![c] = r]
  BY DEF Send, r
<1>5. save' \in [Pages -> Save] /\ save'[c] = r /\ \A d \in Pages \ {c} : save'[d] = save[d]
  BY <1>1, <1>3, <1>4
<1>6. ~InHandler(c) /\ ~(InHandler(c))'
  BY <1>3, <1>5 DEF Saving, InHandler, Working
<1>7. puts' \in 0 .. MaxSaves
  BY StoreConstants DEF Send, StoreInv, TypeOK
<1>8. page'["mcp"].loaded => page'["mcp"].orig \in ran
  BY DEF StoreInv, RanOK
<1> QED BY <1>1, <1>3, <1>5, <1>6, <1>7, <1>8, RequestStepKeeps

LEMMA SavesKeep ==
    ASSUME StoreInv, SaveEditor \/ SaveMcp \/ SaveLogs \/ ToggleVerbose
    PROVE  StoreInv'
<1>1. /\ {"editor", "mcp", "logs"} = Pages
      /\ \A c \in Pages : page[c].cfg \in Config /\ Blank \in Config
  BY ConfigsFit DEF Pages, StoreInv
<1>2. next \in 1 .. MaxVersion + 1
  BY DEF StoreInv, TypeOK
<1>3. CASE SaveEditor
  BY <1>1, <1>2, <1>3, SendKeeps DEF SaveEditor
<1>4. CASE SaveMcp
  BY <1>1, <1>2, <1>4, SendKeeps DEF SaveMcp
<1>5. CASE SaveLogs
  BY <1>1, <1>2, <1>5, SendKeeps DEF SaveLogs
<1>6. CASE ToggleVerbose
  <2>1. next \in Versions /\ next' \in 1 .. MaxVersion + 1
    BY <1>2, <1>6, StoreConstants DEF ToggleVerbose, Versions
  <2>2. [Blank EXCEPT !["logging"] = next] \in Config
    BY <1>1, <2>1 DEF Config
  <2> QED BY <1>1, <1>6, <2>1, <2>2, SendKeeps DEF ToggleVerbose
<1> QED BY <1>3, <1>4, <1>5, <1>6

(* The answer of a save is taken over only if it was a success, and then   *)
(* what it says has been running.                                          *)
LEMMA ReceiveSaveKeeps ==
    ASSUME StoreInv, NEW c \in Pages, ReceiveSave(c)
    PROVE  StoreInv'
<1>1. save \in [Pages -> Save] /\ page \in [Pages -> Page] /\ NoSave \in Save
  BY ConfigsFit DEF StoreInv, TypeOK, Save, Page, NoSave, Inodes
<1>2. save' = [save EXCEPT ![c] = NoSave] /\ NoSave.at = "idle"
  BY DEF ReceiveSave, NoSave
<1>3. save' \in [Pages -> Save] /\ save'[c] = NoSave /\ \A d \in Pages \ {c} : save'[d] = save[d]
  BY <1>1, <1>2
<1>4. ~InHandler(c) /\ ~(InHandler(c))'
  BY <1>2, <1>3 DEF ReceiveSave, InHandler, Working
<1>5. \A d \in Pages : \A s \in Sections : save[d].cfg[s] \in Versions
  BY <1>1 DEF Save, Config
<1>6. CASE ~save[c].ok \/ c = "editor"
  <2>1. page' = page
    BY <1>6 DEF ReceiveSave
  <2> QED BY <1>1, <1>2, <1>3, <1>4, <2>1, RequestStepKeeps DEF ReceiveSave, StoreInv, TypeOK, RanOK
<1>7. CASE save[c].ok /\ c = "mcp"
  <2> DEFINE v == save["mcp"].cfg["mcp"]
  <2>1. page' = [page EXCEPT !["mcp"].cfg["mcp"] = v, !["mcp"].orig = v]
    BY <1>7 DEF ReceiveSave, AnswerMcp
  <2>2. v \in ran /\ v \in Versions /\ "mcp" \in Pages /\ "mcp" \in Sections
    BY <1>5, <1>7 DEF ReceiveSave, StoreInv, RanOK, Pages, Sections
  <2> HIDE DEF v
  <2>3. page' \in [Pages -> Page] /\ page'["mcp"].orig \in ran
    BY <1>1, <2>1, <2>2 DEF Page, Config
  <2> QED BY <1>2, <1>3, <1>4, <2>3, RequestStepKeeps DEF ReceiveSave, StoreInv, TypeOK
<1>8. CASE save[c].ok /\ c = "logs"
  <2> DEFINE v == save[c].cfg["logging"]
  <2>1. page' = [page EXCEPT ![c].cfg["logging"] = v]
    BY <1>8 DEF ReceiveSave
  <2>2. v \in Versions /\ "logging" \in Sections /\ "mcp" \in Pages \ {c}
    BY <1>5, <1>8 DEF Pages, Sections
  <2> HIDE DEF v
  <2>3. page' \in [Pages -> Page] /\ page'["mcp"] = page["mcp"]
    BY <1>1, <2>1, <2>2 DEF Page, Config
  <2> QED BY <1>2, <1>3, <1>4, <2>3, RequestStepKeeps DEF ReceiveSave, StoreInv, TypeOK, RanOK
<1> QED BY <1>6, <1>7, <1>8 DEF Pages

(* A save that is refused at the door.                                     *)
LEMMA RefusedKeeps ==
    ASSUME StoreInv, NEW c \in Pages, Reject(c) \/ Refuse(c)
    PROVE  StoreInv'
<1>1. /\ save' \in [Pages -> Save] /\ save'[c].at = "answered" /\ ~save'[c].ok
      /\ ~(InHandler(c))' /\ \A d \in Pages \ {c} : save'[d] = save[d]
  BY AnswerFits DEF Reject, Refuse, StoreInv
<1>2. ~InHandler(c)
  BY DEF Reject, Refuse, InHandler
<1>3. page' \in [Pages -> Page] /\ (page'["mcp"].loaded => page'["mcp"].orig \in ran)
  BY DEF Reject, Refuse, StoreInv, TypeOK, Page, RanOK
<1> QED BY <1>1, <1>2, <1>3, RequestStepKeeps DEF Reject, Refuse, StoreInv, TypeOK

----------------------------------------------------------------------------
(* A save enters its handler: alone it is solo, and finds things settled;  *)
(* beside others nobody is solo.                                           *)
LEMMA BuildKeeps ==
    ASSUME StoreInv, NEW c \in Pages, Build(c)
    PROVE  StoreInv'
<1>1. save \in [Pages -> Save] /\ Up /\ save[c].at = "sent" /\ Merged(c) \in Config
  BY ConfigsFit DEF Build, StoreInv, TypeOK, Save
<1> DEFINE b == [save[c] EXCEPT !.at = "built", !.cfg = Merged(c), !.shared = Others(c) # {}]
<1>2. b \in Save /\ b.at = "built" /\ b.cfg = Merged(c) /\ b.shared = (Others(c) # {})
  BY <1>1 DEF Save, Working
<1> HIDE DEF b
<1>3. save' = [d \in Pages |-> CASE d = c -> b
                                 [] d \in Others(c) -> [save[d] EXCEPT !.shared = TRUE]
                                 [] OTHER -> save[d]]
  BY DEF Build, b
<1>4. ~InHandler(c) /\ c \notin Others(c)
  BY <1>1 DEF InHandler, Others
<1>5. save'[c] = b
  BY <1>3, <1>4
<1>6. \A d \in Pages \ {c} :
         save'[d] = IF d \in Others(c) THEN [save[d] EXCEPT !.shared = TRUE] ELSE save[d]
  <2> TAKE d \in Pages \ {c}
  <2>1. CASE d \in Others(c)
    BY <1>3, <2>1
  <2>2. CASE d \notin Others(c)
    BY <1>3, <2>2
  <2> QED BY <2>1, <2>2
<1>7. \A d \in Pages : save'[d] \in Save
  <2> TAKE d \in Pages
  <2>1. [save[d] EXCEPT !.shared = TRUE] \in Save /\ save[d] \in Save
    BY <1>1 DEF Save
  <2> QED BY <1>2, <1>5, <1>6, <2>1
<1>8. \A d \in Pages \ {c} : save'[d].at = save[d].at /\ save'[d].cfg = save[d].cfg /\ save'[d].ok = save[d].ok
  BY <1>1, <1>6 DEF Save
<1>9. /\ (InHandler(c))'
      /\ \A d \in Pages \ {c} : (InHandler(d))' <=> InHandler(d)
  BY <1>2, <1>5, <1>8 DEF InHandler, Working
<1>10. TypeOK'
  <2>1. save' \in [Pages -> Save]
    BY <1>3, <1>7
  <2> QED BY <2>1 DEF Build, StoreInv, TypeOK, diskVars, Save
<1>11. \A d \in Pages \ {c} : ~(Solo(d))'
  <2> TAKE d \in Pages \ {c}
  <2>1. InHandler(d) => d \in Others(c)
    BY DEF Others
  <2>2. d \in Others(c) => save'[d].shared
    BY <1>1, <1>6 DEF Save
  <2> QED BY <1>9, <2>1, <2>2 DEF Solo
<1>12. ASSUME (Solo(c))'
       PROVE  (SoloOK(c))'
  <2>1. Others(c) = {} /\ \A d \in Pages \ {c} : ~InHandler(d)
    BY <1>2, <1>5, <1>12 DEF Solo, Others
  <2>2. agree => Settled
    BY <1>1, <1>4, <2>1 DEF StoreInv, FileIsWhatRuns, Settled
  <2>3. \A s \in Sections \ Sends(c) : save'[c].cfg[s] = running'[s]
    <3>1. Merged(c) = [s \in Sections |-> IF s \in Sends(c) THEN save[c].cfg[s] ELSE running[s]]
      BY DEF Merged
    <3>2. \A s \in Sections \ Sends(c) : Merged(c)[s] = running[s]
      BY <3>1
    <3> QED BY <1>2, <1>5, <3>2 DEF Build
  <2> QED BY <1>2, <1>5, <1>9, <2>1, <2>2, <2>3 DEF Build, SoloOK, diskVars, Up, Settled
<1>13. FileIsWhatRuns'
  BY <1>9 DEF FileIsWhatRuns
<1>14. RanOK'
  <2>1. save'["mcp"].at # "answered" \/ (save'["mcp"].at = save["mcp"].at
          /\ save'["mcp"].cfg = save["mcp"].cfg /\ save'["mcp"].ok = save["mcp"].ok)
    BY <1>2, <1>5, <1>8 DEF Pages
  <2>2. running' = running /\ ran' = ran /\ page' = page
    BY DEF Build
  <2> QED BY <2>1, <2>2 DEF StoreInv, RanOK, Up
<1> QED BY <1>10, <1>11, <1>12, <1>13, <1>14 DEF StoreInv, SolosOK

(* A step of a save that is in its handler: no other save is solo then, or *)
(* after it.                                                               *)
LEMMA NobodyElseSolo ==
    ASSUME StoreInv, NEW c \in Pages, InHandler(c), \A d \in Pages \ {c} : save'[d] = save[d]
    PROVE  /\ \A d \in Pages \ {c} : ~(Solo(d))'
           /\ \A d \in Pages \ {c} : (InHandler(d))' <=> InHandler(d)
  BY DEF StoreInv, SolosOK, SoloOK, Solo, InHandler

(* There is an inode for the temporary file.                               *)
LEMMA InodeFree ==
    ASSUME StoreInv, NEW c \in Pages, save[c].at = "built", tmp = Gone
    PROVE  FreeInode \in Inodes /\ FreeInode # conf
<1> DEFINE Used == {conf, tmp} \cup {save[d].fd : d \in {e \in Pages : save[e].at \in {"opened", "written"}}}
<1>1. conf \in Inodes /\ tmp \notin Inodes
  BY StoreConstants DEF StoreInv, TypeOK
<1>2. PICK a \in Pages, b \in Pages : Pages = {a, b, c}
  BY DEF Pages
<1>3. Used \subseteq {conf, tmp, save[a].fd, save[b].fd}
  BY <1>2
<1>4. save[a].fd \in Inodes /\ save[b].fd \in Inodes
  BY DEF StoreInv, TypeOK
<1>5. \E i \in Inodes : i \notin {conf, tmp, save[a].fd, save[b].fd}
  BY <1>1, <1>4 DEF Inodes
<1>6. \E i \in Inodes : i \notin Used
  BY <1>3, <1>5
<1>7. FreeInode \in Inodes /\ FreeInode \notin Used
  BY <1>6 DEF FreeInode
<1> QED BY <1>7

(* The temporary file is truncated or created; a solo save has it then.    *)
LEMMA OpenTmpKeeps ==
    ASSUME StoreInv, NEW c \in Pages, OpenTmp(c)
    PROVE  StoreInv'
<1> DEFINE i == IF tmp = Gone THEN FreeInode ELSE tmp
<1>1. i \in Inodes /\ i # conf
  BY InodeFree DEF OpenTmp, StoreInv, TypeOK
<1>2. tmp' = i /\ disk' = [disk EXCEPT ![i] = Empty]
  BY DEF OpenTmp
<1>3. save' = [save EXCEPT ![c].at = "opened", ![c].fd = i]
  BY DEF OpenTmp
<1> HIDE DEF i
<1>4. disk \in [Inodes -> Content] /\ conf \in Inodes /\ save \in [Pages -> Save]
  BY DEF StoreInv, TypeOK, Save
<1>5. /\ save' \in [Pages -> Save] /\ save'[c].at = "opened" /\ save'[c].fd = i
      /\ save'[c].cfg = save[c].cfg /\ save'[c].shared = save[c].shared
      /\ \A d \in Pages \ {c} : save'[d] = save[d]
  BY <1>1, <1>3, <1>4 DEF Save, Working
<1>6. disk' \in [Inodes -> Content] /\ disk'[i] = Empty /\ disk'[conf] = disk[conf]
  BY <1>1, <1>2, <1>4 DEF Content
<1>7. save[c].at = "built" /\ InHandler(c) /\ (InHandler(c))'
  BY <1>5 DEF OpenTmp, InHandler, Working
<1>8. TypeOK'
  BY <1>1, <1>2, <1>5, <1>6 DEF OpenTmp, StoreInv, TypeOK, Save
<1>9. ASSUME (Solo(c))'
      PROVE  (SoloOK(c))'
  <2>1. Solo(c) /\ SoloOK(c)
    BY <1>5, <1>7, <1>9 DEF Solo, StoreInv, SolosOK
  <2>2. \A d \in Pages \ {c} : ~(InHandler(d))'
    BY <1>5, <1>7, <2>1, NobodyElseSolo DEF SoloOK
  <2>3. running' = running /\ options' = options /\ conf' = conf /\ agree' = agree
    BY DEF OpenTmp
  <2> QED BY <1>2, <1>5, <1>6, <1>7, <2>1, <2>2, <2>3 DEF SoloOK, Up, Settled
<1>10. FileIsWhatRuns'
  BY <1>7 DEF FileIsWhatRuns
<1>11. RanOK'
  BY <1>5, <1>7 DEF OpenTmp, StoreInv, RanOK, Up, Pages
<1> QED BY <1>5, <1>7, <1>8, <1>9, <1>10, <1>11, NobodyElseSolo DEF StoreInv, SolosOK

(* Nobody else writes where a solo save writes, so what it has written is  *)
(* whole.                                                                  *)
LEMMA WriteTmpKeeps ==
    ASSUME StoreInv, NEW c \in Pages, WriteTmp(c)
    PROVE  StoreInv'
<1>1. disk \in [Inodes -> Content] /\ conf \in Inodes /\ save \in [Pages -> Save]
  BY DEF StoreInv, TypeOK, Save
<1>2. save' = [save EXCEPT ![c].at = "written"] /\ save[c].at = "opened"
  BY DEF WriteTmp
<1>3. /\ save' \in [Pages -> Save] /\ save'[c].at = "written" /\ save'[c].fd = save[c].fd
      /\ save'[c].cfg = save[c].cfg /\ save'[c].shared = save[c].shared
      /\ \A d \in Pages \ {c} : save'[d] = save[d]
  BY <1>1, <1>2 DEF Save, Working
<1>4. save[c].fd \in Inodes /\ save[c].cfg \in Config
  BY <1>1 DEF Save
<1>5. /\ disk' \in [Inodes -> Content]
      /\ \A i \in Inodes \ {save[c].fd} : disk'[i] = disk[i]
      /\ disk[save[c].fd] = Empty => disk'[save[c].fd] = save[c].cfg
  BY <1>1, <1>4 DEF WriteTmp, Content
<1>6. InHandler(c) /\ (InHandler(c))'
  BY <1>2, <1>3 DEF InHandler, Working
<1>7. TypeOK'
  BY <1>3, <1>5 DEF WriteTmp, StoreInv, TypeOK, Save
<1>8. ASSUME (Solo(c))'
      PROVE  (SoloOK(c))'
  <2>1. Solo(c) /\ SoloOK(c)
    BY <1>3, <1>6, <1>8 DEF Solo, StoreInv, SolosOK
  <2>2. \A d \in Pages \ {c} : ~(InHandler(d))'
    BY <1>3, <1>6, <2>1, NobodyElseSolo DEF SoloOK
  <2>3. running' = running /\ options' = options /\ conf' = conf /\ agree' = agree /\ tmp' = tmp
    BY DEF WriteTmp
  <2>4. save[c].fd # conf /\ disk'[conf] = disk[conf]
    BY <1>1, <1>2, <1>5, <2>1 DEF SoloOK, StoreInv, TypeOK
  <2> QED BY <1>2, <1>3, <1>5, <2>1, <2>2, <2>3, <2>4 DEF SoloOK, Up, Settled
<1>9. FileIsWhatRuns'
  BY <1>6 DEF FileIsWhatRuns
<1>10. RanOK'
  BY <1>2, <1>3 DEF WriteTmp, StoreInv, RanOK, Up, Pages
<1> QED BY <1>3, <1>6, <1>7, <1>8, <1>9, <1>10, NobodyElseSolo DEF StoreInv, SolosOK

(* A save that ends in its handler, with agree still set only if things    *)
(* are settled.                                                            *)
LEMMA LeaveKeeps ==
    ASSUME StoreInv, NEW c \in Pages, InHandler(c), NEW ok \in BOOLEAN, AnswerSave(c, ok),
           UNCHANGED <<puts, page, next>>, TypeOK', RanOK',
           (Up' /\ agree') => (Settled)'
    PROVE  StoreInv'
<1>1. ~(InHandler(c))' /\ \A d \in Pages \ {c} : save'[d] = save[d]
  BY AnswerFits DEF StoreInv
<1>2. \A d \in Pages : ~(Solo(d))'
  BY <1>1, NobodyElseSolo DEF Solo
<1>3. FileIsWhatRuns'
  BY DEF FileIsWhatRuns, Settled
<1> QED BY <1>2, <1>3 DEF StoreInv, SolosOK

LEMMA WriteFailsKeeps ==
    ASSUME StoreInv, NEW c \in Pages, WriteFails(c)
    PROVE  StoreInv'
<1>1. /\ save[c].at = "opened" /\ InHandler(c) /\ AnswerSave(c, FALSE)
      /\ agree' = (agree /\ ~save[c].shared)
      /\ disk' = [disk EXCEPT ![save[c].fd] = Damaged]
      /\ UNCHANGED <<puts, running, options, conf, tmp, page, next, ran>>
  BY DEF WriteFails, InHandler, Working
<1>2. /\ save' \in [Pages -> Save] /\ ~save'[c].ok
      /\ \A d \in Pages \ {c} : save'[d] = save[d]
  BY <1>1, AnswerFits DEF StoreInv
<1>3. disk \in [Inodes -> Content] /\ save[c].fd \in Inodes /\ conf \in Inodes
  BY DEF StoreInv, TypeOK
<1>4. TypeOK'
  <2>1. disk' \in [Inodes -> Content]
    BY <1>1, <1>3 DEF Content
  <2>2. agree' \in BOOLEAN
    BY <1>1
  <2> QED BY <1>1, <1>2, <2>1, <2>2 DEF StoreInv, TypeOK, Save
<1>5. RanOK'
  BY <1>1, <1>2 DEF StoreInv, RanOK, Up, Pages
<1>6. ASSUME agree', Up'
      PROVE  (Settled)'
  <2>1. Solo(c) /\ SoloOK(c)
    BY <1>1, <1>6 DEF Solo, StoreInv, SolosOK
  <2>2. save[c].fd # conf /\ Settled
    BY <1>1, <1>6, <2>1 DEF SoloOK, StoreInv, TypeOK, Up
  <2> QED BY <1>1, <1>3, <2>1, <2>2 DEF Settled
<1> QED BY <1>1, <1>4, <1>5, <1>6, LeaveKeeps

(* Renamed alone, config.yaml is what was sent; a rename that finds the    *)
(* temporary file gone was disturbed.                                      *)
LEMMA RenameTmpKeeps ==
    ASSUME StoreInv, NEW c \in Pages, RenameTmp(c)
    PROVE  StoreInv'
<1>1. disk \in [Inodes -> Content] /\ conf \in Inodes /\ save \in [Pages -> Save]
  BY DEF StoreInv, TypeOK, Save
<1>2. /\ save[c].at = "written" /\ InHandler(c)
      /\ UNCHANGED <<puts, running, options, page, next, ran>>
  BY DEF RenameTmp, InHandler, Working
<1>3. CASE tmp # Gone
  <2>1. /\ conf' = tmp /\ tmp' = Gone /\ disk' = [disk EXCEPT ![conf] = Empty] /\ agree' = agree
        /\ save' = [save EXCEPT ![c].at = "renamed", ![c].fd = 0]
    BY <1>3 DEF RenameTmp
  <2>2. /\ save' \in [Pages -> Save] /\ save'[c].at = "renamed"
        /\ save'[c].cfg = save[c].cfg /\ save'[c].shared = save[c].shared
        /\ \A d \in Pages \ {c} : save'[d] = save[d]
    <3>1. 0 \in Inodes
      BY DEF Inodes
    <3> QED BY <1>1, <1>2, <2>1, <3>1 DEF Save, Working
  <2>3. tmp \in Inodes /\ tmp # conf /\ disk' \in [Inodes -> Content] /\ disk'[tmp] = disk[tmp]
    BY <1>1, <1>3, <2>1 DEF StoreInv, TypeOK, Content
  <2>4. (InHandler(c))'
    BY <2>2 DEF InHandler, Working
  <2>5. TypeOK'
    BY <1>2, <2>1, <2>2, <2>3, StoreConstants DEF StoreInv, TypeOK, Save
  <2>6. ASSUME (Solo(c))'
        PROVE  (SoloOK(c))'
    <3>1. Solo(c) /\ SoloOK(c)
      BY <1>2, <2>2, <2>6 DEF Solo, StoreInv, SolosOK
    <3>2. \A d \in Pages \ {c} : ~(InHandler(d))'
      BY <1>2, <2>2, <3>1, NobodyElseSolo DEF SoloOK
    <3> QED BY <1>2, <2>1, <2>2, <2>3, <3>1, <3>2 DEF SoloOK
  <2>7. FileIsWhatRuns'
    BY <2>4 DEF FileIsWhatRuns
  <2>8. RanOK'
    BY <1>2, <2>2 DEF StoreInv, RanOK, Up, Pages
  <2> QED BY <1>2, <2>2, <2>5, <2>6, <2>7, <2>8, NobodyElseSolo DEF StoreInv, SolosOK
<1>4. CASE tmp = Gone
  <2>1. AnswerSave(c, FALSE) /\ agree' = FALSE /\ UNCHANGED diskVars
    BY <1>4 DEF RenameTmp
  <2>2. /\ save' \in [Pages -> Save] /\ ~save'[c].ok
        /\ \A d \in Pages \ {c} : save'[d] = save[d]
    BY <2>1, AnswerFits DEF StoreInv
  <2>3. TypeOK'
    BY <1>2, <2>1, <2>2 DEF StoreInv, TypeOK, Save, diskVars
  <2>4. RanOK'
    BY <1>2, <2>2 DEF StoreInv, RanOK, Up, Pages
  <2> QED BY <1>2, <2>1, <2>3, <2>4, LeaveKeeps
<1> QED BY <1>3, <1>4

(* What a solo save installs is what it has renamed.                       *)
LEMMA ReloadInstallsKeeps ==
    ASSUME StoreInv, NEW c \in Pages, ReloadInstalls(c)
    PROVE  StoreInv'
<1>1. /\ save[c].at = "renamed" /\ InHandler(c) /\ AnswerSave(c, TRUE)
      /\ running' = save[c].cfg /\ options' = save[c].cfg
      /\ ran' = ran \cup {save[c].cfg["mcp"]} /\ agree' = ~save[c].shared
      /\ UNCHANGED <<puts, disk, conf, tmp, page, next>>
  BY DEF ReloadInstalls, InHandler, Working, diskVars
<1>2. /\ save' \in [Pages -> Save]
      /\ c = "mcp" => save'[c].cfg["mcp"] = save[c].cfg["mcp"]
      /\ \A d \in Pages \ {c} : save'[d] = save[d]
  BY <1>1, AnswerFits DEF StoreInv
<1>3. save[c].cfg \in Config /\ save[c].cfg["mcp"] \in Versions
  BY ConfigsFit DEF StoreInv, Config, Sections
<1>4. TypeOK'
  <2>1. ran' \in SUBSET Versions
    BY <1>1, <1>3 DEF StoreInv, TypeOK
  <2>2. agree' \in BOOLEAN
    BY <1>1
  <2> QED BY <1>1, <1>2, <1>3, <2>1, <2>2 DEF StoreInv, TypeOK, Save
<1>5. RanOK'
  BY <1>1, <1>2 DEF StoreInv, RanOK, Up, Pages
<1>6. ASSUME agree', Up'
      PROVE  (Settled)'
  <2>1. SoloOK(c)
    BY <1>1, <1>6 DEF Solo, StoreInv, SolosOK
  <2> QED BY <1>1, <2>1 DEF SoloOK, Settled
<1> QED BY <1>1, <1>4, <1>5, <1>6, LeaveKeeps

LEMMA ReloadFailsKeeps ==
    ASSUME StoreInv, NEW c \in Pages, ReloadFails(c)
    PROVE  StoreInv'
<1>1. /\ save[c].at = "renamed" /\ InHandler(c) /\ AnswerSave(c, FALSE)
      /\ options' \in {options, save[c].cfg} /\ agree' = FALSE
      /\ UNCHANGED <<puts, running, disk, conf, tmp, page, next, ran>>
  BY DEF ReloadFails, InHandler, Working, diskVars
<1>2. /\ save' \in [Pages -> Save] /\ ~save'[c].ok
      /\ \A d \in Pages \ {c} : save'[d] = save[d]
  BY <1>1, AnswerFits DEF StoreInv
<1>3. save[c].cfg \in Config
  BY ConfigsFit DEF StoreInv
<1>4. TypeOK'
  BY <1>1, <1>2, <1>3 DEF StoreInv, TypeOK, Save
<1>5. RanOK'
  BY <1>1, <1>2 DEF StoreInv, RanOK, Up, Pages
<1> QED BY <1>1, <1>4, <1>5, LeaveKeeps

(* A restart leaves nobody in a handler, and runs what is in the file.     *)
LEMMA RestartKeeps ==
    ASSUME StoreInv, Restart
    PROVE  StoreInv'
<1>1. save \in [Pages -> Save] /\ NoSave \in Save
  BY ConfigsFit DEF StoreInv, TypeOK, Save, NoSave, Inodes, Pages
<1> DEFINE a == [NoSave EXCEPT !.at = "answered"]
<1>2. a \in Save /\ a.at = "answered" /\ ~a.ok
  <2>1. ~NoSave.ok
    BY DEF NoSave
  <2> QED BY <1>1, <2>1 DEF Save
<1>3. save' = [c \in Pages |-> IF save[c].at \in Working THEN a ELSE save[c]]
  BY DEF Restart
<1> HIDE DEF a
<1>4. /\ save' \in [Pages -> Save]
      /\ \A c \in Pages : save'[c] = a \/ (save'[c] = save[c] /\ save[c].at \notin Working)
  BY <1>1, <1>2, <1>3
<1>5. \A c \in Pages : ~(InHandler(c))'
  BY <1>2, <1>4 DEF InHandler, Working
<1>6. CASE disk[conf] \in Config
  <2>1. running' = disk[conf] /\ options' = disk[conf] /\ ran' = ran \cup {disk[conf]["mcp"]}
    BY <1>6 DEF Restart
  <2>2. UNCHANGED <<puts, disk, conf, tmp, page, next>> /\ agree' = TRUE
    BY DEF Restart, diskVars
  <2>3. disk[conf]["mcp"] \in Versions
    BY <1>6 DEF Config, Sections
  <2>4. TypeOK'
    <3>1. ran' \in SUBSET Versions
      BY <2>1, <2>3 DEF StoreInv, TypeOK
    <3> QED BY <1>4, <1>6, <2>1, <2>2, <3>1 DEF StoreInv, TypeOK, Save
  <2>5. FileIsWhatRuns'
    BY <2>1, <2>2 DEF FileIsWhatRuns
  <2>6. RanOK'
    BY <1>2, <1>4, <2>1, <2>2 DEF StoreInv, RanOK, Pages
  <2> QED BY <1>5, <2>4, <2>5, <2>6 DEF StoreInv, SolosOK, Solo
<1>7. CASE disk[conf] \notin Config
  <2>1. running' = Gone /\ options' = options /\ ran' = ran
    BY <1>7 DEF Restart
  <2>2. UNCHANGED <<puts, disk, conf, tmp, page, next>> /\ agree' = TRUE
    BY DEF Restart, diskVars
  <2>3. TypeOK'
    BY <1>4, <2>1, <2>2 DEF StoreInv, TypeOK, Save
  <2>4. FileIsWhatRuns'
    BY <2>1 DEF FileIsWhatRuns, Up
  <2>5. RanOK'
    BY <1>2, <1>4, <2>1, <2>2 DEF StoreInv, RanOK, Pages, Up
  <2> QED BY <1>5, <2>3, <2>4, <2>5 DEF StoreInv, SolosOK, Solo
<1> QED BY <1>6, <1>7

LEMMA StoreStutters ==
    ASSUME StoreInv, UNCHANGED storeVars
    PROVE  StoreInv'
<1>1. page' \in [Pages -> Page] /\ next' \in 1 .. MaxVersion + 1
  BY DEF storeVars, StoreInv, TypeOK, Page
<1>2. page'["mcp"].loaded => page'["mcp"].orig \in ran
  BY DEF storeVars, StoreInv, RanOK
<1> QED BY <1>1, <1>2, PageStepKeeps DEF storeVars, diskVars

----------------------------------------------------------------------------
(* StoreInv is an invariant: true at the start and kept by every step.     *)
THEOREM StoreInvariant == Spec => []StoreInv
<1>1. ASSUME StoreInv, [Next]_storeVars
      PROVE  StoreInv'
  BY <1>1, LoadKeeps, EditKeeps, ReopenKeeps, SavesKeep, ReceiveSaveKeeps, RefusedKeeps,
     BuildKeeps, OpenTmpKeeps, WriteTmpKeeps, WriteFailsKeeps, RenameTmpKeeps,
     ReloadInstallsKeeps, ReloadFailsKeeps, RestartKeeps, StoreStutters
  DEF Next, Handle
<1> QED BY <1>1, InitStore, PTL DEF Spec

(* Types: among them, the temporary file is never config.yaml itself.      *)
THEOREM StoreTypeCorrect == Spec => []TypeOK
<1>1. StoreInv => TypeOK
  BY DEF StoreInv
<1> QED BY <1>1, StoreInvariant, PTL

(* With no save between its rename and its reload, and unless saves        *)
(* overlapped or a reload failed, the file, the options and the running    *)
(* configuration are one: however many saves there are, and whenever the   *)
(* process ends.                                                           *)
THEOREM FileAgrees == Spec => []FileIsWhatRuns
<1>1. StoreInv => FileIsWhatRuns
  BY DEF StoreInv
<1> QED BY <1>1, StoreInvariant, PTL

(* What McpConfig does not mark as unsaved has been running.               *)
THEOREM UnmarkedRan == Spec => []UnmarkedHasRun
<1>1. StoreInv => UnmarkedHasRun
  BY DEF StoreInv, RanOK, UnmarkedHasRun
<1> QED BY <1>1, StoreInvariant, PTL

(* A save that was alone in the handlers changes only the sections of its  *)
(* page: what it merged in is still what runs when it is installed.        *)
THEOREM SectionSavesKeepRest == Spec => SectionSaveKeepsRest
<1>1. ASSUME StoreInv, NEW c \in Pages, ReloadInstalls(c), ~save[c].shared
      PROVE  \A s \in Sections \ Sends(c) : running'[s] = running[s]
  BY <1>1 DEF StoreInv, SolosOK, Solo, SoloOK, ReloadInstalls, InHandler, Working
<1>2. StoreInv =>
        [\A c \in Pages : (ReloadInstalls(c) /\ ~save[c].shared) =>
            \A s \in Sections \ Sends(c) : running'[s] = running[s]]_storeVars
  BY <1>1
<1> QED BY <1>2, StoreInvariant, PTL DEF SectionSaveKeepsRest
=============================================================================
