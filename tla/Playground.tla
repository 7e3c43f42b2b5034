----------------------------- MODULE Playground -----------------------------
(***************************************************************************)
(* Test.tsx: the administrator chooses a combo and a format, and the page  *)
(* sends a request to the proxy's own endpoint for the format, as a client *)
(* would, and shows the answer as it comes.  What the proxy takes is that  *)
(* of proxy.go, router.go and config.go.                                   *)
(*                                                                         *)
(* An identifier is the sequence of its parts between slashes: the names   *)
(* of groups and combos and the aliases have none (config/build.go), the   *)
(* model that a relay combo passes on may have some.                       *)
(*                                                                         *)
(* The prompt is there; the API key, the authentication headers, the level *)
(* of thinking and the sizes of images are left out, and so is the text of *)
(* the answer.                                                             *)
(***************************************************************************)
EXTENDS Naturals, Sequences, FiniteSets

CONSTANTS
    Listed,         \* configurations: what GET /api/config may list as combos
    UpstreamNames,  \* what may be filled in as relayModel
    MaxTries       \* bound: what the administrator does in one visit

ApiFormat == {"openai", "openai-images", "openai-image-edits", "openai-embeddings"}
NotStreamed == ApiFormat \ {"openai"}

TestCombo == [group: STRING, isDefault: BOOLEAN, name: STRING, aliases: SUBSET STRING,
              relay: BOOLEAN, formats: Seq(ApiFormat)]

\* All names that the router knows a combo by.  A combo of the default group has
\* those with the group as well.
Identifiers(c) ==
    LET ns == {c.name} \cup c.aliases
    IN  {<<c.group, n>> : n \in ns} \cup (IF c.isDefault THEN {<<n>> : n \in ns} ELSE {})

\* The gateway runs no combo without a format, and no two combos with an
\* identifier in common (config/build.go).
ASSUME PlaygroundConstants ==
    /\ MaxTries \in Nat /\ Listed # {}
    /\ UpstreamNames \subseteq Seq(STRING) /\ <<>> \notin UpstreamNames
    /\ \A cs \in Listed :
          /\ cs \in Seq(TestCombo) /\ \A i \in DOMAIN cs : cs[i].formats # <<>>
          /\ \A i, j \in DOMAIN cs :
                i # j => Identifiers(cs[i]) \cap Identifiers(cs[j]) = {}

VARIABLES
    flatCombos, \* the combos, <<>> until they arrive
    comboName,  \* the identifier chosen, <<>> if none
    fmt, stream,
    upstream,   \* relayModel, <<>> until it is filled in
    file,       \* there is an image to be edited
    sending,    \* state
    request,    \* history: the last request sent
    tries

tryVars == <<flatCombos, comboName, fmt, stream, upstream, file, sending, request, tries>>

NoRequest == [model |-> <<>>, fmt |-> "openai", stream |-> FALSE]

PlaygroundTypeOK ==
    /\ flatCombos \in Listed \cup {<<>>}
    /\ \A i \in DOMAIN flatCombos : flatCombos[i] \in TestCombo
    /\ comboName \in Seq(STRING) /\ Len(comboName) <= 2 /\ fmt \in ApiFormat
    /\ stream \in BOOLEAN /\ upstream \in UpstreamNames \cup {<<>>} /\ file \in BOOLEAN
    /\ sending \in {"idle", "sending", "streaming", "done", "error"}
    /\ request.fmt \in ApiFormat /\ request.stream \in BOOLEAN /\ tries \in 0 .. MaxTries

PlaygroundInit ==
    /\ flatCombos = <<>> /\ comboName = <<>>
    /\ fmt = "openai" /\ stream = TRUE
    /\ upstream = <<>> /\ file = FALSE
    /\ sending = "idle" /\ request = NoRequest /\ tries = 0

-----------------------------------------------------------------------------
(* Identifiers.                                                             *)

\* A group named "default" goes without a prefix on this page.
getFullID(c) ==
    IF c.isDefault \/ c.group = "default" THEN <<c.name>> ELSE <<c.group, c.name>>

\* In the gateway only the default group does.
FullName(c) == IF c.isDefault THEN <<c.name>> ELSE <<c.group, c.name>>

\* The first combo with the identifier, or with the name whatever its group.
Matching(id) ==
    {i \in DOMAIN flatCombos : getFullID(flatCombos[i]) = id \/ <<flatCombos[i].name>> = id}
Found(id) == flatCombos[CHOOSE i \in Matching(id) : \A j \in Matching(id) : i <= j]

\* A combo that takes images takes edits of images, here and in SupportsFormat.
SupportsFormat(c, f) ==
    \E i \in DOMAIN c.formats :
        c.formats[i] = f \/ (f = "openai-image-edits" /\ c.formats[i] = "openai-images")

isRelayCombo == Matching(comboName) # {} /\ Found(comboName).relay
requestModel == comboName \o (IF isRelayCombo THEN upstream ELSE <<>>)
availableFormats ==
    IF Matching(comboName) = {} THEN {"openai"}
    ELSE {f \in ApiFormat : SupportsFormat(Found(comboName), f)}

\* The combos of the gateway that a name belongs to, and those that a request
\* for it is resolved to: these, or else the relay combos of its longest part
\* that is one's name.
Answering(name) == {i \in DOMAIN flatCombos : name \in Identifiers(flatCombos[i])}

Relaying(name, n) == {i \in Answering(SubSeq(name, 1, n)) : flatCombos[i].relay}

ResolveRequest(name) ==
    IF Answering(name) # {} THEN Answering(name)
    ELSE LET parts == {n \in 1 .. Len(name) - 1 : Relaying(name, n) # {}}
         IN  UNION {Relaying(name, n) : n \in {k \in parts : \A m \in parts : m <= k}}

-----------------------------------------------------------------------------
LoadConfig ==
    /\ flatCombos = <<>>
    /\ \E cs \in Listed :
          /\ flatCombos' = cs
          /\ comboName' = IF cs = <<>> THEN comboName ELSE getFullID(cs[1])
          /\ fmt' = IF cs = <<>> THEN fmt ELSE cs[1].formats[1]
    /\ UNCHANGED <<stream, upstream, file, sending, request, tries>>

Busy == sending \in {"sending", "streaming"}
Try  == ~Busy /\ tries < MaxTries /\ tries' = tries + 1

\* Mutated form: the format stays.
FormatKept(id) == fmt

\* handleComboChange takes the first format of the combo.
FormatOf(id) == IF Matching(id) = {} THEN fmt ELSE Found(id).formats[1]

handleComboChange(id) ==
    /\ Try
    /\ comboName' = id /\ fmt' = FormatOf(id)
    /\ UNCHANGED <<flatCombos, stream, upstream, file, sending, request>>

\* Only this button, not a change of the combo, ends the streaming for a format
\* that has none.
SetFormat(f) ==
    /\ Try /\ f \in availableFormats
    /\ fmt' = f
    /\ stream' = (stream /\ f \notin NotStreamed)
    /\ UNCHANGED <<flatCombos, comboName, upstream, file, sending, request>>

ToggleStream ==
    /\ Try /\ fmt \notin NotStreamed
    /\ stream' = ~stream
    /\ UNCHANGED <<flatCombos, comboName, fmt, upstream, file, sending, request>>

FillUpstream ==
    /\ Try /\ isRelayCombo
    /\ upstream' \in (UpstreamNames \cup {<<>>}) \ {upstream}
    /\ UNCHANGED <<flatCombos, comboName, fmt, stream, file, sending, request>>

ChooseFile ==
    /\ Try /\ fmt = "openai-image-edits"
    /\ file' = ~file
    /\ UNCHANGED <<flatCombos, comboName, fmt, stream, upstream, sending, request>>

\* The text area is disabled while a request is under way, and the button is
\* that of stop.
send ==
    /\ Try
    /\ comboName # <<>> /\ (isRelayCombo => upstream # <<>>)
    /\ IF fmt = "openai-image-edits" /\ ~file
       THEN sending' = "idle" /\ UNCHANGED request
       ELSE /\ sending' = "sending"
            /\ request' = [model |-> requestModel, fmt |-> fmt,
                           stream |-> stream /\ fmt \notin NotStreamed]
    /\ UNCHANGED <<flatCombos, comboName, fmt, stream, upstream, file>>

\* The request is aborted, and its handler says the same once more.
stop ==
    /\ Busy
    /\ sending' = "done"
    /\ UNCHANGED <<flatCombos, comboName, fmt, stream, upstream, file, request, tries>>

\* An answer in one piece, a stream that begins and ends, or an error.
Receive ==
    /\ Busy
    /\ \/ sending = "sending" /\ sending' = "streaming" /\ request.stream
       \/ sending' \in {"done", "error"}
    /\ UNCHANGED <<flatCombos, comboName, fmt, stream, upstream, file, request, tries>>

-----------------------------------------------------------------------------
PlaygroundNext ==
    \/ LoadConfig
    \/ \E i \in DOMAIN flatCombos : handleComboChange(getFullID(flatCombos[i]))
    \/ \E f \in ApiFormat : SetFormat(f)
    \/ ToggleStream
    \/ FillUpstream
    \/ ChooseFile
    \/ send
    \/ stop
    \/ Receive

\* The combo that the page chose is another one for the gateway, or not only
\* it: a plain name that other groups have as well, or a group named "default"
\* that is not the default group.
Mistaken(id) ==
    \/ Cardinality(Matching(id)) > 1
    \/ \E i \in Matching(id) : FullName(flatCombos[i]) # id

\* Another combo has a longer part of the model that is asked for: exact names
\* win, and then the longer ones of relay combos.
Overtaken ==
    \E n \in Len(comboName) + 1 .. Len(request.model) :
        \E j \in Answering(SubSeq(request.model, 1, n)) :
            n = Len(request.model) \/ flatCombos[j].relay

\* A request of the page is one that the gateway takes: it is resolved to one
\* combo, which supports its format, and has an upstream model if this combo is
\* a relay - unless the identifier is mistaken or overtaken (handleComboChange,
\* selectedCombo, requestModel and send against NewRouter, ResolveRequest,
\* RelayModelMissing and SupportsFormat).
FormatAccepted ==
    Busy /\ ~Mistaken(comboName) /\ ~Overtaken =>
        \E i \in DOMAIN flatCombos :
            /\ ResolveRequest(request.model) = {i}
            /\ SupportsFormat(flatCombos[i], request.fmt)
            /\ flatCombos[i].relay => Answering(request.model) = {}
=============================================================================
