----------------------------- MODULE MCConsole -----------------------------
(* Instance of Console: three combos with two members, two MCP providers,   *)
(* one of which has an item more, and the lists of combos with two entries. *)
EXTENDS Console

CONSTANTS p1, p2, i1, i2

MCItemsOf == [p \in McpProviders |-> IF p = p1 THEN {i1, i2} ELSE {i2}]

\* Two combos that differ in their identifiers, one group of them the default
\* one; embeddings beside a relay; and a relay that has the name of a group,
\* whose combo is the upstream model or the first part of it.
MCCombo(relay) ==
    [group: {"default", "team"}, isDefault: BOOLEAN, name: {"a", "b"}, aliases: {{}},
     relay: relay, formats: {<<"openai">>, <<"openai-images", "openai">>}]
MCPair(c, d) ==
    /\ Identifiers(c) \cap Identifiers(d) = {}
    /\ c.isDefault \/ d.isDefault
    /\ c.group = d.group <=> c.isDefault = d.isDefault
MCListed ==
    {<<c, d>> : c \in MCCombo({FALSE}), d \in MCCombo(BOOLEAN)}
MCRelayOfGroup(relay) ==
    <<[group |-> "main", isDefault |-> TRUE, name |-> "team", aliases |-> {"b"},
       relay |-> TRUE, formats |-> <<"openai">>],
      [group |-> "team", isDefault |-> FALSE, name |-> "a", aliases |-> {},
       relay |-> relay, formats |-> <<"openai-images">>]>>
MCListedPairs ==
    {cs \in MCListed : MCPair(cs[1], cs[2])} \cup
    {MCRelayOfGroup(relay) : relay \in BOOLEAN} \cup
    {<<[group |-> "default", isDefault |-> TRUE, name |-> "a", aliases |-> {},
        relay |-> FALSE, formats |-> <<"openai-embeddings">>]>>}
MCUpstreamNames == {<<"a">>, <<"a", "b">>}
=============================================================================
