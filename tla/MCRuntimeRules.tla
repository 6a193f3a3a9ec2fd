--------------------------- MODULE MCRuntimeRules ---------------------------
(* RuntimeRules on short files, registries and calls. *)
EXTENDS RuntimeRules

CONSTANT MaxRules   \* bound on the rules of a config file

MCTerminal == <<"t">>
MCPathTools == {<<"p">>}
MCMcpTools == {<<"m">>, <<"n">>, <<"k">>}
MCKnownTools == {<<"k">>}
MCMcpResource == [tool \in MCMcpTools |-> <<"mcp">> \o tool]
MCVerbs == {"get", "list", "delete"}
MCVerbFamily == [get |-> "read", list |-> "read", delete |-> "delete"]
MCFields == {"command", "path", "file_path"}

Rule(tool, type, pattern, field, action) ==
  [tool |-> tool, match_type |-> type, pattern |-> pattern, input_field |-> field,
   action |-> action, resource |-> <<"r">>, priority |-> Explicit]

\* Patterns that meet on the commands below, some of them equally specific.
Patterns ==
  {<<"a">>, <<"a", Blank, "b">>, <<"a", Star>>, <<"a", Blank, Star, "b", Star>>, <<Star, "b">>, <<Star>>,
   <<AnyChar, Star>>, <<Blank, Star>>}

TerminalRules == {Rule(MCTerminal, type, p, NoField, "write") : type \in MatchTypes, p \in Patterns}
OtherRules ==
  {Rule(<<"p">>, "prefix", <<"a">>, NoField, "read"), Rule(<<"p">>, "glob", <<Star>>, "path", "read"),
   Rule(<<"p">>, "glob", <<"a", Star>>, "file_path", "write")}
McpRules ==
  {Rule(<<"m">>, "glob", <<Star>>, NoField, "send"), Rule(<<"m">>, "exact", <<"n">>, NoField, "send"),
   Rule(<<"m">>, "prefix", <<"m">>, "path", "send")}

Sound(rule) == [rule |-> rule, faults |-> {}]
FaultyRule == [rule |-> Rule(MCTerminal, "exact", <<"a">>, NoField, "write"), faults |-> {"action"}]
NotARule == [rule |-> Rule(MCTerminal, "exact", <<"a">>, NoField, "write"), faults |-> {"object"}]

Lists(S, n) == UNION {[1..k -> S] : k \in 0..n}

Entry(name, tokens, description) == [name |-> name, tokens |-> tokens, description |-> description]

Entries ==
  {Entry(<<"m">>, <<"get">>, <<>>), Entry(<<"m">>, <<"sync">>, <<"delete">>),
   Entry(<<"m">>, <<"get">>, <<"delete">>), Entry(<<"m">>, <<"get">>, <<"cannot", "list">>),
   Entry(<<"n">>, <<"sync", "get">>, <<"list">>), Entry(<<"n">>, <<"sync">>, <<"cannot">>),
   Entry(<<"k">>, <<"get">>, <<>>), Entry(<<"t">>, <<"delete">>, <<>>), Entry(NoName, <<"get">>, <<>>)}

Setup(header, raw, registry, readable, allowed) ==
  [header |-> header, raw |-> raw, registry |-> registry, readable |-> readable, allowed |-> allowed]

MCSetups ==
  {Setup({}, raw, <<>>, FALSE, FALSE) :
     raw \in Lists({Sound(r) : r \in TerminalRules}, MaxRules)
             \cup Lists({Sound(r) : r \in OtherRules} \cup {FaultyRule, NotARule}, MaxRules)}
  \cup {Setup(header, <<>>, <<>>, FALSE, FALSE) : header \in {{"version"}, {"rules"}}}
  \cup {Setup({}, raw, registry, readable, allowed) :
          raw \in Lists({Sound(r) : r \in McpRules}, 1) \cup {<<FaultyRule>>},
          registry \in Lists(Entries, 2), readable \in BOOLEAN, allowed \in BOOLEAN}

Args(command, path, file_path) == [command |-> command, path |-> path, file_path |-> file_path]

MCCallSet ==
  {[tool |-> MCTerminal, args |-> Args(c, NoText, NoText)] :
     c \in {NoText, <<"a">>, <<"a", Blank, "b">>, <<Blank, "a", Blank, Blank, "b", Blank>>, <<"a", "b">>}}
  \cup {[tool |-> <<"p">>, args |-> Args(NoText, p, f)] : p \in {NoText, <<"a">>}, f \in {NoText, <<"a", "b">>}}
  \cup {[tool |-> m, args |-> Args(NoText, <<"m">>, NoText)] : m \in MCMcpTools}
=============================================================================
