---------------------------- MODULE MCRetrieval -----------------------------
(* A small instance of Retrieval for TLC. *)
EXTENDS Retrieval

CONSTANTS decision, pattern

MCOrder == <<"serena", "mempalace", "claude_context">>

\* Serena with its three tools for the start; MemPalace with a probe or with two tools whose
\* names are the same without the prefix; claude-context without the probe.
SerenaTools == {"activate_project", "check_onboarding_performed", "onboarding", "probe"}
MCListings == [serena |-> {SerenaTools},
               mempalace |-> {{"probe"}, {"get", "mempalace_get"}},
               claude_context |-> {{"search_code"}}]
MCShort == [serena |-> [t \in SerenaTools |-> t],
            mempalace |-> [probe |-> "probe", get |-> "get", mempalace_get |-> "get"],
            claude_context |-> [search_code |-> "search_code"]]
MCProbe == [u \in {"serena", "mempalace", "claude_context"} |-> "probe"]

\* The chunk at line 4 comes with a symbol.
At(l, c) == [path |-> 1, start |-> l, end |-> l + 1, camel |-> c, given |-> l = 4]
MCChunk == {At(0, TRUE), At(2, TRUE), At(2, FALSE), At(4, TRUE)}
Span(l, h) == [lo |-> l, hi |-> h, camel |-> FALSE]
MCOverview == << <<{Span(0, 9), Span(2, 4)}>>, <<{Span(1, 9), Span(2, 3), Span(3, 6)}>> >>
MCRow == {[path |-> 1, lo |-> 1, hi |-> 9], [path |-> 1, lo |-> 2, hi |-> 5]}
MCResults == [vec |-> {<<At(0, TRUE), At(2, TRUE), At(4, TRUE)>>, <<At(2, FALSE), At(2, TRUE)>>},
              mem |-> {<<1, 2>>}, kg |-> {<<1, 2, 3>>}]
MCFactLists == {<<[object |-> pattern, subject |-> decision]>>}
MCLimits == {2, 1, 0, -1}
MCMenu == [r \in Call |-> {"where", "vec", "why", "proxy", "health", "contradicts"}]
=============================================================================
