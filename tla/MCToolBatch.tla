---------------------------- MODULE MCToolBatch ----------------------------
(***************************************************************************)
(* Instances of ToolBatch for TLC.  A tool is named for what it stands     *)
(* for: "shell" is gated and stops asynchronously when cancelled (a child  *)
(* process), "mcp" reports from inside its cancel hook (a pending MCP      *)
(* request or a Lua sleep), "plain" cannot be cancelled at all.            *)
(***************************************************************************)
EXTENDS ToolBatch

KindOf == [nm \in Names |-> CASE nm = "shell" -> "async"
                              [] nm = "mcp"   -> "sync"
                              [] OTHER        -> "none"]
\* "mcp" alone is removed and registered anew (an MCP server that restarts).
GensOf == [nm \in Names |-> IF nm = "mcp" THEN 2 ELSE 1]
\* Every two kinds of tool side by side, and an unknown name.
Pairs == {<<"shell", "mcp">>, <<"mcp", "plain">>, <<"plain", "shell">>,
          <<Unknown, "mcp">>}
OneHook == <<"h1">>
TopLevel == {0}
=============================================================================
