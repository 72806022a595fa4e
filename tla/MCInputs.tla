------------------------------ MODULE MCInputs ------------------------------
(***************************************************************************)
(* What the small instances are given: documents and sessions for a load,  *)
(* command lines, servers to try, names and batches for tool calls, worlds *)
(* for entity handles.                                                     *)
(***************************************************************************)
EXTENDS ToolCalls

\* WorkspaceLoad: the first document has a script and two windows of one name.
MCPlans == <<[name |-> "a", windows |-> <<"w", "w">>, script |-> TRUE],
             [name |-> "b", windows |-> <<"">>, script |-> FALSE]>>

User(name, windows) == 1 :> [name |-> name, windows |-> windows, set |-> FALSE]

MCInherited == {<<>>, User("user", <<"sh">>), User("a", <<"w", "w">>), User("a", <<"w">>),
                User("b", <<"x">>)}

\* WorkspaceCommand: each command in each mode; loads with a log at three
\* levels; a terminal to give away; a destination and --force.
CommandLine(command, mode) ==
  [command |-> command, mode |-> mode, saves |-> FALSE, force |-> FALSE,
   terminal |-> FALSE, logged |-> FALSE, level |-> "warning"]

MCCommandLines ==
  {CommandLine(command, mode) :
     command \in {"load", "shell", "edit", "ls"}, mode \in {"human", "json", "ndjson"}}
  \cup {[CommandLine("load", mode) EXCEPT !.logged = TRUE, !.level = level] :
     mode \in {"human", "ndjson"}, level \in {"debug", "warning", "error"}}
  \cup {[CommandLine(command, "human") EXCEPT !.terminal = TRUE] :
     command \in {"load", "shell", "edit"}}
  \cup {[CommandLine("edit", "ndjson") EXCEPT !.terminal = TRUE]}
  \cup {[CommandLine(command, mode) EXCEPT !.saves = saves, !.force = force] :
     command \in {"freeze", "convert"}, mode \in {"human", "json", "ndjson"},
     saves \in BOOLEAN, force \in BOOLEAN}

\* Preflight: good servers in three ways of writing, and six that are not.
Write(line, part) == [line |-> line, part |-> part]
Whole(line) == Write(line, "whole")

MCScripts ==
  {<<Whole("init"), Whole("tools")>>,
   <<Whole("note"), Whole("init"), Write("tools", "half"), Write("tools", "rest")>>,
   <<Whole("init"), Write("tools", "bare")>>,
   <<Whole("init"), Whole("tools"), Whole("tools")>>,
   <<Whole("garbage")>>, <<Whole("wrong"), Whole("tools")>>, <<Whole("init"), Whole("partial")>>,
   <<Whole("init"), Whole("note"), Whole("note"), Whole("note"), Whole("note")>>}

\* ToolCalls: one session name begins with another.
Alpha == <<"al", "pha">>
MCNames == {Alpha, Alpha \o <<"bet">>, <<"x">>}

MCToolCalls ==
  {[tool |-> tool, session |-> Alpha, ops |-> <<>>, stop |-> FALSE] :
     tool \in DOMAIN Definitions \ {"call_read_tools_batch"}}
  \cup {[tool |-> "show_environment", session |-> None, ops |-> <<>>, stop |-> FALSE]}
  \cup {[tool |-> "call_read_tools_batch", session |-> Alpha, ops |-> <<a, b>>, stop |-> stop] :
          a, b \in {"list_windows", "capture_pane", "search_panes", "show_environment",
                    "kill_session"},
          stop \in BOOLEAN}

MCSelections ==
  [toolsets : {None, {}, {"inspect"}, {"manage", "teardown"}},
   include : {{}, {"call_read_tools_batch", "kill_pane"}},
   exclude : {{}, {"capture_pane", "kill_pane"}}]
  \cup {[toolsets |-> {"inspect", "tear-down"}, include |-> {}, exclude |-> {}],
        [toolsets |-> None, include |-> {}, exclude |-> {"kill_panes"}]}

\* Entities: w1 holds p1 and p2 and is linked into both sessions, w2 holds p3;
\* w3 and p4 are unused.
MCSessions == {"s1", "s2"}
MCWindows == {"w1", "w2", "w3"}
MCPanes == {"p1", "p2", "p3", "p4"}
MCBuffers == {"b1", "b2"}

EntityWorld(links) ==
  [links |-> links,
   home |-> [p \in MCPanes |-> IF p \in {"p1", "p2"} THEN "w1" ELSE IF p = "p3" THEN "w2" ELSE None],
   name |-> [w \in MCWindows |-> "given"],
   buffers |-> MCBuffers, used |-> {"w1", "w2", "p1", "p2", "p3"}]

MCWorlds == {EntityWorld({<<"s1", "w1">>, <<"s1", "w2">>, <<"s2", "w1">>})}
=============================================================================
