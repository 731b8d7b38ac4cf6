------------------------------ MODULE MCToolbox ------------------------------
(* A working directory w with a file f, a name g and a link l to a file h       *)
(* outside it; agents without a sandbox, with one and with a catalog.           *)
EXTENDS Toolbox
CONSTANTS w, f, g, h, l, x, y, n1, n2, box, shut, s1, s2, k1

MCPaths == {w, f, g, h, l}
MCUp == [p \in MCPaths |-> IF p \in {f, g, l} THEN {w} ELSE {}]
MCLinks == l :> h
MCTrees == {w :> Dir @@ f :> <<x, y>> @@ h :> <<y>> @@ [p \in MCPaths |-> Absent]}

MCCategory == [t \in FileTools \cup Programs |-> "impl"] @@
              [t \in MemoryTools \cup {"write_todos", "read_todos"} |-> "internal"]
MCTools == DOMAIN MCCategory
MCProfiles == box :> [read |-> {}, write |-> {w}, hidden |-> {}] @@
              shut :> [read |-> {w}, write |-> {g}, hidden |-> {h}]

All(cat) == [neg |-> FALSE, cat |-> cat, names |-> MCTools]
Some(names) == [neg |-> FALSE, cat |-> "*", names |-> names]
Without(names) == [neg |-> TRUE, cat |-> "*", names |-> names]
Whole == [refs |-> {All("impl"), All("internal")}, catalog |-> FALSE, skills |-> {k1},
          skillCatalog |-> FALSE, subs |-> <<>>, sandboxed |-> FALSE, profiles |-> <<>>]
\* A subagent that edits and runs commands, and reads and writes the memory.
Helper == [Whole EXCEPT !.refs = {[All("impl") EXCEPT !.names = {"edit_file", "run_command"}],
                                  [All("internal") EXCEPT !.names = {"write_memory_file", "read_memory_file"}]}]
Free == [Whole EXCEPT !.subs = s1 :> Helper]
\* Commands run outside, deletions match two profiles, insertions none.
Bound == [Whole EXCEPT !.sandboxed = TRUE, !.profiles =
            <<[patterns |-> {All("*"), Without({"run_command", "insert_at_line", "write_file"})},
               backend |-> box],
              [patterns |-> {Some({"run_command"})}, backend |-> None],
              [patterns |-> {Some({"write_file", "delete_file"})}, backend |-> shut]>>]
Listed == [Bound EXCEPT !.catalog = TRUE, !.skillCatalog = TRUE,
             !.refs = {All("impl"), [All("internal") EXCEPT !.names = {"read_memory_file"}]}]

Call(t) == [tool |-> t, of |-> None, path |-> f, absolute |-> FALSE, olds |-> <<>>, line |-> 1,
            moves |-> <<>>, name |-> n1, sub |-> s1, bad |-> FALSE, large |-> FALSE]
On(t, p) == [Call(t) EXCEPT !.path = p]
Large(q) == [q EXCEPT !.large = TRUE]
Direct ==
  {On("write_file", f), On("write_file", g), Large(On("run_command", f)), On("delete_file", f),
   [Call("edit_file") EXCEPT !.olds = <<x>>], [Call("insert_at_line") EXCEPT !.line = 3],
   [Call("move_multiple_files") EXCEPT !.moves = <<<<f, g>>, <<g, h>>>>],
   [Call("move_multiple_files") EXCEPT !.moves = <<<<f, g>>, <<h, g>>>>],
   Large(On("read_file", l))}
State ==
  {Call("write_memory_file"), [Call("edit_memory_file") EXCEPT !.olds = <<1>>],
   [Call("write_memory_file") EXCEPT !.name = n2], Call("write_todos"), Call("task"),
   [Call("task") EXCEPT !.sub = s2]}
Through == {[q EXCEPT !.tool = "run_tool", !.of = q.tool] :
              q \in {On("run_command", f), [Call("edit_file") EXCEPT !.olds = <<x>>]}}
Lookup == {[Call("get_skill") EXCEPT !.of = k1], [Call("get_tool") EXCEPT !.of = "edit_file"],
           Call("read_memory_file")}
MCForms == Direct \cup State \cup Through \cup Lookup

\* Agents that only delegate, to subagents that make two calls each.
Delegating(cat, names) ==
  [Whole EXCEPT !.refs = {},
                !.subs = s2 :> [Whole EXCEPT !.refs = {[All(cat) EXCEPT !.names = names]}]]
Editing == Delegating("impl", {"edit_file"})
Planning == Delegating("internal", {"write_todos"})
MCConfigs == {Free, Bound, Listed, Editing, Planning}
MCMaxTask == s1 :> 1 @@ s2 :> 2
=============================================================================
