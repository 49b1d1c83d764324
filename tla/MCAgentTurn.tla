---------------------------- MODULE MCAgentTurn ----------------------------
(***************************************************************************)
(* A small instance of AgentTurn for TLC: two tools that wait for a human, *)
(* one of them retried and one that may raise after it has done its work;  *)
(* one that is retried and can raise; one that writes and is not on the    *)
(* deny list; the delegation; and the tool of a plugin whose name a        *)
(* bundled package has taken, and which one of the documents points to by  *)
(* its path.                                                               *)
(***************************************************************************)
EXTENDS AgentTurn, TLC

MCTool == {"send_response", "create_pr", "fetch_issue", "add_memory", "plugin_tool", "task"}

PluginFile(path, stem, name, register, tools) ==
  [path |-> path, stem |-> stem, name |-> name, register |-> register, tools |-> tools,
   layer |-> tools # {}, scanned |-> TRUE]
MCFile ==
  <<PluginFile("bundled/lint/__init__.py", "__init__", "lint", "new", {}),
    PluginFile("user/broken.py", "broken", "broken", "fails", {}),
    PluginFile("user/lint.py", "lint", "lint", "old", {"plugin_tool"})>>

Raw(form, name, path, enabled, config) ==
  [form |-> form, name |-> name, path |-> path, enabled |-> enabled, config |-> config]
Valid(raws) == [form |-> "valid", entries |-> raws]
Absent == [form |-> "absent", entries |-> <<>>]
Invalid == [form |-> "invalid", entries |-> <<>>]
Bare == Raw("name", "lint", "", "true", "")
Pointing == Raw("object", "lint", "user/lint.py", "junk", "strict")
Disabling == Raw("object", "lint", "", "false", "")
MCDocument ==
  {<<Absent, Absent>>, <<Invalid, Valid(<<Disabling>>)>>,
   <<Absent, Valid(<<Bare, Pointing>>)>>,
   <<Valid(<<Pointing, Raw("junk", "", "", "", ""), Disabling>>), Absent>>}
=============================================================================
