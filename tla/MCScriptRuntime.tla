---------------------------- MODULE MCScriptRuntime ----------------------------
(* Instances of ScriptRuntime for TLC: a script that uses everything and one *)
(* that uses nothing.                                                        *)
EXTENDS ScriptRuntime

AllUses == [watches |-> TRUE, runs |-> TRUE, handles |-> TRUE]
SomeScripts == {AllUses, NoScript}
================================================================================
