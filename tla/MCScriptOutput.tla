---- MODULE MCScriptOutput ----
EXTENDS ScriptOutput
====
