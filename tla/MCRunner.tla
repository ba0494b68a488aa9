------------------------------ MODULE MCRunner ------------------------------
(* NodeRunner over every kind of Node, each with and without a contract and *)
(* a timeout, and a command that may fork two children.                     *)
EXTENDS NodeRunner

MCDeclared == NodeShape
MCChildren == {"child", "grandchild"}
=============================================================================
