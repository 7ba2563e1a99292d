----------------------------- MODULE MCTerminal -----------------------------
(* The instance of module Terminal that TLC checks. *)
EXTENDS Terminal

CONSTANTS a, c

MCOptions == {[mouse |-> TRUE, follow |-> FALSE], [mouse |-> FALSE, follow |-> TRUE]}
MCPastes == {<<c, "newline", "control">>}
=============================================================================
