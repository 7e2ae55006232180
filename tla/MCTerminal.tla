----------------------------- MODULE MCTerminal -----------------------------
(* Values for TLC: a short buffer, and a key of every kind gets tells apart. *)
EXTENDS Terminal

MCKeys == {"a", "b", "DEL", "EOT", "CR"}

=============================================================================
