----------------------------- MODULE MCFirewall -----------------------------
(* A small instance of Firewall for TLC: the model values its configurations *)
(* are made of, and the one it starts with.                                  *)
EXTENDS Firewall

CONSTANTS c1, c2, open, shut, off

MCInit == Init /\ stored = open
MCSpec == MCInit /\ [][Next]_vars /\ Fairness
=============================================================================
