---------------------------- MODULE MCTlsBridge ----------------------------
(* The TLS bridge with two slots: a slot that is used three times over, two  *)
(* connections at a time of which one may break off, and three tabs that  *)
(* ask for the two slots at once.                                            *)
EXTENDS TlsBridge

OneByOne == [conns |-> 3, together |-> 1, data |-> 2, reqs |-> 2, faulty |-> Conns]
SideBySide == [conns |-> 2, together |-> 2, data |-> 1, reqs |-> 0, faulty |-> {1}]
TooMany == [conns |-> 3, together |-> 3, data |-> 0, reqs |-> 0, faulty |-> {}]

AllLoads == {OneByOne, SideBySide, TooMany}
=============================================================================
