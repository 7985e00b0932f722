----------------------------- MODULE MC_Server -----------------------------
(***************************************************************************)
(* The server for TLC, with at most one item from a request, and a map     *)
(* that comes from the flusher otherwise.                                  *)
(***************************************************************************)
EXTENDS Server

ServerInit ==
    /\ Init
    /\ Cardinality({x \in Items : by[x] = "http"}) <= 1
    /\ \A x \in Maps : by[x] # "parser"

ServerSpec == ServerInit /\ [][Next]_vars /\ Fairness
=============================================================================
