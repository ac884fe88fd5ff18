----------------------------- MODULE MCDBConfig -----------------------------
(* Two keys, so that a map can be half read; the timer and one other caller  *)
(* of UpdateDBF; Open twice, so that a connection is replaced under a load;  *)
(* one change of the table and one failure, at any time.                     *)
EXTENDS DBConfig
=============================================================================
