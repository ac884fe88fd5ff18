----------------------------- MODULE MCCuidGen -----------------------------
(* MCCuidGen.cfg: a counter of two bits (values 1 and 2 in use inside a      *)
(* second) and two InitCuidDev calls, so that a second is used up or wraps,  *)
(* a second begins at the end of the counter, the clock runs past timeMax    *)
(* and below zero, and two generators run.  MCCuidLayout.cfg: the encoding.  *)
EXTENDS CuidGen

\* A negative one, none, a valid one and one that is too large.
SomeDevIDs == {-1, 0, 1, 4}
=============================================================================
