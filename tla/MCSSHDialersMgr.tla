-------------------------- MODULE MCSSHDialersMgr --------------------------
(* MCSSHRounds.cfg: two dialers and two rounds, so that a round meets the    *)
(* dialers and the winner of one that was given up.  MCSSHUsers.cfg: a user  *)
(* that dials while the manager reconnects, under fairness, without symmetry.*)
EXTENDS SSHDialersMgr, TLC

\* Dialers are interchangeable: Init fills the pool in every order.
Symmetry == Permutations(Dialers)
=============================================================================
