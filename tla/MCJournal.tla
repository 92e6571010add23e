------------------------------ MODULE MCJournal ------------------------------
(***************************************************************************)
(* Instances of Journal for TLC: two processes that take turns.            *)
(***************************************************************************)
EXTENDS JournalInv

Perms == Permutations(Proc)
==============================================================================
