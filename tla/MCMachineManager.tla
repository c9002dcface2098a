-------------------------- MODULE MCMachineManager --------------------------
(* Two machines; an observer that begins with no list, with a list of one  *)
(* of them, or with one of both.                                           *)
EXTENDS MachineManager, TLC

MCManaged == <<1, 2>>

MCLists == {<<>>, <<1>>, <<2, 1>>}

Names == Permutations(Process)
=============================================================================
