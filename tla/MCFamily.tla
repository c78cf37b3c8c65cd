------------------------------ MODULE MCFamily ------------------------------
(***************************************************************************)
(* Families of tasks checked in one run: the tasks of one of them are run, *)
(* the variables of the others keep their first value.                     *)
(***************************************************************************)
EXTENDS TaskFamily, Naturals, Sequences, SequencesExt, FiniteSets

CONSTANT None

VARIABLE family

Of(f) == family = f

=============================================================================
