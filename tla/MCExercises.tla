----------------------------- MODULE MCExercises -----------------------------
(* Instances of Exercises for TLC.                                         *)
EXTENDS Exercises

(* More characters than cells, so that the producer has to wait; all       *)
(* different, so that every exchange of two of them shows.                 *)
SevenCharacters == <<"b", "o", "n", "j", "u", "r", "!">>
=============================================================================
