----------------------------- MODULE MCUpdater -----------------------------
(* The version first installed, one that differs in the third number, one with
   only two numbers, and one whose number does not fit an int. *)
EXTENDS Updater
Installed == <<1, 0, 1>>
Releases == {<<1, 0, 1>>, <<1, 0, 2>>, <<1, 1>>, <<99>>}
=============================================================================
