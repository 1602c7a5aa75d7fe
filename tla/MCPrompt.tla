------------------------------ MODULE MCPrompt ------------------------------
(* Prompts of a few keys, held for one or two repeats. *)
EXTENDS Prompt

MCLinuxLines == {<<>>, <<"letter">>, <<"astral", "space">>}
=============================================================================
