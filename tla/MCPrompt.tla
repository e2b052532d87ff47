------------------------------ MODULE MCPrompt ------------------------------
(* A prompt of one cell, a row that prompt and line fill exactly, and notices
   as wide as a row. *)
EXTENDS Prompt

\* One name that can be typed, and one that begins with another letter.
MCNames == {<<"a", "a">>, <<"0", "a">>}
MCPromptText == <<">">>
MCWords == <<"w", "w", "w">>
===============================================================================
