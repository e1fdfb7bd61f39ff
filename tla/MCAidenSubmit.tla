---------------------------- MODULE MCAidenSubmit ----------------------------
(* AidenSubmit on small instances: a text with line ends of all kinds and a *)
(* character of two bytes, and white space.                                 *)
EXTENDS AidenSubmit

MCInput == {<<"CR", "LF", "lead", "cont", "CR">>, <<"SP", "LF">>}
=============================================================================
