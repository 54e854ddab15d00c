------------------------------- MODULE MCVga -------------------------------
(***************************************************************************)
(* A screen of 4 columns and 3 rows with tab stops every 2 columns.  Tabs go *)
(* on past the last column, as they do in the code, and over a whole further *)
(* line: a character then leaves the buffer from the second row too.         *)
(***************************************************************************)
EXTENDS Vga

MCControls == {"newline", "return", "tab", "backspace"}
=============================================================================
