--------------------------- MODULE MCImportConsole ---------------------------
(***************************************************************************)
(* TLC instances of ImportConsole.                                         *)
(***************************************************************************)
EXTENDS ImportConsole

MCWorks ==
  {[parts |-> {}, uploads |-> 2], [parts |-> {"group"}, uploads |-> 0],
   [parts |-> {"draft"}, uploads |-> 0]}

\* An operator who edits the product form while uploads finish.
EditAndUpload == {[parts |-> {"group"}, uploads |-> 1]}

=============================================================================
