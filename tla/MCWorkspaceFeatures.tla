------------------------ MODULE MCWorkspaceFeatures ------------------------
(* Values of the constants of WorkspaceFeatures for TLC.                   *)
EXTENDS WorkspaceFeatures

(* Values with blanks around and within, with an escape, with the name of  *)
(* another variable, and with a second line that reads like one.           *)
ValuesValue ==
  {<<>>, <<Blank, "word">>, <<"word", Blank, "PATH", Escape>>,
   <<"word", Newline, "HOME", "word">>}
=============================================================================
