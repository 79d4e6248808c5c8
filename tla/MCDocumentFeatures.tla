------------------------ MODULE MCDocumentFeatures ------------------------
(* Values of the constants of DocumentFeatures for TLC.                    *)
EXTENDS DocumentFeatures

(* Texts with blanks before, newlines around and between the words, and    *)
(* one that ends without a newline.                                        *)
TextsValue ==
  {<<>>, <<"a">>, <<Space, "a", NL>>, <<"a", NL, Space, "a">>}

InsertsValue == {<<"b">>, <<NL, "b">>}
=============================================================================
