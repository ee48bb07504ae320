---------------------------- MODULE MCWebBinder -----------------------------
(***************************************************************************)
(* The directory html with a file page and a directory sub with a file     *)
(* deep. The URLs are those main binds, some below them, and one to which  *)
(* only the characters of a bound URL lead.                                *)
(***************************************************************************)
EXTENDS WebBinder, TLC

html == <<"html">>
sub  == <<"html", "/", "sub">>
page == <<"html", "/", "page">>
deep == <<"html", "/", "sub", "/", "deep">>

MCPiece == {"/", "html", "sub", "page", "deep"}

MCDirPath == {html, sub}
MCFilePath == {page, deep}

MCUrl == {<<"/">>, <<"/", "html">>, <<"/", "html", "/", "page">>,
          <<"/", "html", "/", "sub">>, <<"/", "html", "page">>}

MCBindUrl == {<<"/">>, <<"/", "html">>, <<"/", "html", "/", "page">>}

MCHolds == (page :> {<<>>, <<1>>, <<1, 2>>, <<3>>}) @@ (deep :> {<<1>>})
=============================================================================
