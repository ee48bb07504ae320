---------------------------- MODULE MCConnection ----------------------------
(***************************************************************************)
(* Instances of Connection. page and none are GET requests with and        *)
(* without a document behind their path, form is a POST to page's path.    *)
(***************************************************************************)
EXTENDS Connection
=============================================================================
