----------------------------- MODULE MCDocsPage -----------------------------
(* Every widget of the site on small instances, one per page. *)
EXTENDS DocsPage
=============================================================================
