--------------------------- MODULE LspDocumentsMC ---------------------------
(* Two documents in one directory of the project, of which the second may  *)
(* lie outside the source roots or be the build script.                    *)
EXTENDS LspDocuments, TLC

CONSTANTS main, other

DirMC == main :> "p" @@ other :> "p"
LayoutsMC == {{main}, {main, other}}
=============================================================================
