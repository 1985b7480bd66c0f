------------------------------ MODULE MCSurfaces ------------------------------
(* Projects and commands for the model checking of Surfaces. *)
EXTENDS Surfaces

\* What the targets and the scores of the bindings tell apart: one surface of
\* each kind, one editor with its autostart file and one wrapper.
SomeFiles == {"AGENTS.md", ".cursor", ".cursor/autostart.json", ".vscode",
              ".github/workflows", "docs", ".atrakta/wrap/vscode.sh"}

\* A binding with other targets than those detected, and an id that has none.
NamedInterfaces == {"", "cursor", "zed"}
AllPlaces == Place
=============================================================================
