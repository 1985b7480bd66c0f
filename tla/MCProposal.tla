------------------------------ MODULE MCProposal ------------------------------
(* Projects and texts for the model checking of Proposal. *)
EXTENDS Proposal

\* Assets of every kind that a rule of the inference looks at: two guidance
\* surfaces, a directory whose text is read, and manifests that conflict.
SomeAssets == {"AGENTS.md", ".cursor", "scripts", "package.json", "Cargo.toml"}

\* Nothing to see, a script that destroys, or a secret.
SomeTexts == {{}, {"script", "destructive"}, {"secret"}}
=============================================================================
