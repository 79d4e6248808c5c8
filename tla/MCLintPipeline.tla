---------------------------- MODULE MCLintPipeline ----------------------------
(***************************************************************************)
(* Small instances of LintPipeline: two documents, three linters of which  *)
(* one is not installed, and four configurations.                          *)
(***************************************************************************)
EXTENDS LintPipeline

MCFiles     == {"a.rb", "b.rb"}
MCLinters   == {"rubocop", "reek", "standard", "fasterer"}
MCSupported == {"rubocop", "reek", "standard"}
MCMissing   == {"standard"}

Three  == [on |-> {"rubocop", "reek", "standard"}, rootless |-> {}, folder |-> TRUE]
NoneOn == [on |-> {}, rootless |-> {}, folder |-> TRUE]
Legacy == [on |-> {"fasterer"}, rootless |-> {"fasterer"}, folder |-> TRUE]

\* "rubocop": true
Plain  == [on |-> {"rubocop"}, rootless |-> {"rubocop"}, folder |-> TRUE]

MCSettings         == {Three, NoneOn, Legacy, Plain}
DocumentedSettings == {Plain}
=============================================================================
