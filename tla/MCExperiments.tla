--------------------------- MODULE MCExperiments ---------------------------
(* Two experiments and a file they may inherit from, as they may from each *)
(* other and from themselves.  Two cases, one of them answerable.          *)
EXTENDS Experiments

MCSuite == <<"one", "two">>
=============================================================================
