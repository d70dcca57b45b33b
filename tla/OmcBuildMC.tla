----------------------------- MODULE OmcBuildMC -----------------------------
(* Two archives with a function of their own each, one that both have and one *)
(* that omcweb_stubs.c replaces; one function is declared and nowhere else,   *)
(* another one is only in omcweb_stubs.c.                                     *)
EXTENDS OmcBuild

MCLibrary ==
    {<<"runtime", "ticks">>, <<"runtime", "both">>, <<"runtime", "replaced">>,
     <<"parser", "parse">>, <<"parser", "both">>}
=============================================================================
