------------------------------ MODULE MCJobEnv ------------------------------
(***************************************************************************)
(* Templates of one and of two containers; in each container the variable  *)
(* is absent, first, or last.                                              *)
(***************************************************************************)
EXTENDS JobEnv

MCEnvs == { <<>>, <<"A">>, <<"URL">>, <<"URL", "A">>, <<"A", "URL">> }

MCTemplates == {<<e>> : e \in MCEnvs} \union {<<e, f>> : e, f \in MCEnvs}

=============================================================================
