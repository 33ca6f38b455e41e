-------------------------- MODULE MCJudgeNamespace --------------------------
(***************************************************************************)
(* The templates of manifests/configmap.yaml in order, with one object for *)
(* those that behave alike: the namespace, its service, the binding, the   *)
(* local queue.                                                            *)
(***************************************************************************)
EXTENDS JudgeNamespace

MCObjects == 4
MCBinding == 3

=============================================================================
