----------------------------- MODULE MCAdminStore -----------------------------
(* A small instance of AdminStore: pushes of no policy, or of one with a rule. *)
EXTENDS AdminStore

MCDesired == {<<>>, <<1>>}
=============================================================================
