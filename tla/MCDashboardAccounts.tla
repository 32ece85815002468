------------------------ MODULE MCDashboardAccounts ------------------------
(* Two accounts, and the older credential file on the first start. *)
EXTENDS DashboardAccounts
=============================================================================
