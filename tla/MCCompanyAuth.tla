----------------------------- MODULE MCCompanyAuth -----------------------------
(* The small instance of CompanyAuth for TLC; its cfg gives the constants. *)
EXTENDS CompanyAuth
=============================================================================
