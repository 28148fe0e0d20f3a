----------------------------- MODULE MCSDKClient -----------------------------
(***************************************************************************)
(* SDKClient on small instances.                                           *)
(***************************************************************************)
EXTENDS SDKClient
=============================================================================
