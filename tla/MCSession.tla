----------------------------- MODULE MCSession -----------------------------
(* The set-up of sessions with one launcher and up to three togglers, so   *)
(* that tracing can be stopped, started and stopped again in every way     *)
(* the tool offers.                                                        *)
EXTENDS Session
=============================================================================
