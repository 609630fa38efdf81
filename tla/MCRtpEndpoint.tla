--------------------------- MODULE MCRtpEndpoint ---------------------------
(***************************************************************************)
(* RtpEndpoint with the owner and two more threads, so that a writer, a    *)
(* stop under way and a second stop meet; three attempts leave up to two   *)
(* sessions behind before one succeeds.                                    *)
(***************************************************************************)
EXTENDS RtpEndpoint
=============================================================================
