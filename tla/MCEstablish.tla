---------------------------- MODULE MCEstablish ----------------------------
(* Every TLS mode of the client against every TLS policy of the server.     *)
EXTENDS Establish
=============================================================================
