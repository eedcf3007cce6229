-------------------------------- MODULE Names --------------------------------
(***************************************************************************)
(* The names of prepared statements and portals: those the application     *)
(* presents, and the rewritten ones that are sent to the server.  The      *)
(* empty name is of both kinds.                                            *)
(***************************************************************************)
CONSTANTS
  ClientNames,
  UpstreamNames,
  Unnamed

ASSUME NamesAssumption == Unnamed \in ClientNames /\ Unnamed \in UpstreamNames
=============================================================================
