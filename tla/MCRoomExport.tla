---------------------------- MODULE MCRoomExport ----------------------------
(* Instances of RoomExport for TLC. *)
EXTENDS RoomExport, TLC

MCKeys == Jobs \X (1..MaxClaims)
\* A full page exactly at the limit, and one room too many.
MCCatalogs == {{1, 2}, {1, 2, 3}}
=============================================================================
