--------------------------- MODULE MCPlatformDelivery --------------------------
(* A small instance of PlatformDelivery and PlatformAuthority for TLC.         *)
EXTENDS PlatformAuthority
================================================================================
