--------------------------- MODULE SietchProfiles ---------------------------
(* The players the Seven Nights know, each a profile of the portal.          *)
CONSTANT Profiles
=============================================================================
