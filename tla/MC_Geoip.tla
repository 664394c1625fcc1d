------------------------------- MODULE MC_Geoip -------------------------------
(* Two geoip_lookup() calls, two addresses and one country, so that a     *)
(* value of the first call differs from the second's; the strings a test  *)
(* scrubs hold the address twice.                                          *)
EXTENDS ProbeScrub

MCRealIps == {"10.0.0.1", "10.0.0.10"}
MCCountries == {"IT"}
=============================================================================
