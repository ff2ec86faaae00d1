--------------------------- MODULE MCCredentials ---------------------------
(* Instances of Credentials for TLC. *)
EXTENDS Credentials

mItems == {"bs_key", "bs_uri", "ca", "cert", "key", "uri"}
=============================================================================
