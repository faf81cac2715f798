------------------------------ MODULE MCSecrets ------------------------------
(* Two platform Secrets, one for each condition a Secret may be needed on. *)
EXTENDS Secrets
CONSTANTS live, keycloak
MCPlatform == <<live, keycloak>>
=============================================================================
