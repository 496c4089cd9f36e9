--------------------------- MODULE MCProvisioning ---------------------------
(* One launch; the configurations add two resumers and a cleaner, or only  *)
(* one resumer for the shortest race.                                      *)
EXTENDS Provisioning
=============================================================================
