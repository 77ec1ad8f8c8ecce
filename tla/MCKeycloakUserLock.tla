-------------------------- MODULE MCKeycloakUserLock --------------------------
(* One person, one administrator, the two cron jobs and the update of the   *)
(* Personalnummer at a time, and enough rows for a lock of each occasion.   *)
EXTENDS KeycloakUserLock, TLC

CONSTANTS x1, a1
=============================================================================
