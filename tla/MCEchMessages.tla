---------------------------- MODULE MCEchMessages ----------------------------
(* Three transactions that store messages for two services.                *)
EXTENDS EchMessages

=============================================================================
