--------------------------- MODULE MCAmqpMessengers ---------------------------
(***************************************************************************)
(* Instances for TLC of the messengers of an AMQP device, the one for           *)
(* telemetry and the one for the twin.  They share no state: a behaviour         *)
(* exercises one of them, and the other stays as it began.                        *)
(***************************************************************************)
EXTENDS AmqpTelemetry, AmqpTwin

VARIABLE which
messengerVars == <<which, telVars, twinVars>>

MessengersInit == which \in {"telemetry", "twin"} /\ TelInit /\ TwinInit

MessengersNext ==
  /\ UNCHANGED which
  /\ \/ which = "telemetry" /\ TelNext /\ UNCHANGED twinVars
     \/ which = "twin" /\ TwinNext /\ UNCHANGED telVars

MessengersSpec == MessengersInit /\ [][MessengersNext]_messengerVars
=============================================================================
