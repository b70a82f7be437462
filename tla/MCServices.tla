------------------------------ MODULE MCServices ------------------------------
(***************************************************************************)
(* Instances for TLC of the provisioning client, the TPM authentication it     *)
(* uses, and the clients of the services.  They share no state: a behaviour      *)
(* exercises the one it chose, and the others stay as they began.                 *)
(***************************************************************************)
EXTENDS Provisioning, TpmSasl, ServiceMessaging, ServiceRequests, EnrollmentService

VARIABLE which
servicesVars == <<which, provVars, saslVars, smVars, requestVars, enrollmentVars>>

MCAttestations == {[type |-> "tpm", secondary |-> "none"], [type |-> "signing", secondary |-> "c2"],
                   [type |-> "caReferences", secondary |-> "none"]}

ServicesInit ==
  /\ which \in {"provisioning", "tpm", "messaging", "requests", "enrollments"}
  /\ ProvInit /\ SaslInit /\ MessagingInit /\ RequestInit /\ EnrollmentInit

OthersStand ==
  /\ UNCHANGED which
  /\ IF which = "provisioning" THEN TRUE ELSE UNCHANGED provVars
  /\ IF which = "tpm" THEN TRUE ELSE UNCHANGED saslVars
  /\ IF which = "messaging" THEN TRUE ELSE UNCHANGED smVars
  /\ IF which = "requests" THEN TRUE ELSE UNCHANGED requestVars
  /\ IF which = "enrollments" THEN TRUE ELSE UNCHANGED enrollmentVars

\* Bound: feedback, of every kind, is received by a client that sends one message at most.
FewerSendsWithFeedback == feedback' = <<>> \/ sends' <= 1

ServicesNext ==
  \/ which = "provisioning" /\ ProvNext /\ OthersStand
  \/ which = "tpm" /\ SaslNext /\ OthersStand
  \/ which = "messaging" /\ MessagingNext /\ FewerSendsWithFeedback /\ OthersStand
  \/ which = "requests" /\ RequestNext /\ OthersStand
  \/ which = "enrollments" /\ EnrollmentNext /\ OthersStand

ServicesSpec == ServicesInit /\ [][ServicesNext]_servicesVars /\ ProvFairness
=============================================================================
