--------------------------- MODULE EnrollmentService ---------------------------
(***************************************************************************)
(* The service client of device provisioning (provisioning_service_client.c):   *)
(* enrollments with their attestation mechanism and initial twin are written as    *)
(* JSON, sent with the version that was read, read back, deleted, queried page by   *)
(* page and changed in bulk.  The provisioning service is external.                  *)
(*                                                                         *)
(* A JSON object is a record that has only the fields that were written.             *)
(***************************************************************************)
EXTENDS Naturals, Integers, Sequences, FiniteSets

CONSTANTS
  Individuals, Groups,   \* registration ids and group ids
  Own,                   \* bound: those the application enrols, reads and writes
  Attestations,          \* bound: the kinds of attestation that are made, with their second certificate or key
  MaxEdits,              \* bound: changes of an enrollment
  MaxRequests,           \* bound: REST calls of the application
  MaxForeign             \* bound: writes of other services

\* A service holds finitely many enrollments, and the application's are some of them; ids say of which kind they are.
ASSUME EnrollmentsAssumption ==
  /\ IsFiniteSet(Individuals) /\ Individuals \cap Groups = {}
  /\ Own \subseteq Individuals \cup Groups

None == "none"
Nothing == [op |-> "none", version |-> 0]

VARIABLES
  stored,      \* the service's records, with their version
  mechanism,   \* an attestation mechanism that is the application's
  handle,      \* the enrollment the application holds
  live,        \* attestation mechanisms allocated and not freed
  http_state, request, response,
  outcome,     \* how the last call ended
  cont_token, page, present, skipped,   \* a query in progress
  seen,        \* the version the application's enrollment was read at
  edits, requested, foreign

enrollmentVars == <<stored, mechanism, handle, live, http_state, request, response, outcome, cont_token, page, present,
                    skipped, seen, edits, requested, foreign>>
heldVars == <<mechanism, handle, live, seen, edits>>
queryVars == <<cont_token, page, present, skipped>>

-----------------------------------------------------------------------------
(* JSON *)

\* One field, and the fields of two objects, the first one's where they share them.
One(key, x) == [k \in {key} |-> x]
Join(f, g) == [k \in DOMAIN f \cup DOMAIN g |-> IF k \in DOMAIN f THEN f[k] ELSE g[k]]

\* A field that is not there is not written; one that is not found reads as NULL.
Field(key, x) == IF x = None THEN <<>> ELSE One(key, x)
copy_json_string_field(json, key) == IF key \in DOMAIN json THEN json[key] ELSE None

x509CertificateWithInfo_toJson(c) == Join(Field("certificate", c.certificate), Field("info", c.info))

\* The service answers with the information alone; a certificate without it cannot be read.
x509CertificateWithInfo_fromJson(json) ==
  [certificate |-> copy_json_string_field(json, "certificate"), info |-> copy_json_string_field(json, "info")]

x509Certificates_toJson(c) ==
  Join(One("primary", x509CertificateWithInfo_toJson(c.primary)),
       IF c.secondary = Nothing THEN <<>> ELSE One("secondary", x509CertificateWithInfo_toJson(c.secondary)))

x509Certificates_fromJson(json) ==
  [primary |-> x509CertificateWithInfo_fromJson(json.primary),
   secondary |-> IF "secondary" \in DOMAIN json THEN x509CertificateWithInfo_fromJson(json.secondary) ELSE Nothing]

x509CAReferences_toJson(c) == Join(Field("primary", c.primary), Field("secondary", c.secondary))
x509CAReferences_fromJson(json) ==
  [primary |-> copy_json_string_field(json, "primary"), secondary |-> copy_json_string_field(json, "secondary")]

x509Attestation_toJson(a) ==
  CASE a.type = "client" -> One("clientCertificates", x509Certificates_toJson(a.certificates))
    [] a.type = "signing" -> One("signingCertificates", x509Certificates_toJson(a.certificates))
    [] a.type = "caReferences" -> One("caReferences", x509CAReferences_toJson(a.certificates))

\* Mutant: the certificates of a signer are read as those of a client.
ReadsClient(json) ==
  [type |-> IF "caReferences" \in DOMAIN json THEN "caReferences" ELSE "client",
   certificates |-> IF "caReferences" \in DOMAIN json THEN x509CAReferences_fromJson(json.caReferences)
                    ELSE x509Certificates_fromJson(json[CHOOSE k \in DOMAIN json : TRUE])]

\* The kind of certificates is the key they are under.
x509Attestation_fromJson(json) ==
  CASE "clientCertificates" \in DOMAIN json -> [type |-> "client", certificates |-> x509Certificates_fromJson(json.clientCertificates)]
    [] "signingCertificates" \in DOMAIN json -> [type |-> "signing", certificates |-> x509Certificates_fromJson(json.signingCertificates)]
    [] "caReferences" \in DOMAIN json -> [type |-> "caReferences", certificates |-> x509CAReferences_fromJson(json.caReferences)]

tpmAttestation_toJson(a) == Join(Field("endorsementKey", a.certificates.primary), Field("storageRootKey", a.certificates.secondary))
tpmAttestation_fromJson(json) ==
  [type |-> "tpm", certificates |-> [primary |-> copy_json_string_field(json, "endorsementKey"),
                                     secondary |-> copy_json_string_field(json, "storageRootKey")]]

attestationMechanism_toJson(a) ==
  IF a.type = "tpm" THEN [type |-> "tpm", tpm |-> tpmAttestation_toJson(a)]
  ELSE [type |-> "x509", x509 |-> x509Attestation_toJson(a)]

attestationMechanism_fromJson(json) ==
  IF json.type = "tpm" THEN tpmAttestation_fromJson(json.tpm) ELSE x509Attestation_fromJson(json.x509)

twinCollection_toJson(key, c) == Field(key, c)

twinProperties_toJson(twin) ==
  IF twin.desired = None THEN <<>> ELSE One("properties", twinCollection_toJson("desired", twin.desired))
twinProperties_fromJson(json) ==
  IF "properties" \in DOMAIN json THEN copy_json_string_field(json.properties, "desired") ELSE None

initialTwin_toJson(twin) == Join(twinCollection_toJson("tags", twin.tags), twinProperties_toJson(twin))
initialTwin_fromJson(json) == [tags |-> copy_json_string_field(json, "tags"), desired |-> twinProperties_fromJson(json)]

\* The times and the state of the registration are the service's and are not written.
Optional(e) ==
  Join(IF e.twin = Nothing THEN <<>> ELSE One("initialTwin", initialTwin_toJson(e.twin)),
       IF e.etag = 0 THEN <<>> ELSE One("etag", e.etag))

individualEnrollment_toJson(e) ==
  Join([registrationId |-> e.id, attestation |-> attestationMechanism_toJson(e.attestation), provisioningStatus |-> e.status],
       Join(Optional(e), Field("iotEdge", e.capabilities)))

enrollmentGroup_toJson(e) ==
  Join([enrollmentGroupId |-> e.id, attestation |-> attestationMechanism_toJson(e.attestation), provisioningStatus |-> e.status],
       Optional(e))

Common(json, id) ==
  [id |-> id, attestation |-> attestationMechanism_fromJson(json.attestation), status |-> json.provisioningStatus,
   twin |-> IF "initialTwin" \in DOMAIN json THEN initialTwin_fromJson(json.initialTwin) ELSE Nothing,
   etag |-> IF "etag" \in DOMAIN json THEN json.etag ELSE 0, capabilities |-> copy_json_string_field(json, "iotEdge")]

individualEnrollment_fromJson(json) == Common(json, json.registrationId)
enrollmentGroup_fromJson(json) == Common(json, json.enrollmentGroupId)

serializeToJson(e) == IF e.id \in Groups THEN enrollmentGroup_toJson(e) ELSE individualEnrollment_toJson(e)
deserializeFromJson(json) ==
  IF "enrollmentGroupId" \in DOMAIN json THEN enrollmentGroup_fromJson(json) ELSE individualEnrollment_fromJson(json)

-----------------------------------------------------------------------------
(* Enrollments in the hands of the application *)

\* Nothing is worth doing after the last request.
Idle == request = Nothing /\ requested < MaxRequests
Exists(x) == IF x = Nothing THEN 0 ELSE 1

\* A certificate is sent whole, a reference or a key as it is.
x509Attestation_create(type, secondary) ==
  LET Whole(c) == IF c = None THEN Nothing ELSE [certificate |-> c, info |-> None] IN
  [type |-> type,
   certificates |-> IF type \in {"client", "signing"} THEN [primary |-> Whole("c1"), secondary |-> Whole(secondary)]
                    ELSE [primary |-> "c1", secondary |-> secondary]]

attestationMechanism_create ==
  /\ Idle /\ mechanism = Nothing /\ (handle = Nothing \/ edits < MaxEdits)
  /\ \E a \in Attestations : mechanism' = x509Attestation_create(a.type, a.secondary)
  /\ live' = live + 1
  /\ UNCHANGED <<stored, handle, http_state, request, response, outcome, queryVars, seen, edits, requested, foreign>>

attestationMechanism_isValid(a, id) == a.type \in (IF id \in Groups THEN {"signing", "caReferences"} ELSE {"tpm", "client"})

\* A mechanism that is not valid stays the application's.
attestationMechanism_destroy == live' = live - 1

enrollment_create ==
  /\ Idle /\ handle = Nothing /\ mechanism # Nothing
  /\ \E id \in Own : attestationMechanism_isValid(mechanism, id)
       /\ handle' = [id |-> id, attestation |-> mechanism, status |-> "enabled", twin |-> Nothing, etag |-> 0,
                     capabilities |-> IF id \in Groups THEN None ELSE "edgeOff"]
  /\ mechanism' = Nothing /\ seen' = 0
  /\ UNCHANGED <<stored, live, http_state, request, response, outcome, queryVars, edits, requested, foreign>>

Edits == Idle /\ handle # Nothing /\ edits < MaxEdits /\ edits' = edits + 1

\* Mutant: the old mechanism is forgotten.
ForgetsMechanism ==
  /\ Edits /\ mechanism # Nothing /\ attestationMechanism_isValid(mechanism, handle.id)
  /\ handle' = [handle EXCEPT !.attestation = mechanism] /\ mechanism' = Nothing
  /\ UNCHANGED <<stored, live, http_state, request, response, outcome, queryVars, seen, requested, foreign>>

setAttestationMechanism ==
  /\ Edits /\ mechanism # Nothing /\ attestationMechanism_isValid(mechanism, handle.id)
  /\ handle' = [handle EXCEPT !.attestation = mechanism] /\ mechanism' = Nothing /\ attestationMechanism_destroy
  /\ UNCHANGED <<stored, http_state, request, response, outcome, queryVars, seen, requested, foreign>>

\* An empty twin is none.
initialTwin_create(tags, desired) == IF tags = None /\ desired = None THEN Nothing ELSE [tags |-> tags, desired |-> desired]

initialTwin_setTags(twin, tags) == [twin EXCEPT !.tags = tags]
initialTwin_setDesiredProperties(twin, desired) == [twin EXCEPT !.desired = desired]

\* A twin is made and may be changed before it is set.
setInitialTwin ==
  /\ Edits
  /\ \E tags, desired \in {None, "v"} :
       LET twin == initialTwin_create(tags, desired) IN
       \/ handle' = [handle EXCEPT !.twin = twin]
       \/ twin # Nothing /\ handle' = [handle EXCEPT !.twin = initialTwin_setTags(twin, None)]
       \/ twin # Nothing /\ handle' = [handle EXCEPT !.twin = initialTwin_setDesiredProperties(twin, None)]
  /\ UNCHANGED <<stored, mechanism, live, http_state, request, response, outcome, queryVars, seen, requested, foreign>>

setProvisioningStatus ==
  /\ Edits /\ handle.status = "enabled" /\ handle' = [handle EXCEPT !.status = "disabled"]
  /\ UNCHANGED <<stored, mechanism, live, http_state, request, response, outcome, queryVars, seen, requested, foreign>>

enrollment_destroy ==
  /\ Idle /\ handle # Nothing /\ handle' = Nothing /\ attestationMechanism_destroy /\ seen' = 0
  /\ UNCHANGED <<stored, mechanism, http_state, request, response, outcome, queryVars, edits, requested, foreign>>

-----------------------------------------------------------------------------
(* The calls, up to the request *)

\* Mutant: the version is not sent.
NoIfMatch(etag) == 0

construct_http_headers(etag) == etag

\* Mutant: the token is sent with the first page only.
ForgetsToken(token) == 0

add_query_headers(token) == token

Requests(r) ==
  /\ Idle /\ requested' = requested + 1
  /\ request' = r /\ outcome' = Nothing
  /\ UNCHANGED <<stored, heldVars, http_state, response, foreign>>

prov_sc_create_or_update_record ==
  /\ handle # Nothing
  /\ Requests([op |-> "put", id |-> handle.id, etag |-> construct_http_headers(handle.etag), json |-> serializeToJson(handle)])
  /\ UNCHANGED queryVars

prov_sc_delete_record_by_param ==
  /\ handle # Nothing
  /\ Requests([op |-> "delete", id |-> handle.id, etag |-> construct_http_headers(handle.etag)])
  /\ UNCHANGED queryVars

prov_sc_get_record ==
  /\ handle = Nothing
  /\ \E id \in Own : Requests([op |-> "get", id |-> id])
  /\ UNCHANGED queryVars

prov_sc_run_bulk_operation ==
  /\ handle # Nothing /\ handle.id \in Individuals
  /\ \E mode \in {"update", "delete"} :
       Requests([op |-> "bulk", mode |-> mode, id |-> handle.id, etag |-> handle.etag, json |-> serializeToJson(handle)])
  /\ UNCHANGED queryVars

\* A query without a token begins anew.
prov_sc_query_records ==
  /\ Requests([op |-> "query", token |-> add_query_headers(cont_token)])
  /\ IF cont_token = 0 THEN /\ page' = <<>> /\ skipped' = FALSE
                            /\ present' = {id \in Individuals : stored[id] # Nothing}
     ELSE UNCHANGED <<page, skipped, present>>
  /\ UNCHANGED cont_token

-----------------------------------------------------------------------------
(* The service *)

Order == CHOOSE o \in [1..Cardinality(Individuals) -> Individuals] : \A i, j \in DOMAIN o : o[i] = o[j] => i = j

\* Every write has a version of its own: the request is counted already, and so is another service's write.
Version(others) == 1 + requested + others

\* Of a certificate the service keeps what is in it.
Known(c) == IF "certificate" \in DOMAIN c THEN [info |-> c.certificate] ELSE c
Kept(json) ==
  LET Certificates(x) == [k \in DOMAIN x |-> IF k = "caReferences" THEN x[k] ELSE [w \in DOMAIN x[k] |-> Known(x[k][w])]]
  IN IF json.attestation.type = "tpm" THEN json ELSE [json EXCEPT !.attestation.x509 = Certificates(@)]

Foreign(id) ==
  [registrationId |-> id, provisioningStatus |-> "enabled",
   attestation |-> attestationMechanism_toJson(x509Attestation_create("client", None))]

\* Two enrollments are there at first.
EnrollmentInit ==
  /\ stored = [i \in Individuals \cup Groups |-> IF i \in Groups THEN Nothing ELSE [version |-> 1, json |-> Join(One("etag", 1), Kept(Foreign(i)))]]
  /\ mechanism = Nothing /\ handle = Nothing /\ live = 0 /\ seen = 0
  /\ http_state = "DISCONNECTED" /\ request = Nothing /\ response = Nothing /\ outcome = Nothing
  /\ cont_token = 0 /\ page = <<>> /\ present = {} /\ skipped = FALSE /\ edits = 0 /\ requested = 0 /\ foreign = 0

Answers(code, before, after) == response' = [code |-> code, before |-> before, after |-> after, body |-> after, whole |-> "all",
                                      errors |-> FALSE]

Writes(id, x) ==
  /\ stored' = [stored EXCEPT ![id] = x]
  /\ present' = IF x = Nothing THEN present \ {id} ELSE present
  /\ UNCHANGED <<cont_token, page, skipped>>

Puts(id, json, version) == Writes(id, [version |-> version, json |-> Join(One("etag", version), Kept(json))])

RefusesEnrollment == request.etag \notin {0, stored[request.id].version}

ServicePuts ==
  /\ request.op = "put" \/ (request.op = "bulk" /\ request.mode = "update" /\ ~RefusesEnrollment)
  /\ IF RefusesEnrollment THEN UNCHANGED <<stored, queryVars>> /\ Answers(412, stored[request.id], stored[request.id])
     ELSE Puts(request.id, request.json, Version(foreign)) /\ Answers(200, stored[request.id], stored'[request.id])

ServiceDeletes ==
  /\ request.op = "delete" \/ (request.op = "bulk" /\ request.mode = "delete" /\ stored[request.id] # Nothing /\ ~RefusesEnrollment)
  /\ IF RefusesEnrollment \/ stored[request.id] = Nothing
     THEN UNCHANGED <<stored, queryVars>> /\ Answers(404, stored[request.id], stored[request.id])
     ELSE Writes(request.id, Nothing) /\ Answers(200, stored[request.id], Nothing)

\* A bulk operation that fails for an enrollment says so in its answer.
ServiceRefusesBulk ==
  /\ request.op = "bulk" /\ (RefusesEnrollment \/ (request.mode = "delete" /\ stored[request.id] = Nothing))
  /\ UNCHANGED <<stored, queryVars>>
  /\ response' = [code |-> 200, before |-> stored[request.id], after |-> stored[request.id], body |-> Nothing, whole |-> "all",
                  errors |-> TRUE]

ServiceGets ==
  /\ request.op = "get" /\ UNCHANGED <<stored, queryVars>>
  /\ Answers(IF stored[request.id] = Nothing THEN 404 ELSE 200, stored[request.id], stored[request.id])

\* One enrollment a page, and a token when there are more.
ServiceLists ==
  /\ request.op = "query" /\ UNCHANGED <<stored, queryVars>>
  /\ LET more == {i \in DOMAIN Order : i > request.token /\ stored[Order[i]] # Nothing}
         first == CHOOSE i \in more : \A j \in more : i <= j
     IN response' = [code |-> 200, before |-> Nothing, after |-> Nothing, whole |-> "all",
                     body |-> IF more = {} THEN <<>> ELSE <<Order[first]>>,
                     token |-> IF Cardinality(more) > 1 THEN first ELSE 0]

ServiceActs ==
  /\ http_state = "REQUEST_SENT" /\ response = Nothing
  /\ ServicePuts \/ ServiceDeletes \/ ServiceRefusesBulk \/ ServiceGets \/ ServiceLists
  /\ UNCHANGED <<heldVars, http_state, request, outcome, requested, foreign>>

\* Other services add, change and delete; when that is after a request was carried out, it may as well be after its end.
ForeignWrite ==
  /\ foreign < MaxForeign /\ foreign' = foreign + 1
  /\ http_state = "DISCONNECTED" /\ (Idle \/ request # Nothing)
  /\ \E id \in Individuals :
       \/ stored[id] = Nothing /\ Puts(id, Foreign(id), Version(foreign'))
       \/ stored[id] # Nothing /\ Puts(id, Join(One("iotEdge", "edgeOn"), stored[id].json), Version(foreign'))
       \/ stored[id] # Nothing /\ Writes(id, Nothing)
  /\ UNCHANGED <<heldVars, http_state, request, response, outcome, requested>>

-----------------------------------------------------------------------------
(* The request, and its answer *)

\* The service may not be reached, or the request not be sent.
on_enrollment_connected ==
  /\ request # Nothing /\ http_state = "DISCONNECTED"
  /\ http_state' \in {"REQUEST_SENT", "ERROR"}
  /\ UNCHANGED <<stored, heldVars, request, response, outcome, queryVars, requested, foreign>>

\* What arrives may not be readable, or lack its headers.
on_enrollment_reply_recv ==
  /\ http_state = "REQUEST_SENT" /\ response # Nothing
  /\ http_state' = IF response.code \in 200..299 THEN "REQUEST_RECV" ELSE "ERROR"
  /\ \E whole \in IF response.code \notin 200..299 \/ request.op = "delete" THEN {"all"}
                 ELSE IF request.op = "query" THEN {"all", "noBody", "noHeaders"}
                 ELSE {"all", "noBody"} : response' = [response EXCEPT !.whole = whole]
  /\ UNCHANGED <<stored, heldVars, request, outcome, queryVars, requested, foreign>>

\* The link breaks, before the service acts or after.  (When it breaks in the pass the answer came in, that ends the same.)
on_http_error ==
  /\ http_state = "REQUEST_SENT" /\ http_state' = "ERROR"
  /\ UNCHANGED <<stored, heldVars, request, response, outcome, queryVars, requested, foreign>>

Succeeds == http_state = "REQUEST_RECV"
Readable == response.whole = "all"

clear_response == response' = Nothing /\ request' = Nothing /\ http_state' = "DISCONNECTED"

Ends(result) ==
  /\ http_state \in {"REQUEST_RECV", "ERROR"} /\ clear_response
  /\ outcome' = [op |-> request.op, result |-> result, found |-> IF response = Nothing THEN 0 ELSE response.before.version, seen |-> seen]
  /\ UNCHANGED <<stored, mechanism, edits, requested, foreign>>

\* Mutant: the enrollment that was sent is kept when the answer cannot be read, though it was destroyed.
UpdatedKeeping ==
  /\ request.op = "put" /\ Ends(IF Succeeds /\ Readable THEN "OK" ELSE "FAILURE")
  /\ IF Succeeds
     THEN IF Readable THEN handle' = deserializeFromJson(response.body.json) /\ seen' = response.after.version /\ UNCHANGED live
          ELSE UNCHANGED <<handle, seen>> /\ attestationMechanism_destroy
     ELSE UNCHANGED <<handle, seen, live>>
  /\ UNCHANGED queryVars

\* The enrollment that was sent is replaced by the one that is stored; when that cannot be read there is none.
Updated ==
  /\ request.op = "put" /\ Ends(IF Succeeds /\ Readable THEN "OK" ELSE "FAILURE")
  /\ IF Succeeds
     THEN IF Readable THEN handle' = deserializeFromJson(response.body.json) /\ seen' = response.after.version /\ UNCHANGED live
          ELSE handle' = Nothing /\ seen' = 0 /\ attestationMechanism_destroy
     ELSE UNCHANGED <<handle, seen, live>>
  /\ UNCHANGED queryVars

Deleted ==
  /\ request.op = "delete" /\ Ends(IF Succeeds THEN "OK" ELSE "FAILURE")
  /\ UNCHANGED <<handle, seen, live, queryVars>>

Got ==
  /\ request.op = "get" /\ Ends(IF Succeeds /\ Readable THEN "OK" ELSE "FAILURE")
  /\ IF Succeeds /\ Readable
     THEN handle' = deserializeFromJson(response.body.json) /\ seen' = response.after.version /\ live' = live + 1
     ELSE UNCHANGED <<handle, seen, live>>
  /\ UNCHANGED queryVars

\* The result says whether every enrollment was changed.
BulkRan ==
  /\ request.op = "bulk"
  /\ Ends(IF ~(Succeeds /\ Readable) THEN "FAILURE" ELSE IF response.errors THEN "ERRORS" ELSE "OK")
  /\ UNCHANGED <<handle, seen, live, queryVars>>

\* A response without headers has no token.
get_response_headers == IF response.whole = "noHeaders" THEN 0 ELSE response.token

\* The token moves on with every answer, read or not, and is lost with the headers.
Queried ==
  /\ request.op = "query" /\ Ends(IF Succeeds /\ Readable THEN "OK" ELSE "FAILURE")
  /\ IF Succeeds
     THEN /\ cont_token' = get_response_headers
          /\ page' = IF Readable THEN page \o response.body ELSE page
          /\ skipped' = (skipped \/ ~Readable)
     ELSE UNCHANGED <<cont_token, page, skipped>>
  /\ UNCHANGED <<present, handle, seen, live>>

EnrollmentNext ==
  \/ attestationMechanism_create \/ enrollment_create \/ setAttestationMechanism \/ setInitialTwin
  \/ setProvisioningStatus \/ enrollment_destroy
  \/ prov_sc_create_or_update_record \/ prov_sc_delete_record_by_param \/ prov_sc_get_record
  \/ prov_sc_run_bulk_operation \/ prov_sc_query_records
  \/ ServiceActs \/ ForeignWrite
  \/ on_enrollment_connected \/ on_enrollment_reply_recv \/ on_http_error
  \/ Updated \/ Deleted \/ Got \/ BulkRan \/ Queried

EnrollmentSpec == EnrollmentInit /\ [][EnrollmentNext]_enrollmentVars

-----------------------------------------------------------------------------
(* Properties *)

Is(op) == outcome # Nothing /\ outcome.op = op /\ outcome.result = "OK"

\* An enrollment that was read is written or deleted, alone or in bulk, only while nobody has written since.
NoWriteLost ==
  (Is("put") \/ Is("bulk") \/ Is("delete")) /\ outcome.seen # 0 => outcome.found = outcome.seen

\* What an attestation mechanism attests, whichever way its certificates are held.
Meaning(a) ==
  LET Of(c) == IF a.type \in {"tpm", "caReferences"} THEN c
               ELSE IF c = Nothing THEN None
               ELSE IF c.certificate # None THEN c.certificate ELSE c.info
  IN <<a.type, Of(a.certificates.primary), Of(a.certificates.secondary)>>

\* An update that returns 0 leaves the application with the enrollment it wrote, mechanism, twin and all.
WrittenComesBack ==
  [][ (request # Nothing /\ request.op = "put" /\ outcome' # Nothing /\ outcome'.result = "OK") =>
        /\ Meaning(handle'.attestation) = Meaning(handle.attestation)
        /\ \A f \in {"id", "twin", "status", "capabilities"} : handle'[f] = handle[f] ]_enrollmentVars

\* Every attestation mechanism that lives is the application's or its enrollment's, and none of those is freed.
MechanismsOwned == live = Exists(mechanism) + Exists(handle)

Count(id) == Cardinality({i \in DOMAIN page : page[i] = id})

\* A query whose pages were all read has met every enrollment that was there all the time, once.
PagesWhole ==
  Is("query") /\ cont_token = 0 /\ ~skipped => \A id \in Individuals : /\ Count(id) <= 1
                                                                       /\ id \in present => Count(id) = 1

\* Concurrent writers are noticed, mechanisms are owned by one enrollment, and queries page through all
\* of them.
EnrollmentsSound == NoWriteLost /\ MechanismsOwned /\ PagesWhole
=============================================================================
