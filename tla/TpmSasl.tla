------------------------------- MODULE TpmSasl -------------------------------
(***************************************************************************)
(* The SASL mechanism a TPM authenticates by, prov_sasl_tpm.c: the device      *)
(* sends its endorsement key, then its storage root key, in frames; the         *)
(* service sends a nonce in numbered segments and gets a token signed with it.   *)
(*                                                                         *)
(* Keys are sequences of positions, the ids of the registration are so many       *)
(* positions in front of the endorsement key.  The service is external.            *)
(***************************************************************************)
EXTENDS Naturals, Sequences, FiniteSets, SequencesExt

CONSTANTS
  MAX_FRAME_DATA_LEN,  \* data of one frame
  SEQUENCES,           \* numbers a control byte can hold
  MaxKey,              \* bound: length of a key
  MaxSegments          \* bound: segments of a nonce

\* A frame holds its control byte and at least one position of a key: else a long key would never be sent.
ASSUME SaslAssumption ==
  MAX_FRAME_DATA_LEN \in Nat \ {0, 1} /\ SEQUENCES \in Nat \ {0} /\ MaxKey \in Nat /\ MaxSegments \in Nat

VARIABLES
  keyLens,       \* the lengths of the ids, of the endorsement key ("ek") and of the storage root key ("srk")
  data_offset,   \* of the key being sent
  ctrl_seq_num,  \* number of the next segment, sent or received
  nonce,         \* nonce_handle: the segments appended, as the places they have in the nonce
  gotKeys,       \* what the service got of each key
  lastFrame,     \* the control byte of the last frame sent: its stage and number
  nonceLen,      \* segments the service cuts the nonce in
  misnumbered,   \* the service has sent a segment out of its place
  saslStage      \* "new", "keys", "nonce", "token" or "failed"

saslVars == <<keyLens, data_offset, ctrl_seq_num, nonce, gotKeys, lastFrame, nonceLen, misnumbered, saslStage>>

WholeFrame == [stage |-> "whole", seq |-> 0]

SaslInit ==
  /\ keyLens = [ids |-> 0, ek |-> 0, srk |-> 0]
  /\ data_offset = 0 /\ ctrl_seq_num = 0 /\ nonce = <<>> /\ gotKeys = [ek |-> <<>>, srk |-> <<>>]
  /\ lastFrame = WholeFrame /\ nonceLen = 0 /\ misnumbered = FALSE /\ saslStage = "new"

\* The keys and the ids come from the configuration.
prov_sasltpm_create ==
  /\ saslStage = "new" /\ keyLens.ek = 0
  /\ keyLens' \in [ids : 1..2, ek : 1..MaxKey, srk : 1..MaxKey] /\ nonceLen' \in 1..MaxSegments
  /\ UNCHANGED <<data_offset, ctrl_seq_num, nonce, gotKeys, lastFrame, misnumbered, saslStage>>

-----------------------------------------------------------------------------
(* Sending a key *)

Positions(first, n) == [i \in 1..n |-> first + i - 1]

\* Mutant: the control byte is not counted in the frame.
FrameWithoutControl(key, ids) ==
  LET left == keyLens[key] + ids - data_offset IN
  IF left <= MAX_FRAME_DATA_LEN THEN left ELSE MAX_FRAME_DATA_LEN

\* The length of the next frame of a key that does not fit in one, with its control byte.
FrameLength(key, ids) ==
  LET left == keyLens[key] + ids - data_offset IN
  IF left <= MAX_FRAME_DATA_LEN THEN left + 1 ELSE MAX_FRAME_DATA_LEN

\* A key that fits goes whole; of a longer one the next part goes, in a numbered segment.
construct_send_data(key, ids) ==
  IF keyLens[key] + ids > MAX_FRAME_DATA_LEN
  THEN LET front == IF ids > 0 /\ data_offset < ids THEN ids ELSE 0
           part == FrameLength(key, ids) - 1 - front
       IN /\ gotKeys' = [gotKeys EXCEPT ![key] = @ \o Positions(data_offset, part)]
          /\ lastFrame' = [stage |-> IF keyLens[key] + ids - data_offset <= MAX_FRAME_DATA_LEN THEN "last" ELSE "continue",
                           seq |-> ctrl_seq_num]
          /\ data_offset' = data_offset + part /\ ctrl_seq_num' = ctrl_seq_num + 1
  ELSE /\ gotKeys' = [gotKeys EXCEPT ![key] = @ \o Positions(0, keyLens[key])]
       /\ lastFrame' = WholeFrame /\ UNCHANGED <<data_offset, ctrl_seq_num>>

\* The first bytes are the ids and the endorsement key.
prov_sasltpm_get_init_bytes ==
  /\ saslStage = "new" /\ keyLens.ek > 0 /\ saslStage' = "keys"
  /\ construct_send_data("ek", keyLens.ids)
  /\ UNCHANGED <<keyLens, nonce, nonceLen, misnumbered>>

\* A challenge without a valid control byte asks for (more of) the storage root key.
SendsStorageKey ==
  /\ saslStage = "keys" /\ (gotKeys.srk = <<>> \/ lastFrame.stage = "continue")
  /\ construct_send_data("srk", 0)
  /\ UNCHANGED <<keyLens, nonce, nonceLen, misnumbered, saslStage>>

\* The service has both keys.
KeysSent ==
  /\ saslStage = "keys" /\ gotKeys.srk # <<>> /\ lastFrame.stage # "continue" /\ saslStage' = "nonce"
  /\ UNCHANGED <<keyLens, data_offset, ctrl_seq_num, nonce, gotKeys, lastFrame, nonceLen, misnumbered>>

-----------------------------------------------------------------------------
(* Receiving the nonce *)

\* Mutant: any segment is taken.
TakesAny(place) == TRUE

\* A control byte holds the number modulo four, the device counts on.
validate_sequence_num(place) == place % SEQUENCES = ctrl_seq_num

\* A segment of the nonce, of some place, numbered by its place, the last one marked.  It is appended before its
\* number is looked at, and a wrong number ends the authentication.  After the last segment the token is made.
prov_sasltpm_challenge ==
  /\ saslStage = "nonce"
  /\ \E place \in 0..(nonceLen - 1) :
       /\ nonce' = Append(nonce, place) /\ misnumbered' = (misnumbered \/ place # Len(nonce))
       /\ IF ~validate_sequence_num(place) THEN saslStage' = "failed" /\ UNCHANGED ctrl_seq_num
          ELSE IF place = nonceLen - 1 THEN saslStage' = "token" /\ ctrl_seq_num' = 0
          ELSE ctrl_seq_num' = ctrl_seq_num + 1 /\ UNCHANGED saslStage
  /\ Len(nonce) <= MaxSegments
  /\ UNCHANGED <<keyLens, data_offset, gotKeys, lastFrame, nonceLen>>

\* A token that is longer than a frame is not sent, and one may not be made at all.
TokenFails ==
  /\ saslStage = "token" /\ saslStage' = "noToken"
  /\ UNCHANGED <<keyLens, data_offset, ctrl_seq_num, nonce, gotKeys, lastFrame, nonceLen, misnumbered>>

\* A connection that comes up again begins with a new mechanism.
prov_sasltpm_destroy ==
  /\ saslStage \in {"token", "noToken", "failed"} /\ saslStage' = "new"
  /\ keyLens' = [ids |-> 0, ek |-> 0, srk |-> 0] /\ data_offset' = 0 /\ ctrl_seq_num' = 0 /\ nonce' = <<>>
  /\ gotKeys' = [ek |-> <<>>, srk |-> <<>>] /\ lastFrame' = WholeFrame /\ nonceLen' = 0 /\ misnumbered' = FALSE

SaslNext ==
  \/ prov_sasltpm_create \/ prov_sasltpm_get_init_bytes \/ SendsStorageKey \/ KeysSent
  \/ prov_sasltpm_challenge \/ TokenFails \/ prov_sasltpm_destroy

SaslSpec == SaslInit /\ [][SaslNext]_saslVars

-----------------------------------------------------------------------------
(* Properties *)

EkFits == keyLens.ek + keyLens.ids <= MAX_FRAME_DATA_LEN
SrkFits == keyLens.srk <= MAX_FRAME_DATA_LEN

\* The service gets both keys whole, every position once and in order, however many frames the storage root key
\* takes, when the endorsement key and the ids fit in one.  (Of a longer endorsement key only the first frame
\* is ever sent, and the storage root key then lacks its beginning.)
KeysWhole ==
  saslStage \in {"nonce", "token"} /\ EkFits =>
    gotKeys = [ek |-> Positions(0, keyLens.ek), srk |-> Positions(0, keyLens.srk)]

\* A token is only signed with a nonce that came whole and in order.  (Sending a key in segments leaves the
\* counter somewhere else: then segments are missed, and a right first one is turned away.)
NonceWhole == saslStage = "token" /\ EkFits /\ SrkFits /\ nonceLen <= SEQUENCES => nonce = Positions(0, nonceLen)

\* A service that numbers the segments by their place is not turned away, unless there are more of them than
\* numbers: the fifth segment always ends the authentication.
HonestAccepted == saslStage = "failed" /\ EkFits /\ SrkFits => misnumbered \/ nonceLen > SEQUENCES

\* The keys, the nonce and the numbers of its segments, through every frame of
\* prov_sasltpm_challenge.
TpmAuthenticates == KeysWhole /\ NonceWhole /\ HonestAccepted
=============================================================================
