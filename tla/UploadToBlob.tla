----------------------------- MODULE UploadToBlob -----------------------------
(***************************************************************************)
(* The upload of a file or of blocks of data to Azure Storage,                *)
(* iothub_client_ll_uploadtoblob.c and blob.c: the hub names the place, the     *)
(* blocks are stored one by one, their list is committed, and the hub is told    *)
(* the result.                                                                    *)
(*                                                                         *)
(* One upload runs at a time on its thread.  A block is the interval of the       *)
(* positions it covers of the data.                                                *)
(***************************************************************************)
EXTENDS Naturals, Sequences, FiniteSets, SequencesExt

CONSTANTS
  BLOCK_SIZE,       \* of a block, in positions
  MAX_BLOCK_COUNT,  \* of a blob
  MaxData           \* bound: positions of the data

ASSUME UploadAssumption == BLOCK_SIZE \in Nat \ {0} /\ MAX_BLOCK_COUNT \in Nat /\ MaxData \in Nat

VARIABLES
  uploader,         \* the credential, and the options set
  uploadStage,      \* where the upload stands
  dataSource,           \* "file" of some size, or the "application", and how much was taken of it
  blockIDList,      \* the blocks of the list, in order
  storage,          \* the blocks storage has
  httpStatus,       \* "ok" or "bad": the status of the last request, arbitrary before the first
  committed,        \* the list that storage committed, or NotYet
  hubTold,          \* what the hub was told: "nothing", "OK" or "ERROR"
  blobResult,       \* BLOB_OK, BLOB_ABORTED or BLOB_ERROR
  uploadResult,     \* what the caller gets
  lastCall          \* what the last call of the data callback said, <<>> before

uploadVars == <<uploader, uploadStage, dataSource, blockIDList, storage, httpStatus, committed, hubTold, blobResult, uploadResult, lastCall>>
blobVars == <<blockIDList, storage, httpStatus, committed, blobResult>>

CredTypes == {"X509", "X509_ECC", "SAS_TOKEN", "DEVICE_KEY", "DEVICE_AUTH"}
NoUploader == [cred |-> "none", certificate |-> FALSE, privatekey |-> FALSE]
NoSource == [kind |-> "none", size |-> 0, taken |-> 0]
NotYet == <<[first |-> 0, last |-> 0]>>
ResultOf(ok) == IF ok THEN "OK" ELSE "ERROR"

UploadInit ==
  /\ uploader = NoUploader /\ uploadStage = "idle" /\ dataSource = NoSource
  /\ blockIDList = <<>> /\ storage = {} /\ httpStatus \in {"ok", "bad"} /\ committed = NotYet
  /\ hubTold = "nothing" /\ blobResult = "BLOB_OK" /\ uploadResult = "none" /\ lastCall = <<>>

-----------------------------------------------------------------------------
(* The uploader *)

\* A certificate and key of the authorization module are taken over, or the uploader is not made.
IoTHubClient_LL_UploadToBlob_Create ==
  /\ uploader = NoUploader
  /\ \E cred \in CredTypes :
       uploader' = [cred |-> cred, certificate |-> cred = "X509_ECC", privatekey |-> cred = "X509_ECC"]
  /\ UNCHANGED <<uploadStage, dataSource, blobVars, hubTold, uploadResult, lastCall>>

\* Only a plain certificate is set by option.
IoTHubClient_LL_UploadToBlob_SetOption ==
  /\ uploader.cred = "X509" /\ uploadStage = "idle"
  /\ \/ uploader' = [uploader EXCEPT !.certificate = TRUE]
     \/ uploader' = [uploader EXCEPT !.privatekey = TRUE]
  /\ UNCHANGED <<uploadStage, dataSource, blobVars, hubTold, uploadResult, lastCall>>

IoTHubClient_LL_UploadToBlob_Destroy ==
  /\ uploader # NoUploader /\ uploadStage = "idle" /\ uploader' = NoUploader
  /\ UNCHANGED <<uploadStage, dataSource, blobVars, hubTold, uploadResult, lastCall>>

-----------------------------------------------------------------------------
(* An upload *)

Returns(result) == uploadStage' = "returned" /\ uploadResult' = result /\ lastCall' = Append(lastCall, result)

\* The options are given to the connection: of a certificate both parts have to be there.
Configures == uploader.cred \in {"X509", "X509_ECC"} => uploader.certificate /\ uploader.privatekey

\* The whole of a file, or what the application gives: both are uploaded block by block.
IoTHubClient_LL_UploadToBlob_Impl ==
  /\ uploader # NoUploader /\ uploadStage = "idle"
  /\ \E kind \in {"file", "application"}, size \in 0..MaxData : dataSource' = [kind |-> kind, size |-> size, taken |-> 0]
  /\ \E configured \in BOOLEAN :
       IF configured /\ Configures THEN uploadStage' = "asking" /\ UNCHANGED <<uploadResult, lastCall>>
       ELSE Returns("ERROR")
  /\ UNCHANGED <<uploader, blobVars, hubTold>>

\* The hub is asked where to store; its answer is read and a list of blocks begun, or the upload ends.
IoTHubClient_LL_UploadToBlob_step1and2 ==
  /\ uploadStage = "asking"
  /\ \/ uploadStage' = "blocks" /\ UNCHANGED <<uploadResult, lastCall>>
     \/ Returns("ERROR")
  /\ UNCHANGED <<uploader, dataSource, blobVars, hubTold>>

\* The data of the next call of the callback: the last block of a file may be shorter, the application
\* gives any size up to one too many.
FileUpload_GetData_Callback ==
  IF dataSource.kind = "file"
  THEN {IF dataSource.size - dataSource.taken > BLOCK_SIZE THEN BLOCK_SIZE ELSE dataSource.size - dataSource.taken}
  ELSE 0..(IF dataSource.size - dataSource.taken > BLOCK_SIZE THEN BLOCK_SIZE + 1 ELSE dataSource.size - dataSource.taken)

BlocksEnd(result) == uploadStage' = "blocksDone" /\ blobResult' = result

\* One block: it is listed before it is sent; an answer that is lost leaves it stored.
Blob_UploadBlock(block) ==
  /\ blockIDList' = Append(blockIDList, block)
  /\ \E outcome \in {"ok", "bad", "lost", "failed"} :
       /\ storage' = IF outcome \in {"ok", "lost"} THEN storage \cup {block} ELSE storage
       /\ IF outcome \in {"ok", "bad"}
          THEN /\ httpStatus' = outcome
               /\ IF outcome = "bad" THEN BlocksEnd("BLOB_OK") ELSE UNCHANGED <<uploadStage, blobResult>>
          ELSE BlocksEnd("BLOB_ERROR") /\ UNCHANGED httpStatus

\* Mutant: the limit of the number of blocks is off by one.
OneMore(size) == size > BLOCK_SIZE \/ Len(blockIDList) > MAX_BLOCK_COUNT

TooMuch(size) == size > BLOCK_SIZE \/ Len(blockIDList) >= MAX_BLOCK_COUNT

InvokeUserCallbackAndSendBlobs ==
  /\ uploadStage = "blocks"
  /\ \/ /\ dataSource.kind = "application"   \* the application aborts
        /\ BlocksEnd("BLOB_ABORTED") /\ UNCHANGED <<dataSource, blockIDList, storage, httpStatus>>
     \/ \E size \in FileUpload_GetData_Callback :
          /\ dataSource' = [dataSource EXCEPT !.taken = @ + size]
          /\ IF size = 0
             THEN BlocksEnd("BLOB_OK") /\ UNCHANGED <<blockIDList, storage, httpStatus>>
             ELSE IF TooMuch(size)
             THEN BlocksEnd("BLOB_ERROR") /\ UNCHANGED <<blockIDList, storage, httpStatus>>
             ELSE Blob_UploadBlock([first |-> dataSource.taken + 1, last |-> dataSource.taken + size])
  /\ UNCHANGED <<uploader, committed, hubTold, uploadResult, lastCall>>

\* Mutant: the list is committed whatever became of the last block.
CommitsAnyway == blobResult = "BLOB_OK"

\* The list is committed only when no block was refused; before any block the status is arbitrary.
Commits == blobResult = "BLOB_OK" /\ httpStatus = "ok"

SendBlockIdList ==
  /\ uploadStage = "blocksDone" /\ Commits
  /\ uploadStage' = "telling"
  /\ \E outcome \in {"ok", "bad", "lost", "failed"} :
       /\ committed' = IF outcome \in {"ok", "lost"} THEN blockIDList ELSE committed
       /\ IF outcome \in {"ok", "bad"} THEN httpStatus' = outcome /\ UNCHANGED blobResult
          ELSE blobResult' = "BLOB_ERROR" /\ UNCHANGED httpStatus
  /\ UNCHANGED <<uploader, dataSource, blockIDList, storage, hubTold, uploadResult, lastCall>>

\* Nothing to commit; or the place cannot be used, before any block.
Blob_UploadMultipleBlocksFromSasUri ==
  /\ \/ uploadStage = "blocksDone" /\ ~Commits /\ UNCHANGED blobResult
     \/ uploadStage = "blocks" /\ dataSource.taken = 0 /\ blobResult' = "BLOB_ERROR"
  /\ uploadStage' = "telling"
  /\ UNCHANGED <<uploader, dataSource, blockIDList, storage, httpStatus, committed, hubTold, uploadResult, lastCall>>

\* Mutant: the hub is told of a success whenever the blocks went through.
TellsResult == ResultOf(blobResult = "BLOB_OK")

\* What the body of the notification says.
Told == ResultOf(blobResult = "BLOB_OK" /\ httpStatus = "ok")

\* The hub is told, if it can be reached.  An upload that the application aborted is a success for the
\* caller when the hub was told.
IoTHubClient_LL_UploadToBlob_step3 ==
  /\ uploadStage = "telling"
  /\ \E told \in BOOLEAN :
       /\ hubTold' = IF told THEN Told ELSE hubTold
       /\ Returns(IF ~told THEN "ERROR"
                  ELSE CASE blobResult = "BLOB_ABORTED" -> "OK"
                         [] blobResult = "BLOB_ERROR" -> "ERROR"
                         [] OTHER -> ResultOf(httpStatus = "ok"))
  /\ UNCHANGED <<uploader, dataSource, blobVars>>

UploadReturns ==
  /\ uploadStage = "returned" /\ uploadStage' = "idle"
  /\ dataSource' = NoSource /\ blockIDList' = <<>> /\ storage' = {} /\ httpStatus' \in {"ok", "bad"}
  /\ committed' = NotYet /\ hubTold' = "nothing" /\ blobResult' = "BLOB_OK" /\ uploadResult' = "none" /\ lastCall' = <<>>
  /\ UNCHANGED uploader

UploadNext ==
  \/ IoTHubClient_LL_UploadToBlob_Create \/ IoTHubClient_LL_UploadToBlob_SetOption \/ IoTHubClient_LL_UploadToBlob_Destroy
  \/ IoTHubClient_LL_UploadToBlob_Impl \/ IoTHubClient_LL_UploadToBlob_step1and2
  \/ InvokeUserCallbackAndSendBlobs \/ SendBlockIdList \/ Blob_UploadMultipleBlocksFromSasUri
  \/ IoTHubClient_LL_UploadToBlob_step3 \/ UploadReturns

UploadSpec == UploadInit /\ [][UploadNext]_uploadVars

-----------------------------------------------------------------------------
(* Properties *)

\* The blocks cover the data from its first position to the last, without a gap or an overlap.
Covers(blocks, size) ==
  /\ \A i \in 1..Len(blocks) : blocks[i].first = IF i = 1 THEN 1 ELSE blocks[i - 1].last + 1
  /\ size = IF blocks = <<>> THEN 0 ELSE blocks[Len(blocks)].last

\* The hub hears of a success, and the caller of an upload that was not aborted, only when storage committed
\* the whole of the data, every block of it stored; a file is never committed in part.
UploadWhole ==
  /\ hubTold = "OK" \/ (uploadResult = "OK" /\ blobResult # "BLOB_ABORTED")
       => /\ committed # NotYet /\ Covers(committed, dataSource.taken)
          /\ \A i \in 1..Len(committed) : committed[i] \in storage
          /\ dataSource.kind = "file" => dataSource.taken = dataSource.size
  /\ Len(blockIDList) <= MAX_BLOCK_COUNT

\* The hub and the caller hear the same of an upload that was not aborted, when the hub hears anything.
HubAgrees == uploadStage = "returned" /\ hubTold # "nothing" /\ blobResult # "BLOB_ABORTED" => hubTold = uploadResult

\* The data callback is called a last time, once, whatever fails, with the result that the caller gets.
LastCallOnce == lastCall = IF uploadStage = "returned" THEN <<uploadResult>> ELSE <<>>

\* Storage, the hub, the caller and the data callback agree on how an upload of
\* IoTHubClient_LL_UploadMultipleBlocksToBlob_Impl ended.
UploadHonest == UploadWhole /\ HubAgrees /\ LastCallOnce
=============================================================================
