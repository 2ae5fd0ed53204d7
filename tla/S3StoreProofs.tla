---------------------------- MODULE S3StoreProofs ----------------------------
(***************************************************************************)
(* Proofs about S3Store (src/src/store/s3.rs): the types of the model for *)
(* every set of faults, and, when the bucket answers no error code, that   *)
(* every call is a step of the DataStore contract.                         *)
(***************************************************************************)
EXTENDS S3Store, TLAPS

-----------------------------------------------------------------------------
LEMMA InitTypeOK == Init => TypeOK
BY S3Assumption DEF Init, TypeOK, Stores, R

(* Every store a call may leave is a map from the block ids. *)
LEMMA StoresKept ==
    ASSUME TypeOK
    PROVE  /\ {blocks} \subseteq Stores
           /\ \A id \in BlockIds, v \in Data \cup {Absent} : Maybe(id, v) \subseteq Stores
           /\ \A x \in BOOLEAN : Truncated(x) \subseteq Stores
BY DEF TypeOK, Stores, Maybe, Truncated

LEMMA OpenType ==
    ASSUME TypeOK, NEW opts \in OpenOptions, Open(opts)
    PROVE  TypeOK'
<1>1. PICK r1, r2, r3, r4 \in Replies : OpenReplies(opts, r1, r2, r3, r4)
  BY DEF Open
<1>2. call' \in {"open"} \X OpenOptions
  BY DEF Open
<1>3. /\ format' \in {"none", "current"}
      /\ blocks' \in Stores
      /\ opened' \in BOOLEAN
      /\ reply' \in {R(k) : k \in {"none", "ok", "err", "exists", "unsupported"}}
  <2>1. PutVersion(r2) \in {"none", "current"}
    BY DEF TypeOK, PutVersion
  <2>2. (IF Found(r1) THEN format ELSE PutVersion(r2)) \in {"none", "current"}
    BY <2>1 DEF TypeOK
  <2>. QED  BY <1>1, <2>2, StoresKept DEF OpenReplies, Fail, Answer, TypeOK
<1>. QED  BY <1>2, <1>3 DEF TypeOK

LEMMA TypeStep == TypeOK /\ [Next]_vars => TypeOK'
<1>. SUFFICES ASSUME TypeOK, [Next]_vars PROVE TypeOK'
  OBVIOUS
<1>1. ASSUME NEW opts \in OpenOptions, Open(opts) PROVE TypeOK'
  BY <1>1, OpenType
<1>2. ASSUME NEW id \in BlockIds, NEW v \in Data, WriteBlock(id, v) PROVE TypeOK'
  BY <1>2, StoresKept DEF WriteBlock, Fail, TypeOK, Stores
<1>3. ASSUME NEW id \in BlockIds, ReadBlock(id) PROVE TypeOK'
  BY <1>3 DEF ReadBlock, TypeOK, Stores
<1>4. ASSUME NEW id \in BlockIds, RemoveBlock(id) PROVE TypeOK'
  BY <1>4, StoresKept DEF RemoveBlock, Fail, TypeOK, Stores
<1>5. CASE ListBlocks
  BY <1>5 DEF ListBlocks, TypeOK
<1>6. CASE UNCHANGED vars
  BY <1>6 DEF vars, TypeOK
<1>. QED  BY <1>1, <1>2, <1>3, <1>4, <1>5, <1>6 DEF Next

(***************************************************************************)
(* Whatever the bucket and the network do, the bucket holds a version or   *)
(* none and a content or nothing under each block id, and every call of    *)
(* the caller returns one of the replies of its signature.                 *)
(***************************************************************************)
THEOREM TypeCorrect == Spec => []TypeOK
BY InitTypeOK, TypeStep, PTL DEF Spec

-----------------------------------------------------------------------------
(* S3Store implements DataStore when the bucket answers no error code. *)
\* Without error codes a request either succeeds or fails in transit.
NoStatus == "status" \notin Faults

LEMMA RepliesNoStatus == NoStatus => Replies \subseteq {"ok", "transport"}
BY S3Assumption DEF NoStatus, Replies

(* The stores the TRUNCATE loop may leave are the contract's. *)
LEMMA TruncatedContract ==
    ASSUME TypeOK
    PROVE  /\ Truncated(TRUE) = Contract!MaybeErased
           /\ Truncated(FALSE) = {Contract!Empty}
<1>1. Truncated(TRUE) = Contract!MaybeErased
  BY DEF Truncated, Contract!MaybeErased, Stores, Contract!Stores
<1>2. Contract!Empty \in Truncated(FALSE)
  BY DEF Truncated, Contract!Empty, Stores
<1>3. \A b \in Truncated(FALSE) : b = Contract!Empty
  BY DEF Truncated, Contract!Empty, Stores
<1>. QED  BY <1>1, <1>2, <1>3

(* A request that failed before it changed anything is an Io error. *)
LEMMA FailUnchanged ==
    ASSUME TypeOK, Fail({blocks}), format' \in {format, "current"}
    PROVE  /\ format' \in {format, "current"}
           /\ blocks' \in Contract!MaybeErased
           /\ reply' = Contract!R("err")
           /\ UNCHANGED opened
BY DEF Fail, TypeOK, Contract!MaybeErased, Stores, Contract!Stores, R, Contract!R

(* open, once the version check has let it through and the version is
   current: with TRUNCATE it lists and deletes the blocks. *)
LEMMA OpenTail ==
    ASSUME TypeOK, NoStatus, NEW opts \in OpenOptions,
           NEW r1 \in Replies, NEW r2 \in Replies, NEW r3 \in Replies, NEW r4 \in Replies,
           IF format = "current" THEN "CREATE_NEW" \notin opts
                                 ELSE opts \cap {"CREATE", "CREATE_NEW"} # {},
           call' = <<"open", opts>>,
           IF "TRUNCATE" \notin opts
             THEN format' = "current" /\ opened' = TRUE /\ reply' = R("ok") /\ UNCHANGED blocks
           ELSE IF r3 # "ok" THEN Fail({blocks}) /\ format' = "current"
           ELSE IF r4 = "transport" THEN Fail(Truncated(TRUE)) /\ format' = "current"
           ELSE /\ format' = "current"
                /\ blocks' \in Truncated(r4 = "status")
                /\ opened' = TRUE
                /\ reply' = R("ok")
    PROVE  Contract!Open(opts)
<1>1. r3 \in {"ok", "transport"} /\ r4 \in {"ok", "transport"}
  BY RepliesNoStatus
<1>2. CASE "TRUNCATE" \notin opts
  BY <1>2 DEF Contract!Open, R, Contract!R
<1>3. CASE "TRUNCATE" \in opts /\ r3 # "ok"
  BY <1>3, FailUnchanged DEF Contract!Open
<1>4. CASE "TRUNCATE" \in opts /\ r3 = "ok" /\ r4 = "transport"
  BY <1>4, TruncatedContract DEF Contract!Open, Fail, R, Contract!R
<1>5. CASE "TRUNCATE" \in opts /\ r3 = "ok" /\ r4 = "ok"
  <2>1. blocks' = Contract!Empty
    BY <1>5, TruncatedContract
  <2>. QED  BY <1>5, <2>1 DEF Contract!Open, R, Contract!R
<1>. QED  BY <1>1, <1>2, <1>3, <1>4, <1>5

LEMMA OpenRefines ==
    ASSUME TypeOK, NoStatus, NEW opts \in OpenOptions, Open(opts)
    PROVE  Contract!Open(opts)
<1>1. PICK r1, r2, r3, r4 \in Replies : OpenReplies(opts, r1, r2, r3, r4)
  BY DEF Open
<1>2. call' = <<"open", opts>>
  BY DEF Open
<1>3. r1 \in {"ok", "transport"} /\ r2 \in {"ok", "transport"}
  BY RepliesNoStatus
<1>. DEFINE create == opts \cap {"CREATE", "CREATE_NEW"} # {}
<1>4. CASE r1 = "transport"
  BY <1>1, <1>2, <1>4, FailUnchanged DEF OpenReplies, Contract!Open
<1>5. CASE r1 = "ok" /\ format = "current" /\ "CREATE_NEW" \in opts
  BY <1>1, <1>2, <1>5 DEF OpenReplies, Found, Answer, Contract!Open, R, Contract!R
<1>6. CASE r1 = "ok" /\ format = "current" /\ "CREATE_NEW" \notin opts
  <2>1. IF "TRUNCATE" \notin opts
          THEN format' = "current" /\ opened' = TRUE /\ reply' = R("ok") /\ UNCHANGED blocks
        ELSE IF r3 # "ok" THEN Fail({blocks}) /\ format' = "current"
        ELSE IF r4 = "transport" THEN Fail(Truncated(TRUE)) /\ format' = "current"
        ELSE /\ format' = "current"
             /\ blocks' \in Truncated(r4 = "status")
             /\ opened' = TRUE
             /\ reply' = R("ok")
    BY <1>1, <1>6 DEF OpenReplies, Found
  <2>. QED  BY <1>2, <1>6, <2>1, OpenTail
<1>7. CASE r1 = "ok" /\ format # "current" /\ ~create
  <2>1. format = "none"
    BY <1>7 DEF TypeOK
  <2>. QED  BY <1>1, <1>2, <1>7, <2>1 DEF OpenReplies, Found, Answer, Contract!Open, R, Contract!R
<1>8. CASE r1 = "ok" /\ format # "current" /\ create /\ r2 = "transport"
  BY <1>1, <1>2, <1>8, FailUnchanged DEF OpenReplies, Found, Contract!Open
<1>9. CASE r1 = "ok" /\ format # "current" /\ create /\ r2 = "ok"
  <2>1. IF "TRUNCATE" \notin opts
          THEN format' = "current" /\ opened' = TRUE /\ reply' = R("ok") /\ UNCHANGED blocks
        ELSE IF r3 # "ok" THEN Fail({blocks}) /\ format' = "current"
        ELSE IF r4 = "transport" THEN Fail(Truncated(TRUE)) /\ format' = "current"
        ELSE /\ format' = "current"
             /\ blocks' \in Truncated(r4 = "status")
             /\ opened' = TRUE
             /\ reply' = R("ok")
    BY <1>1, <1>9 DEF OpenReplies, Found, PutVersion
  <2>. QED  BY <1>2, <1>9, <2>1, OpenTail
<1>. QED  BY <1>3, <1>4, <1>5, <1>6, <1>7, <1>8, <1>9

LEMMA StepRefines ==
    ASSUME TypeOK, NoStatus, [Next]_vars
    PROVE  [Contract!Next]_Contract!vars
<1>0. Replies \subseteq {"ok", "transport"}
  BY RepliesNoStatus
<1>1. ASSUME NEW opts \in OpenOptions, Open(opts) PROVE Contract!Next
  BY <1>1, OpenRefines DEF Contract!Next
<1>2. ASSUME NEW id \in BlockIds, NEW v \in Data, WriteBlock(id, v) PROVE Contract!Next
  <2>1. Contract!WriteBlock(id, v)
    BY <1>0, <1>2 DEF WriteBlock, Fail, Maybe, Contract!WriteBlock, Contract!MaybeWritten, R, Contract!R
  <2>. QED  BY <2>1 DEF Contract!Next
<1>3. ASSUME NEW id \in BlockIds, ReadBlock(id) PROVE Contract!Next
  <2>1. Contract!ReadBlock(id)
    BY <1>0, <1>3 DEF ReadBlock, Contract!ReadBlock, Read, Contract!Read, R, Contract!R
  <2>. QED  BY <2>1 DEF Contract!Next
<1>4. ASSUME NEW id \in BlockIds, RemoveBlock(id) PROVE Contract!Next
  <2>1. Contract!RemoveBlock(id)
    BY <1>0, <1>4 DEF RemoveBlock, Fail, Maybe, Contract!RemoveBlock, Contract!MaybeWritten, R, Contract!R
  <2>. QED  BY <2>1 DEF Contract!Next
<1>5. CASE ListBlocks
  <2>1. Contract!ListBlocks
    BY <1>5 DEF ListBlocks, Contract!ListBlocks, Listed, Contract!Listed, R, Contract!R
  <2>. QED  BY <2>1 DEF Contract!Next
<1>6. CASE UNCHANGED vars
  BY <1>6 DEF vars, Contract!vars
<1>. QED  BY <1>1, <1>2, <1>3, <1>4, <1>5, <1>6 DEF Next

(***************************************************************************)
(* When the bucket answers no error code, S3Store keeps the backend        *)
(* contract for every number of blocks, contents and open options: open    *)
(* reports AlreadyExists and UnsupportedFormat exactly when they hold, an  *)
(* Ok write_block is in the bucket, read_block returns the block or None,  *)
(* and a call cut short in transit leaves a state an Io error allows.      *)
(* (With error codes the contract fails: the s3_status run.)               *)
(***************************************************************************)
THEOREM ContractKept == NoStatus => (Spec => DataStoreContract)
<1>. SUFFICES ASSUME NoStatus PROVE Spec => Contract!Spec
  BY DEF DataStoreContract
<1>1. Init => Contract!Init
  BY DEF Init, Contract!Init, Contract!Empty, Stores, Contract!Stores, R, Contract!R
<1>2. TypeOK /\ [Next]_vars => [Contract!Next]_Contract!vars
  BY StepRefines
<1>3. Spec => []TypeOK
  BY TypeCorrect
<1>. QED  BY <1>1, <1>2, <1>3, PTL DEF Spec, Contract!Spec

=============================================================================
