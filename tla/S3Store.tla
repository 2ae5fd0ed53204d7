------------------------------ MODULE S3Store ------------------------------
(***************************************************************************)
(* S3Store of src/src/store/s3.rs: the DataStore that keeps each block as  *)
(* the bucket object block/<uuid>, and the store's format as the object    *)
(* "version".  Every method is one or more requests to the bucket.         *)
(*                                                                         *)
(* A request gets one of three replies (Replies):                          *)
(*   "ok"        the request succeeded; a get of a missing key answers    *)
(*               404, which is how the bucket says absent;                 *)
(*   "status"    the bucket answered with an error code other than 404     *)
(*               (403, 500, 503 SlowDown): the Bucket calls return it as   *)
(*               Ok((body, code)), body being the XML of the error, as     *)
(*               read_block's test of code shows;                          *)
(*   "transport" the call returned Err; the request may or may not have    *)
(*               reached the bucket.                                       *)
(* Faults says which of the last two the bucket and the network produce.  *)
(*                                                                         *)
(* The variables are those of DataStore: the bucket's "version" object     *)
(* (format), its block/ objects (blocks), whether the caller holds an     *)
(* S3Store, and what the last call returned.                               *)
(***************************************************************************)

CONSTANTS
    BlockIds,    \* the block ids (uuids) the repository uses
    Data,        \* the block contents
    Absent,      \* no object under a key, and read_block's None
    ErrorBody,   \* the XML body of an error reply
    OpenOptions, \* the option sets open is called with
    Faults       \* the failed replies a request may get

VARIABLES
    format,      \* the bucket's "version" object: "none" or "current"
    blocks,      \* the bucket's block/ objects: block id -> contents or Absent
    opened,      \* whether the caller holds an S3Store
    call,        \* the last call the caller made
    reply        \* what it returned

vars == <<format, blocks, opened, call, reply>>

\* The replies: a bare outcome, read_block's Option, list_blocks' ids.
R(kind) == [kind |-> kind, val |-> Absent]

Read(v) == [kind |-> "read", val |-> v]

Listed(ids) == [kind |-> "list", val |-> ids]

ASSUME S3Assumption ==
    /\ Faults \subseteq {"status", "transport"}
    /\ OpenOptions \subseteq SUBSET {"CREATE", "CREATE_NEW", "TRUNCATE"}
    /\ Absent \notin Data /\ ErrorBody \notin Data \cup {Absent}

Replies == {"ok"} \cup Faults

Stores == [BlockIds -> Data \cup {Absent}]

\* What a call leaves when its request failed in transit: applied or not.
Maybe(id, v) == {blocks, [blocks EXCEPT ![id] = v]}

Fail(b) == /\ blocks' \in b
           /\ reply' = R("err")
           /\ UNCHANGED opened

Answer(r) == reply' = r /\ UNCHANGED <<format, blocks, opened>>

-----------------------------------------------------------------------------
\* get_object("version") then Uuid::from_slice(..).ok() == CURRENT_VERSION:
\* a 404 or an error body is not a uuid.
Found(r) == r = "ok" /\ format = "current"

\* put_object("version", CURRENT_VERSION): the code of the reply is dropped.
PutVersion(r) == IF r = "ok" THEN "current" ELSE format

\* The blocks the TRUNCATE loop leaves: a delete_object whose reply was a
\* status code leaves its block, and the loop goes on.
Truncated(statusSeen) ==
    {b \in Stores : \A i \in BlockIds :
        b[i] \in IF statusSeen THEN {blocks[i], Absent} ELSE {Absent}}

(***************************************************************************)
(* OpenStore::open: the version check, the version put when CREATE or     *)
(* CREATE_NEW is given and the store was not found, then with TRUNCATE the *)
(* list_all of block/ and a delete_object of each block.  r1, r2, r3 are   *)
(* the replies of the get, the put and the list; r4 is the worst reply of  *)
(* the deletes ("transport" ends the loop with Err).                       *)
(***************************************************************************)
OpenReplies(opts, r1, r2, r3, r4) ==
    LET create == opts \cap {"CREATE", "CREATE_NEW"} # {}
        v == IF Found(r1) THEN format ELSE PutVersion(r2)
    IN  IF r1 = "transport" THEN Fail({blocks}) /\ UNCHANGED format
        ELSE IF Found(r1) /\ "CREATE_NEW" \in opts THEN Answer(R("exists"))
        ELSE IF ~Found(r1) /\ ~create THEN Answer(R("unsupported"))
        ELSE IF ~Found(r1) /\ r2 = "transport"
             THEN Fail({blocks}) /\ format' \in {format, "current"}
        ELSE IF "TRUNCATE" \notin opts
             THEN format' = v /\ opened' = TRUE /\ reply' = R("ok") /\ UNCHANGED blocks
        ELSE IF r3 # "ok" THEN Fail({blocks}) /\ format' = v
        ELSE IF r4 = "transport" THEN Fail(Truncated(TRUE)) /\ format' = v
        ELSE /\ format' = v
             /\ blocks' \in Truncated(r4 = "status")
             /\ opened' = TRUE
             /\ reply' = R("ok")

\* open, with the replies its requests get.
Open(opts) ==
    /\ call' = <<"open", opts>>
    /\ \E r1, r2, r3, r4 \in Replies : OpenReplies(opts, r1, r2, r3, r4)

\* Mutant: a write_block that swallows the error of the put (let _ = ..).
WriteBlockSwallowsError(id, v) ==
    /\ call' = <<"write", id, v>>
    /\ opened
    /\ \E r \in Replies :
          CASE r = "ok"     -> blocks' = [blocks EXCEPT ![id] = v] /\ reply' = R("ok")
            [] r = "status" -> reply' = R("ok") /\ UNCHANGED blocks
            [] OTHER        -> blocks' \in Maybe(id, v) /\ reply' = R("ok")
    /\ UNCHANGED <<format, opened>>

\* write_block: put_object(block/<id>); the code of the reply is dropped.
WriteBlock(id, v) ==
    /\ call' = <<"write", id, v>>
    /\ opened
    /\ \E r \in Replies :
          CASE r = "ok"     -> blocks' = [blocks EXCEPT ![id] = v] /\ reply' = R("ok")
            [] r = "status" -> reply' = R("ok") /\ UNCHANGED blocks
            [] OTHER        -> Fail(Maybe(id, v))
    /\ UNCHANGED <<format, opened>>

\* read_block: get_object(block/<id>); code 404 is None, any other code Some(body).
ReadBlock(id) ==
    /\ call' = <<"read", id>>
    /\ opened
    /\ \E r \in Replies :
          CASE r = "ok"     -> reply' = Read(blocks[id])
            [] r = "status" -> reply' = Read(ErrorBody)
            [] OTHER        -> reply' = R("err")
    /\ UNCHANGED <<format, blocks, opened>>

\* remove_block: delete_object(block/<id>); the code of the reply is dropped.
RemoveBlock(id) ==
    /\ call' = <<"remove", id>>
    /\ opened
    /\ \E r \in Replies :
          CASE r = "ok"     -> blocks' = [blocks EXCEPT ![id] = Absent] /\ reply' = R("ok")
            [] r = "status" -> reply' = R("ok") /\ UNCHANGED blocks
            [] OTHER        -> Fail(Maybe(id, Absent))
    /\ UNCHANGED <<format, opened>>

\* Mutant: list_all("") without the block/ prefix, which also lists "version".
ListBlocksNoPrefix ==
    /\ call' = <<"list">>
    /\ opened
    /\ \E r \in Replies :
          reply' = IF r = "ok"
                   THEN Listed({i \in BlockIds : blocks[i] # Absent}
                               \cup (IF format = "current" THEN {"version"} ELSE {}))
                   ELSE R("err")
    /\ UNCHANGED <<format, blocks, opened>>

\* list_blocks: list_all("block/"), each key parsed back to a uuid.  An error
\* body does not deserialise as a ListBucketResult, so a status is an Err.
ListBlocks ==
    /\ call' = <<"list">>
    /\ opened
    /\ \E r \in Replies :
          reply' = IF r = "ok" THEN Listed({i \in BlockIds : blocks[i] # Absent}) ELSE R("err")
    /\ UNCHANGED <<format, blocks, opened>>

-----------------------------------------------------------------------------
\* A bucket without the version object holds no blocks; the caller starts
\* without an S3Store.
Init ==
    /\ format \in {"none", "current"}
    /\ blocks \in IF format = "none" THEN {[i \in BlockIds |-> Absent]} ELSE Stores
    /\ opened = FALSE
    /\ call = <<>>
    /\ reply = R("none")

Next ==
    \/ \E opts \in OpenOptions : Open(opts)
    \/ \E id \in BlockIds, v \in Data : WriteBlock(id, v)
    \/ \E id \in BlockIds : ReadBlock(id) \/ RemoveBlock(id)
    \/ ListBlocks

Spec == Init /\ [][Next]_vars

-----------------------------------------------------------------------------
TypeOK ==
    /\ format \in {"none", "current"}
    /\ blocks \in Stores
    /\ opened \in BOOLEAN
    /\ call \in {<<>>, <<"list">>} \cup ({"open"} \X OpenOptions)
                \cup ({"write"} \X BlockIds \X Data) \cup ({"read", "remove"} \X BlockIds)
    /\ reply \in {R(k) : k \in {"none", "ok", "err", "exists", "unsupported"}}
                 \cup {Read(v) : v \in Data \cup {Absent, ErrorBody}}
                 \cup {Listed(ids) : ids \in SUBSET BlockIds}

Contract == INSTANCE DataStore

(***************************************************************************)
(* S3Store keeps the backend contract: every open, write_block,           *)
(* read_block, remove_block and list_blocks is a step DataStore allows, so *)
(* an Ok write is in the bucket, a read returns the block or None, and     *)
(* open reports AlreadyExists and UnsupportedFormat only when they hold.   *)
(***************************************************************************)
DataStoreContract == Contract!Spec

=============================================================================
