----------------------------- MODULE DataStore -----------------------------
(***************************************************************************)
(* What a block store backend promises the repository (spec sections 4.1, *)
(* 6 and 7).  open checks the format: CREATE_NEW on an existing store is   *)
(* AlreadyExists, opening a store that does not exist without CREATE or    *)
(* CREATE_NEW is UnsupportedFormat, and TRUNCATE removes every block.  A   *)
(* successful write_block is durable, read_block returns the block or     *)
(* absent, remove_block is idempotent and list_blocks names the blocks.   *)
(* Any call may fail with an Io error; a failed call may or may not have  *)
(* taken effect, and the caller may retry it.                              *)
(***************************************************************************)

CONSTANTS
    BlockIds,    \* the block ids the repository uses
    Data,        \* the block contents
    Absent,      \* no block under an id, and read_block's None
    OpenOptions  \* the option sets open is called with

VARIABLES
    format,      \* "none", or "current" once the store is created
    blocks,      \* block id -> contents or Absent
    opened,      \* whether the caller holds an open store
    call,        \* the last call the caller made
    reply        \* what it returned

vars == <<format, blocks, opened, call, reply>>

\* The replies: a bare outcome, read_block's Option, list_blocks' ids.
R(kind) == [kind |-> kind, val |-> Absent]

Read(v) == [kind |-> "read", val |-> v]

Listed(ids) == [kind |-> "list", val |-> ids]

Stores == [BlockIds -> Data \cup {Absent}]

\* The stores a call that failed part-way may leave: each block written or not.
MaybeWritten(id, v) == {blocks, [blocks EXCEPT ![id] = v]}

MaybeErased == {b \in Stores : \A i \in BlockIds : b[i] \in {blocks[i], Absent}}

Empty == [i \in BlockIds |-> Absent]

Init ==
    /\ format \in {"none", "current"}
    /\ blocks \in IF format = "none" THEN {Empty} ELSE Stores
    /\ opened = FALSE
    /\ call = <<>>
    /\ reply = R("none")

Open(opts) ==
    LET create == opts \cap {"CREATE", "CREATE_NEW"} # {} IN
    /\ call' = <<"open", opts>>
    /\ \/ /\ format = "current" /\ "CREATE_NEW" \in opts
          /\ reply' = R("exists")
          /\ UNCHANGED <<format, blocks, opened>>
       \/ /\ format = "none" /\ ~create
          /\ reply' = R("unsupported")
          /\ UNCHANGED <<format, blocks, opened>>
       \/ /\ IF format = "current" THEN "CREATE_NEW" \notin opts ELSE create
          /\ format' = "current"
          /\ blocks' = IF "TRUNCATE" \in opts THEN Empty ELSE blocks
          /\ opened' = TRUE
          /\ reply' = R("ok")
       \/ /\ format' \in {format, "current"}
          /\ blocks' \in MaybeErased
          /\ reply' = R("err")
          /\ UNCHANGED opened

WriteBlock(id, v) ==
    /\ call' = <<"write", id, v>>
    /\ opened
    /\ \/ blocks' = [blocks EXCEPT ![id] = v] /\ reply' = R("ok")
       \/ blocks' \in MaybeWritten(id, v) /\ reply' = R("err")
    /\ UNCHANGED <<format, opened>>

ReadBlock(id) ==
    /\ call' = <<"read", id>>
    /\ opened
    /\ reply' \in {Read(blocks[id]), R("err")}
    /\ UNCHANGED <<format, blocks, opened>>

RemoveBlock(id) ==
    /\ call' = <<"remove", id>>
    /\ opened
    /\ \/ blocks' = [blocks EXCEPT ![id] = Absent] /\ reply' = R("ok")
       \/ blocks' \in MaybeWritten(id, Absent) /\ reply' = R("err")
    /\ UNCHANGED <<format, opened>>

ListBlocks ==
    /\ call' = <<"list">>
    /\ opened
    /\ reply' \in {Listed({i \in BlockIds : blocks[i] # Absent}), R("err")}
    /\ UNCHANGED <<format, blocks, opened>>

Next ==
    \/ \E opts \in OpenOptions : Open(opts)
    \/ \E id \in BlockIds, v \in Data : WriteBlock(id, v)
    \/ \E id \in BlockIds : ReadBlock(id) \/ RemoveBlock(id)
    \/ ListBlocks

Spec == Init /\ [][Next]_vars

=============================================================================
