---------------------------- MODULE MCFuseAdapter ----------------------------
(* A FileRepo holding a directory a and a file b under the root, two names, *)
(* paths of two components, four inodes, one handle, room for one more   *)
(* entry, and replies that hold one directory entry.                     *)
EXTENDS FuseAdapter

MCNames == {"a", "b"}

MCInitRepo ==
    [p \in Paths |->
        CASE p = <<>>     -> [kind |-> "dir", id |-> 1]
          [] p = <<"a">>  -> [kind |-> "dir", id |-> 2]
          [] p = <<"b">>  -> [kind |-> "file", id |-> 3]
          [] OTHER        -> NoEntry]

MCInitInodes ==
    [i \in Inodes |-> CASE i = 1 -> <<>>
                      [] i = 2 -> <<"a">>
                      [] i = 3 -> <<"b">>
                      [] OTHER -> NoPath]

\* Every file type, with and without permission bits.
MCAllModes == {"REG", "CHR", "DIR", "BLK", "FIFO", "LNK", "SOCK"} \X BOOLEAN
=============================================================================
