---------------------------- MODULE ObjectStream ----------------------------
(***************************************************************************)
(* What an Object promises its caller (spec sections 4.5 and 8, property  *)
(* 3): a byte stream with a seek position.  write(W) at p makes the       *)
(* stream B[0..p] || W || B[p+len(W)..] and moves the position past W;    *)
(* flush and drop do not change the stream; seek moves the position      *)
(* within 0..len; truncate(n) below the length cuts the stream to n bytes *)
(* and puts the position at n; read advances the position over bytes of  *)
(* the stream.                                                             *)
(***************************************************************************)
EXTENDS Naturals, Sequences

CONSTANT Byte

VARIABLES data, pos

\* B[0..p] || W || B[p+len(W)..]
Overwrite(B, p, W) ==
    SubSeq(B, 1, p) \o W \o SubSeq(B, p + Len(W) + 1, Len(B))

Init == data \in Seq(Byte) /\ pos = 0

\* The written bytes W are data'[pos+1..pos'].
Write == /\ pos' > pos
         /\ pos' <= Len(data')
         /\ data' = Overwrite(data, pos, SubSeq(data', pos + 1, pos'))

Seek == \E p \in 0..Len(data) : pos' = p /\ UNCHANGED data

Truncate == \E n \in 0..(Len(data) - 1) : data' = SubSeq(data, 1, n) /\ pos' = n

Read == \E k \in 1..(Len(data) - pos) : pos' = pos + k /\ UNCHANGED data

Next == Write \/ Seek \/ Truncate \/ Read

Spec == Init /\ [][Next]_<<data, pos>>

=============================================================================
