--------------------------- MODULE MCObjectEngine ---------------------------
(* Small instance of ObjectEngine: two byte values, one of which ends a    *)
(* chunk; an empty object and a two-chunk object as initial handles.       *)
EXTENDS ObjectEngine

MCByte == {0, 1}
MCBoundaryBytes == {1}
MCInitData == {<<>>, <<0, 1, 0>>}
MCWriteInputs == {<<0>>, <<1>>}
\* No write at all: open, flush, seek, truncate, read and drop only.
MCNoWrites == {}
MCReadSizes == {1, 2}
MCMaxBytes == 5
=============================================================================
