------------------------------ MODULE MCS3Store ------------------------------
(* Three blocks, two contents, and every combination of the open options.   *)
EXTENDS S3Store

MCOpenOptions == SUBSET {"CREATE", "CREATE_NEW", "TRUNCATE"}
=============================================================================
