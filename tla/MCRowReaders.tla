---------------------------- MODULE MCRowReaders ----------------------------
(* The instance of RowReaders for TLC. *)
EXTENDS RowReaders

LongSet  == <<100>>
Three    == {3}
NotBound == {TRUE}
OnlyNext == {"next"}
Nowhere  == {}
OnlyGet  == {"get"}
=============================================================================
