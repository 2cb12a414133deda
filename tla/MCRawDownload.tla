--------------------------- MODULE MCRawDownload ---------------------------
(* An instance of RawDownload for TLC: the second message of each chat cannot be
   made into a post. *)
EXTENDS RawDownload

EverySecond == Chats \X {2}
=============================================================================
