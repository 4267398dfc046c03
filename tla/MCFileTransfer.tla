--------------------------- MODULE MCFileTransfer ---------------------------
(* FileTransfer for TLC: an empty file, and two files of two chunks.       *)
EXTENDS FileTransfer

SmallContents == {<<>>, <<1, 1>>, <<2, 2>>}
=============================================================================
