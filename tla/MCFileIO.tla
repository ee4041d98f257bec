------------------------------ MODULE MCFileIO ------------------------------
(* Small instances of FileIO: files of none to five bytes, chunks of two.  *)
EXTENDS FileIO

MCContents == {<<>>, <<1>>, <<1, 2>>, <<1, 2, 3>>, <<1, 2, 3, 4, 5>>}

MCOneFile == {<<1, 2, 3>>}
=============================================================================
