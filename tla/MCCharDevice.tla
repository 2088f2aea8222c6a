---------------------------- MODULE MCCharDevice ----------------------------
(* Instances of CharDevice for TLC. *)
EXTENDS CharDevice, SequencesExt

\* Strings over two characters, at most n long.
StringsUpTo(n) == SeqOf(Chars, n)
\* Every string the buffer holds, the empty one included.
ShortStrings == StringsUpTo(BufLen - 1)

\* echo: bytes without a NUL, shorter than the buffer.
ShortWrites == StringsUpTo(BufLen - 2)
=============================================================================
