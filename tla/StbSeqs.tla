------------------------------ MODULE StbSeqs ------------------------------
(* Sequences put together, for the codecs.                                   *)
EXTENDS Sequences, FiniteSetsExt

\* The sequences of ss one after the other.
Concat(ss) == MapThenFoldSet(LAMBDA a, b : a \o b, <<>>, LAMBDA i : ss[i], Min, DOMAIN ss)
=============================================================================
