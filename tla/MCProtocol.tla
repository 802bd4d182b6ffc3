----------------------------- MODULE MCProtocol -----------------------------
(* Model-checking instance of Protocol.                                     *)
EXTENDS Protocol, SequencesExt

CONSTANT MaxChunks

\* Payloads put together from CR LF pairs, single CRs and printable bytes.
Chunks == {<<"CR", "LF">>, <<"CR">>, <<"x">>}
MCPayloads ==
  {FlattenSeq(<<first>> \o cs) : first \in {<<>>, <<"*">>},
                                 cs \in UNION {[1 .. n -> Chunks] : n \in 0 .. MaxChunks}}
=============================================================================
