---------------------------- MODULE MCPacketStream ----------------------------
(****************************************************************************)
(* PacketStream with contents for TLC: "" , "OK", "zzz" with a sum above    *)
(* 256, "0**" (the count of the run is a '*' as well), and "a* 1* ".        *)
(****************************************************************************)
EXTENDS PacketStream

MCRuns(chars, more) == [i \in DOMAIN chars |-> [ch |-> chars[i], more |-> more[i]]]

MCPayloads ==
  {MCRuns(<<>>, <<>>), MCRuns(<<79, 75>>, <<0, 0>>), MCRuns(<<122, 122, 122>>, <<0, 0, 0>>),
   MCRuns(<<48>>, <<13>>), MCRuns(<<97, 49>>, <<3, 3>>)}
=============================================================================
