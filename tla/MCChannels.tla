----------------------------- MODULE MCChannels -----------------------------
(* Channels and publishers are interchangeable. *)
EXTENDS Channels, TLC

Interchangeable == Permutations(Names) \cup Permutations(Pubs)
=============================================================================
