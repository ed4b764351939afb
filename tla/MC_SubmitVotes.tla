--------------------------- MODULE MC_SubmitVotes ---------------------------
(***************************************************************************)
(* Model-checking instance of SubmitVotes: two voters, a chain of at most  *)
(* two entries, so that one voter's receipt can be replayed to the other.  *)
(***************************************************************************)
EXTENDS SubmitVotes, TLC

\* Voters are interchangeable: nothing of the protocol orders them, and a
\* voter's key and content hash are named by the voter itself.
VoterSymmetry == Permutations(Voters)

=============================================================================
