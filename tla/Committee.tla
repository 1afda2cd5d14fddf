----------------------------- MODULE Committee ------------------------------
(***************************************************************************)
(* The committee of the configuration (config/src/lib.rs): who is in it,   *)
(* with what stake, and the stake a quorum and an availability certificate *)
(* take.  It is read from a file once and never changes.  Stake is a u32;  *)
(* sums and products wrap at MaxStake.  An address is named by the primary *)
(* that listens there.                                                     *)
(***************************************************************************)
EXTENDS Integers, FiniteSets, FiniteSetsExt

CONSTANTS
    authorities,  \* the stake of each member, by its public key
    MaxStake      \* the largest u32

ASSUME CommitteeAssumption ==
    /\ MaxStake \in Nat
    /\ IsFiniteSet(DOMAIN authorities)
    /\ authorities \in [DOMAIN authorities -> 0 .. MaxStake]

Wrap(x) == x % (MaxStake + 1)

size == Cardinality(DOMAIN authorities)
stake(n) == IF n \in DOMAIN authorities THEN authorities[n] ELSE 0

\* The stake of the names in S.
StakeOf(S)  == MapThenSumSet(stake, S)
total_stake == Wrap(StakeOf(DOMAIN authorities))

\* For a total stake of N.
Quorum(N)   == Wrap(2 * N) \div 3 + 1
Validity(N) == Wrap(N + 2) \div 3

quorum_threshold   == Quorum(total_stake)
validity_threshold == Validity(total_stake)

NotInCommittee == "NotInCommittee"
primary(to) == IF to \in DOMAIN authorities THEN to ELSE NotInCommittee
\* The filter that would leave myself out is a comment.
others_primaries(myself) == DOMAIN authorities
=============================================================================
