----------------------------- MODULE NeroVotes -----------------------------
(***************************************************************************)
(* Votes, tallies and the decision rule of nero_consensus: the pure part   *)
(* of primary/src/{general,vote,election,core}.rs.                         *)
(*                                                                         *)
(* A vote is a record.  The hash of a vote is Digest(v): the code feeds    *)
(* only the signer into the hasher, so a VoteHash names a signer and two   *)
(* votes of one signer in one round collide.                               *)
(***************************************************************************)
EXTENDS Integers, FiniteSets

CONSTANT
    F   \* NUMBER_OF_BYZANTINE_NODES (1 in the code)

ASSUME FAssumption == F \in Nat \ {0}

\* Mutants: the thresholds off by one.
TwiceF == 2 * F
OnlyF  == F

QUORUM      == 2 * F + 1
SEMI_QUORUM == F + 1

Value    == {"Zero", "One"}
VoteType == {"InitialVote", "Commit", "Decide"}
Decision == [value : Value, vote_type : VoteType]

Tally == [zero_votes   : Nat, one_votes   : Nat,
          zero_commits : Nat, one_commits : Nat,
          zero_decides : Nat, one_decides : Nat]

\* Mutant: the value is hashed as well.
DigestOfValue(v) == <<v.signer, v.value>>

Digest(v) == v.signer

NewTally == [zero_votes   |-> 0, one_votes   |-> 0,
             zero_commits |-> 0, one_commits |-> 0,
             zero_decides |-> 0, one_decides |-> 0]

(***************************************************************************)
(* RoundState::tally_vote.  The last branch of the code repeats the test   *)
(* of the one before it (Decide and One), so a Decide for Zero falls       *)
(* through every branch and is not counted.                                *)
(***************************************************************************)
TallyVote(t, v) ==
    CASE v.vote_type = "InitialVote" /\ v.value = "Zero" -> [t EXCEPT !.zero_votes = @ + 1]
      [] v.vote_type = "Commit"      /\ v.value = "Zero" -> [t EXCEPT !.zero_commits = @ + 1]
      [] v.vote_type = "InitialVote" /\ v.value = "One"  -> [t EXCEPT !.one_votes = @ + 1]
      [] v.vote_type = "Commit"      /\ v.value = "One"  -> [t EXCEPT !.one_commits = @ + 1]
      [] v.vote_type = "Decide"      /\ v.value = "One"  -> [t EXCEPT !.one_decides = @ + 1]
      [] OTHER                                           -> t

\* The votes of S of one type and one value.
Votes(S, type, val) == {v \in S : v.vote_type = type /\ v.value = val}

(***************************************************************************)
(* Tally::from_votes: the tally of a set of votes, from nothing.  This one *)
(* counts every kind of vote.                                              *)
(***************************************************************************)
FromVotes(S) ==
    [zero_votes   |-> Cardinality(Votes(S, "InitialVote", "Zero")),
     one_votes    |-> Cardinality(Votes(S, "InitialVote", "One")),
     zero_commits |-> Cardinality(Votes(S, "Commit", "Zero")),
     one_commits  |-> Cardinality(Votes(S, "Commit", "One")),
     zero_decides |-> Cardinality(Votes(S, "Decide", "Zero")),
     one_decides  |-> Cardinality(Votes(S, "Decide", "One"))]

\* What tally_vote makes of the votes of S, one after the other.
Seen(S) == [FromVotes(S) EXCEPT !.zero_decides = 0]

Choice(type, val) == [value |-> val, vote_type |-> type]

\* The branch of make_decision that logs "This should not happen!!!".
CommitClash(t) == t.zero_commits >= SEMI_QUORUM /\ t.one_commits >= SEMI_QUORUM

\* Mutant: a commit seen in the round is not adopted.
ZeroQuorum(t) == t.zero_votes >= QUORUM

\* The branches of make_decision that commit to Zero and to One.
CommitsZero(t) == t.zero_votes >= QUORUM \/ t.zero_commits > 0
CommitsOne(t)  == t.one_votes >= QUORUM \/ t.one_commits > 0

(***************************************************************************)
(* Core::make_decision of a node that is not byzantine.  The branches are  *)
(* tried in the order of the code; the two that only log keep the default, *)
(* an InitialVote for Zero.                                                *)
(***************************************************************************)
MakeDecision(t) ==
    IF CommitClash(t) THEN Choice("InitialVote", "Zero")
    ELSE IF t.one_decides > 0 THEN Choice("Decide", "One")
    ELSE IF t.zero_decides > 0 THEN Choice("Decide", "Zero")
    ELSE IF t.zero_commits >= QUORUM THEN Choice("Decide", "Zero")
    ELSE IF t.one_commits >= QUORUM THEN Choice("Decide", "One")
    ELSE IF CommitsZero(t) THEN Choice("Commit", "Zero")
    ELSE IF CommitsOne(t) THEN Choice("Commit", "One")
    ELSE IF t.zero_votes >= SEMI_QUORUM THEN Choice("InitialVote", "Zero")
    ELSE IF /\ t.zero_votes < SEMI_QUORUM /\ t.one_votes < QUORUM
            /\ t.zero_commits = 0 /\ t.one_commits = 0
         THEN Choice("InitialVote", "One")
    ELSE Choice("InitialVote", "Zero")

\* Decision::random, what a byzantine node uses in place of the rule.
RandomDecisions == [value : Value, vote_type : {"InitialVote", "Commit"}]
=============================================================================
