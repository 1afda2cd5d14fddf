--------------------------- MODULE NeroInvariant ---------------------------
(***************************************************************************)
(* The inductive invariant of NeroCore from which its safety properties    *)
(* are proved.  ViewInv is about what each node holds by itself, and holds *)
(* of primaries that restart too (NeroRestart); Inv adds that nobody ever  *)
(* forgets a vote of its own.                                              *)
(***************************************************************************)
EXTENDS NeroCore

\* What a node validated in a round of an election are finitely many votes
\* broadcast for that round and election.
ViewsAreVotes ==
    \A n \in Node, e \in Election, r \in Round :
        /\ IsFiniteSet(Validated(n, e, r))
        /\ \A w \in Validated(n, e, r) :
              w \in msgs /\ w.round = r /\ w.election_hash = e

\* A node holds one vote of each signer in a round.
HeldOnce ==
    \A n \in Node, e \in Election, r \in Round :
        \A v, w \in Validated(n, e, r) : v.signer = w.signer => v = w

\* A round is marked as voted just when it holds a vote of the node itself.
VotedHasVote ==
    \A n \in Node, e \in Election, r \in Round :
        elections[n][e].state[r].voted <=>
            \E w \in Validated(n, e, r) : w.signer = n

\* A node validates votes of a round only once it has voted in it itself, or
\* decided.
VotesFirst ==
    \A n \in Node, e \in Election, r \in Round :
        Validated(n, e, r) # {} =>
            elections[n][e].state[r].voted \/ elections[n][e].is_decided

\* A node marks no round as voted before the round that precedes it.
VotesInOrder ==
    \A n \in Node, e \in Election, r \in Round \ {0} :
        elections[n][e].state[r].voted => elections[n][e].state[r - 1].voted

\* Votes of round 0 are initial votes.
StartsInitial == \A v \in msgs : v.round = 0 => v.vote_type = "InitialVote"

\* The votes of n itself among those it validated in round r.
OwnVotesOf(n, e, r) == {v \in Validated(n, e, r) : v.signer = n}

\* The election is decided at the signer of a Decide.
DecideIsFinal ==
    \A n \in Node, e \in Election, r \in Round : \A v \in OwnVotesOf(n, e, r) :
        v.vote_type = "Decide" => elections[n][e].is_decided

\* What a node decided it cast a Decide for.
DecidedByVote ==
    \A n \in Node, e \in Election :
        decided[n][e] # None =>
            \E r \in Round : \E v \in OwnVotesOf(n, e, r) :
                v.vote_type = "Decide" /\ v.value = decided[n][e]

VoteChoice(v) == Choice(v.vote_type, v.value)

\* A vote of a node that follows the rule is what the rule makes of its own
\* tally of the votes the proof names; one of them is its own, not a Decide.
HonestJustified ==
    \A n \in Honest, e \in Election, r \in Round \ {0} :
        \A v \in OwnVotesOf(n, e, r) :
            LET S == ProofVotes(n, v)
            IN  /\ v.proof \subseteq {Digest(w) : w \in S}
                /\ VoteChoice(v) = MakeDecision(Seen(S))
                /\ \E w \in S : w.vote_type # "Decide"

\* A vote a node that follows the rule validated is what the rule makes of the
\* votes the proof names, all of which it holds.
ValidatedJustified ==
    \A n \in Honest, e \in Election, r \in Round \ {0} :
        \A v \in Validated(n, e, r) : v.signer # n =>
            /\ v.proof \subseteq {Digest(w) : w \in ProofVotes(n, v)}
            /\ VoteChoice(v) = MakeDecision(FromVotes(ProofVotes(n, v)))

\* The state of the votes: who holds what.
VotesInv ==
    /\ TypeOK
    /\ ViewsAreVotes
    /\ HeldOnce
    /\ VotedHasVote
    /\ StartsInitial

\* The advance from round to round: quorums, tallies and decisions.
RoundsInv ==
    /\ VotesFirst
    /\ VotesInOrder
    /\ NoMissedAdvance
    /\ TallyMatchesVotes
    /\ ProofsAreQuorums
    /\ DecideIsFinal
    /\ DecidedByVote

\* The votes follow the decision rule.
RuleInv == HonestJustified /\ ValidatedJustified

\* What each node holds is sound by itself: it bounds what any vote in it may
\* say by the quorum of votes, held with it, that it was made of.
ViewInv == VotesInv /\ RoundsInv /\ RuleInv

\* The signer of a vote holds it among the votes it validated, and has marked
\* its round as voted.
OwnVotesKept ==
    \A v \in msgs :
        /\ v \in Validated(v.signer, v.election_hash, v.round)
        /\ elections[v.signer][v.election_hash].state[v.round].voted

\* The inductive invariant of the core: every step preserves it.
Inv ==
    /\ ViewInv
    /\ OwnVotesKept
    /\ NoEquivocation
    /\ DecideIsLastVote
=============================================================================
