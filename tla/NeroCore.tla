----------------------------- MODULE NeroCore ------------------------------
(***************************************************************************)
(* The voting core of the primaries (primary/src/core.rs): every node runs *)
(* one task, Core::run, that takes a transaction or a vote from its        *)
(* channels and handles it to the end, so one handler is one step.         *)
(*                                                                         *)
(* The network is the set msgs of the votes ever broadcast.  A node may    *)
(* handle any of them at any time and any number of times: senders replay  *)
(* their whole history when a connection is made again, and connections    *)
(* are not ordered among each other.  The set also delivers out of order   *)
(* what one sender sent, which a connection does not, so what is safe here *)
(* is safe there.                                                          *)
(*                                                                         *)
(* The second broadcast of handle_vote (core.rs:327) is a future nobody    *)
(* awaits: it never runs, and sent_votes, which only guards it, has no     *)
(* effect.  timed_out and the timer are never set.  None is modelled.      *)
(***************************************************************************)
EXTENDS NeroVotes

CONSTANTS
    Node,       \* the primaries of the committee, named by their public keys
    Byzantine,  \* those started with the byzantine flag
    Election,   \* the digests of the transactions voted upon
    Coin,       \* Coin[n]: the initial values n may draw (all, in the code)
    Hears,      \* Hears[n]: the nodes whose votes reach n (others are late)
    MaxRound    \* bound: votes of this round are cast and not handled

ASSUME CommitteeAssumption ==
    /\ IsFiniteSet(Node)
    /\ Cardinality(Node) = 3 * F + 1
    /\ Byzantine \subseteq Node

ASSUME InputAssumption ==
    /\ Coin \in [Node -> SUBSET Value]
    /\ Hears \in [Node -> SUBSET Node]

ASSUME BoundAssumption == MaxRound \in Nat

Honest == Node \ Byzantine
Round  == 0 .. MaxRound
None   == "None"

(***************************************************************************)
(* A VoteHash is a signer, so a proof is a set of nodes; the missing proof *)
(* of a vote of round 0 is the empty set.                                  *)
(***************************************************************************)
Vote == [signer : Node, round : Round, value : Value, vote_type : VoteType,
         proof : SUBSET Node, election_hash : Election]

\* A vote parked until the votes its proof names arrive.
Parked == [vote : Vote, missing : SUBSET Node]

RoundState == [tally : Tally, voted : BOOLEAN,
               validated_votes : SUBSET Vote, unvalidated_votes : SUBSET Parked]

\* The HashMap of round states is total here: a round without an entry holds
\* a new round state, which is never stored as such (every insert adds a vote).
ElectionState == [state : [Round -> RoundState], is_decided : BOOLEAN]

VARIABLES
    elections,  \* elections[n][e]: the Election of n, a new one if n has none
    decided,    \* decided[n][e]: the value n decided in e, or None
    msgs        \* the votes broadcast so far

vars == <<elections, decided, msgs>>

TypeOK ==
    /\ elections \in [Node -> [Election -> ElectionState]]
    /\ decided \in [Node -> [Election -> Value \union {None}]]
    /\ msgs \subseteq Vote
-----------------------------------------------------------------------------
NewRoundState == [tally |-> NewTally, voted |-> FALSE,
                  validated_votes |-> {}, unvalidated_votes |-> {}]

NewElection == [state |-> [r \in Round |-> NewRoundState], is_decided |-> FALSE]

\* el.state.insert(r, rs)
Insert(el, r, rs) == [el EXCEPT !.state[r] = rs]

Hashes(rs) == {Digest(v) : v \in rs.validated_votes}

Init ==
    /\ elections = [n \in Node |-> [e \in Election |-> NewElection]]
    /\ decided = [n \in Node |-> [e \in Election |-> None]]
    /\ msgs = {}
-----------------------------------------------------------------------------
\* PrimaryVote::random, the drawn value being x.
RandomVote(n, e, x) ==
    [signer |-> n, round |-> 0, value |-> x, vote_type |-> "InitialVote",
     proof |-> {}, election_hash |-> e]

\* Mutant: the round of the vote is one too high.
SkippingVote(n, e, r, d, rs) ==
    [signer |-> n, round |-> r + 1, value |-> d.value, vote_type |-> d.vote_type,
     proof |-> Hashes(rs), election_hash |-> e]

\* The vote n casts in round r for the decision d, proved by the votes of rs.
NextVote(n, e, r, d, rs) ==
    [signer |-> n, round |-> r, value |-> d.value, vote_type |-> d.vote_type,
     proof |-> Hashes(rs), election_hash |-> e]

\* validated_votes.insert and tally_vote.
Count(rs, v) ==
    [rs EXCEPT !.validated_votes = @ \union {v}, !.tally = TallyVote(@, v)]

\* Mutants: a vote is counted and the round not marked as voted; a vote of the
\* node itself is counted twice.
CastUnmarked(rs, v) == Count(rs, v)
CastTwice(rs, v)    == [Count(Count(rs, v), v) EXCEPT !.voted = TRUE]

\* A vote of the node itself is counted and marks the round as voted.
CastVote(rs, v) == [Count(rs, v) EXCEPT !.voted = TRUE]

\* make_decision of node n: a byzantine node draws it unless it saw a Decide.
Decisions(n, t) ==
    IF n \in Byzantine /\ t.one_decides = 0 THEN RandomDecisions ELSE {MakeDecision(t)}
-----------------------------------------------------------------------------
(***************************************************************************)
(* Core::handle_transaction.  The transactions of one message are handled  *)
(* one after the other; a vote handled between two of them only adds       *)
(* behaviours, as elections do not share state.                            *)
(***************************************************************************)
HandleTransaction(n, e) ==
    LET el == elections[n][e]
        rs == el.state[0]
    IN  /\ ~rs.voted
        /\ \E x \in Coin[n] :
               LET own == RandomVote(n, e, x)
               IN  /\ elections' = [elections EXCEPT ![n][e] = Insert(el, 0, CastVote(rs, own))]
                   /\ msgs' = msgs \union {own}
        /\ UNCHANGED decided
-----------------------------------------------------------------------------
\* The votes n validated in round r of election e.
Validated(n, e, r) == elections[n][e].state[r].validated_votes

\* Those of the round before v that the proof of v names.
ProofVotes(n, v) ==
    {w \in Validated(n, v.election_hash, v.round - 1) : Digest(w) \in v.proof}

\* Mutant: the decision rule is not applied to the proof.
ValidateProof(n, v) ==
    IF v.round = 0 \/ v.proof \subseteq {Digest(w) : w \in ProofVotes(n, v)}
    THEN {"Valid"} ELSE {"Pending"}

\* Mutant: the decision is made of all votes of the round before, those the proof
\* does not name included.
ValidateRound(n, v) ==
    LET before     == Validated(n, v.election_hash, v.round - 1)
        verdict(d) == IF d.value = v.value /\ d.vote_type = v.vote_type
                      THEN "Valid" ELSE "Invalid"
    IN  IF v.round = 0 THEN {"Valid"}
        ELSE IF ~(v.proof \subseteq {Digest(w) : w \in before}) THEN {"Pending"}
        ELSE {verdict(d) : d \in Decisions(n, FromVotes(before))}

(***************************************************************************)
(* Core::validate_vote: the outcomes it may have at n for the vote v.  The *)
(* proof is looked up by hash among the votes n itself validated in the    *)
(* round before, and the decision rule must give the vote back.            *)
(***************************************************************************)
ValidateVote(n, v) ==
    LET before     == Validated(n, v.election_hash, v.round - 1)
        verdict(d) == IF d.value = v.value /\ d.vote_type = v.vote_type
                      THEN "Valid" ELSE "Invalid"
    IN  IF v.round = 0
        THEN {IF v.vote_type = "InitialVote" THEN "Valid" ELSE "Invalid"}
        ELSE IF before = {}     \* no state for the round before
        THEN {"Invalid"}
        ELSE IF ~(v.proof \subseteq {Digest(w) : w \in before})
        THEN {"Pending"}
        ELSE {verdict(d) : d \in Decisions(n, FromVotes(ProofVotes(n, v)))}

(***************************************************************************)
(* Core::validate_pending_votes.  What the code also writes to             *)
(* self.elections here its caller overwrites with its own, older copy of   *)
(* the election (core.rs:415), so only the parked hashes change.           *)
(***************************************************************************)
ValidatePendingVotes(rs, v) ==
    [rs EXCEPT !.unvalidated_votes =
        {[p EXCEPT !.missing = @ \ {Digest(v)}] : p \in @}]

\* The round state of n once the valid vote v is counted.
Accepted(n, v) ==
    LET rs == Count(elections[n][v.election_hash].state[v.round], v)
    IN  ValidatePendingVotes([rs EXCEPT !.voted = @ \/ v.signer = n], v)

\* Mutant: only a transaction makes a node vote.
DrawsNothing(n, v) == {None}

\* A first vote of round 0 makes a node that has not voted draw its own: the
\* values n may draw on accepting v, None for no vote of its own.
Draws(n, v) ==
    IF v.round = 0 /\ ~Accepted(n, v).voted THEN Coin[n] ELSE {None}

\* The vote of its own that n casts in the round of v, if any.
OwnVotes(n, v, x) == IF x = None THEN {} ELSE {RandomVote(n, v.election_hash, x)}

\* Mutant: the node's own vote is put into a fresh copy of the round.
JoinedFresh(n, v, x) ==
    IF x = None THEN Accepted(n, v)
    ELSE CastVote(NewRoundState, RandomVote(n, v.election_hash, x))

\* The round state of n with v and that vote.
Joined(n, v, x) ==
    IF x = None THEN Accepted(n, v)
    ELSE CastVote(Accepted(n, v), RandomVote(n, v.election_hash, x))

\* Mutants: one vote less than a quorum is enough; one more is needed; a node
\* goes on voting after its Decide.
AdvancesEarly(n, v, rs) ==
    LET el == elections[n][v.election_hash]
    IN  /\ Cardinality(rs.validated_votes) >= QUORUM - 1
        /\ ~el.state[v.round + 1].voted
        /\ ~el.is_decided
AdvancesLate(n, v, rs) ==
    LET el == elections[n][v.election_hash]
    IN  /\ Cardinality(rs.validated_votes) > QUORUM
        /\ ~el.state[v.round + 1].voted
        /\ ~el.is_decided
AdvancesDecided(n, v, rs) ==
    LET el == elections[n][v.election_hash]
    IN  /\ Cardinality(rs.validated_votes) >= QUORUM
        /\ ~el.state[v.round + 1].voted

\* A quorum of the round is validated, and n has not voted in the next one.
Advances(n, v, rs) ==
    LET el == elections[n][v.election_hash]
    IN  /\ Cardinality(rs.validated_votes) >= QUORUM
        /\ ~el.state[v.round + 1].voted
        /\ ~el.is_decided

\* The valid branch of handle_vote when no vote of the next round is cast.
Stay(n, v) ==
    LET e == v.election_hash
    IN  \E x \in Draws(n, v) :
          LET rs == Joined(n, v, x)
          IN  /\ ~Advances(n, v, rs)
              /\ elections' = [elections EXCEPT ![n][e] = Insert(@, v.round, rs)]
              /\ msgs' = msgs \union OwnVotes(n, v, x)
              /\ UNCHANGED decided

\* The valid branch of handle_vote when a vote of the next round is cast, and
\* the election decided if that vote is a Decide.
Advance(n, v) ==
    LET e    == v.election_hash
        next == v.round + 1
    IN  \E x \in Draws(n, v) :
          LET rs == Joined(n, v, x)
          IN  /\ Advances(n, v, rs)
              /\ \E d \in Decisions(n, rs.tally) :
                   LET vote   == NextVote(n, e, next, d, rs)
                       el     == Insert(elections[n][e], v.round, rs)
                       nextRs == CastVote(el.state[next], vote)
                       final  == d.vote_type = "Decide"
                   IN  /\ elections' = [elections EXCEPT ![n][e] =
                              [Insert(el, next, nextRs) EXCEPT !.is_decided = @ \/ final]]
                       /\ decided' = [decided EXCEPT ![n][e] = IF final THEN d.value ELSE @]
                       /\ msgs' = msgs \union OwnVotes(n, v, x) \union {vote}

\* The pending branch: the vote is parked in a copy of the round state that
\* nothing stores, and the election is put back as it was (core.rs:411-415).
ParkVote(n, v) == UNCHANGED vars

\* The invalid branch: handle_vote returns.
RejectVote(n, v) == UNCHANGED vars

\* A second vote of a signer in a round is not looked at.
IgnoreVote(n, v) == UNCHANGED vars

(***************************************************************************)
(* Core::handle_vote.                                                      *)
(***************************************************************************)
HandleVote(n, v) ==
    /\ v.round < MaxRound
    /\ v.signer \in Hears[n]
    /\ LET known == Digest(v) \in
                      Hashes(elections[n][v.election_hash].state[v.round])
       IN  \/ known  /\ IgnoreVote(n, v)
           \/ ~known /\ "Valid"   \in ValidateVote(n, v) /\ (Stay(n, v) \/ Advance(n, v))
           \/ ~known /\ "Invalid" \in ValidateVote(n, v) /\ RejectVote(n, v)
           \/ ~known /\ "Pending" \in ValidateVote(n, v) /\ ParkVote(n, v)

Next ==
    \/ \E n \in Node, e \in Election : HandleTransaction(n, e)
    \/ \E n \in Node, v \in msgs : HandleVote(n, v)

Spec == Init /\ [][Next]_vars
-----------------------------------------------------------------------------
\* Nodes that follow the decision rule never decide different values in one
\* election: the assertion of the simulator (node/src/consensus.rs:165), for
\* the values handle_vote writes to self.decided.
Agreement ==
    \A n, m \in Honest, e \in Election :
        None \in {decided[n][e], decided[m][e]} \/ decided[n][e] = decided[m][e]

\* A decided value was the initial vote of at least F + 1 nodes, so of one
\* that is not byzantine: no chain of make_decision defaults invents a value.
DecisionSupported ==
    \A n \in Honest, e \in Election :
        decided[n][e] # None =>
            Cardinality({v \in msgs : /\ v.election_hash = e /\ v.round = 0
                                      /\ v.value = decided[n][e]}) > F

\* Once a node that follows the rule casts a Decide, every vote cast by such a
\* node in that round or a later one is for the same value: nodes that did not
\* see the deciding quorum cannot drift away from it.
DecisionLocks ==
    \A v, w \in {u \in msgs : u.signer \in Honest} :
        /\ v.vote_type = "Decide"
        /\ v.election_hash = w.election_hash
        /\ v.round <= w.round
        => v.value = w.value

\* No node that follows the rule counts commits for both values in one round,
\* so make_decision never takes the branch "This should not happen!!!".
NoCommitClash ==
    \A n \in Honest, e \in Election : \A r \in Round :
        LET t == elections[n][e].state[r].tally
        IN  t.zero_commits = 0 \/ t.one_commits = 0

\* No node casts two votes in one round of an election, whichever of
\* handle_transaction and handle_vote gets to cast it: as the hash of a vote is
\* its signer, a second one would be taken for the first in every proof.
NoEquivocation ==
    \A v, w \in msgs :
        /\ v.signer = w.signer
        /\ v.round = w.round
        /\ v.election_hash = w.election_hash
        => v = w

\* The proof of every vote after round 0 names a quorum, no more and no less,
\* with the signer in it: nodes advance at the vote that makes the quorum, and
\* have voted themselves before they can validate a vote of that round.
ProofsAreQuorums ==
    \A v \in msgs : v.round > 0 =>
        Cardinality(v.proof) = QUORUM /\ v.signer \in v.proof

\* A node is never left with a quorum validated in a round of an undecided
\* election and no vote in the next: only the arrival of a vote of that round
\* makes handle_vote look, so a step that missed it would never be repeated.
NoMissedAdvance ==
    \A n \in Node, e \in Election : \A r \in Round \ {MaxRound} :
        \/ elections[n][e].is_decided
        \/ Cardinality(Validated(n, e, r)) < QUORUM
        \/ elections[n][e].state[r + 1].voted

\* The tally kept vote by vote is the one from_votes computes from the
\* validated votes, apart from the Decides for Zero that tally_vote leaves out:
\* nothing is counted twice, by an echo or by the vote a node casts itself.
TallyMatchesVotes ==
    \A n \in Node, e \in Election : \A r \in Round :
        elections[n][e].state[r].tally = Seen(Validated(n, e, r))

\* The Decide of a node is its last vote of the election: it answers no later
\* round, on which the nodes that have not decided yet may depend.
DecideIsLastVote ==
    \A v, w \in msgs :
        /\ v.vote_type = "Decide"
        /\ v.signer = w.signer
        /\ v.election_hash = w.election_hash
        => w.round <= v.round

\* A vote a node made of the votes it validated is not Invalid to that node:
\* the assertion left as a comment at core.rs:444.
OwnVoteNotInvalid ==
    \A v \in msgs : v.signer \in Honest => "Invalid" \notin ValidateVote(v.signer, v)

\* Where both ends follow the rule, a vote is Invalid in two cases only: it comes
\* before anything of the round before it (core.rs:510), or a Decide for Zero is
\* among the votes of its proof, which its signer did not count (election.rs:98).
\* Whatever else either end holds, and in whichever order it came, they agree on
\* what the proof says.
ProvenVotesAccepted ==
    \A n \in Honest, v \in msgs :
        /\ v.signer \in Honest
        /\ v.round > 0 /\ Validated(n, v.election_hash, v.round - 1) # {}
        /\ Votes(ProofVotes(n, v), "Decide", "Zero") = {}
        => "Invalid" \notin ValidateVote(n, v)
-----------------------------------------------------------------------------
\* The core implements Consensus for the nodes that follow the rule.
Abstract ==
    INSTANCE Consensus WITH Node    <- Honest,
                            decided <- [n \in Honest |-> decided[n]]

\* Every step of the core decides nothing, or decides one election at one node
\* that had not decided it, for the value every other node decided, if any.
ImplementsConsensus == Abstract!Spec
=============================================================================
