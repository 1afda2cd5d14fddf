------------------------------ MODULE Register ------------------------------
(***************************************************************************)
(* What the store promises: a memory in which every call takes effect at   *)
(* one moment, the moment the caller hands it over, and readers that may   *)
(* wait for a key to be written for the first time; until it breaks.       *)
(***************************************************************************)
CONSTANTS Client, Key, Val, Absent, NoKey

VARIABLES
    memory,  \* what was last written to each key, Absent if nothing was
    reply,   \* reply[c]: what the reader c waits for or will be told
    broken   \* whether nothing is promised any more

Idle        == [state |-> "idle", key |-> NoKey, value |-> Absent]
Waits(k)    == [state |-> "waiting", key |-> k, value |-> Absent]
Told(v)     == [state |-> "told", key |-> NoKey, value |-> v]

Init ==
    /\ memory = [k \in Key |-> Absent]
    /\ reply = [c \in Client |-> Idle]
    /\ broken = FALSE

\* A write reaches all who wait for the key.
Write(c, k, v) ==
    /\ reply[c] = Idle
    /\ memory' = [memory EXCEPT ![k] = v]
    /\ reply' = [d \in Client |-> IF reply[d] = Waits(k) THEN Told(v) ELSE reply[d]]

Read(c, k) ==
    /\ reply[c] = Idle
    /\ reply' = [reply EXCEPT ![c] = Told(memory[k])]
    /\ UNCHANGED memory

NotifyRead(c, k) ==
    /\ reply[c] = Idle
    /\ reply' = [reply EXCEPT ![c] =
                    IF memory[k] = Absent THEN Waits(k) ELSE Told(memory[k])]
    /\ UNCHANGED memory

\* A reader takes what it is told, or gives up.
Leave(c) ==
    /\ reply[c] # Idle
    /\ reply' = [reply EXCEPT ![c] = Idle]
    /\ UNCHANGED memory

Operation ==
    \E c \in Client :
        \/ Leave(c)
        \/ \E k \in Key : Read(c, k) \/ NotifyRead(c, k) \/ \E v \in Val : Write(c, k, v)

\* Once it is broken, which it stays, anything goes.
Next ==
    \/ broken'
    \/ ~broken /\ ~broken' /\ Operation

Spec == Init /\ [][Next]_<<memory, reply, broken>>
=============================================================================
