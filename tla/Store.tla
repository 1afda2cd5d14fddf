------------------------------- MODULE Store --------------------------------
(***************************************************************************)
(* The store (store/src/lib.rs): one task that owns the database and takes *)
(* commands from a bounded channel, and the handles through which any      *)
(* number of tasks call it.  A read waits for its one-shot reply; a        *)
(* notify_read of a key that is not there leaves its sender in the         *)
(* obligations of the key until somebody writes it; a write returns once   *)
(* its command is in the channel.                                          *)
(*                                                                         *)
(* The one-shot channel of a read is named by its caller and the number of *)
(* the call.  A caller may be dropped while it waits, as any future; what  *)
(* is then sent to it is lost.  The database may fail to put (the error is *)
(* ignored, line 36); that it may fail to get is left out.                 *)
(***************************************************************************)
EXTENDS Naturals, Sequences, SequencesExt

CONSTANTS
    Client, Key, Val,
    Absent, NoKey,   \* model values: no value, no key
    Capacity,        \* room of the channel (100 in the code)
    MaxCalls         \* bound: the calls of each client

ASSUME StoreAssumption ==
    /\ Capacity \in Nat \ {0} /\ MaxCalls \in Nat
    /\ Absent \notin Val /\ NoKey \notin Key

VARIABLES
    channel,      \* the commands the task has not taken yet
    db,           \* the database
    obligations,  \* obligations[k]: who is to be told of the write of k
    call,         \* call[c]: the call of c under way and the calls it made
    put_failed    \* history: whether the database ever failed to put

vars == <<channel, db, obligations, call, put_failed>>

OneShot == [client : Client, id : 1 .. MaxCalls]
Command == [op : {"write", "read", "notify_read"}, key : Key,
            value : Val \union {Absent}, sender : OneShot]

TypeOK ==
    /\ channel \in Seq(Command) /\ Len(channel) <= Capacity
    /\ db \in [Key -> Val \union {Absent}]
    /\ obligations \in [Key -> Seq(OneShot)]
    /\ call \in [Client -> [state : {"idle", "waiting", "told"}, made : 0 .. MaxCalls,
                            value : Val \union {Absent}]]
    /\ put_failed \in BOOLEAN

Init ==
    /\ channel = <<>>
    /\ db = [k \in Key |-> Absent]
    /\ obligations = [k \in Key |-> <<>>]
    /\ call = [c \in Client |-> [state |-> "idle", made |-> 0, value |-> Absent]]
    /\ put_failed = FALSE
-----------------------------------------------------------------------------
\* Mutant: a caller does not wait for room.
SubmitAnyway(c, op, k, v) ==
    /\ call[c].state = "idle" /\ call[c].made < MaxCalls
    /\ channel' = Append(channel, [op |-> op, key |-> k, value |-> v,
                          sender |-> [client |-> c, id |-> call[c].made + 1]])
    /\ call' = [call EXCEPT ![c].made = @ + 1,
                            ![c].state = IF op = "write" THEN "idle" ELSE "waiting"]
    /\ UNCHANGED <<db, obligations, put_failed>>

\* A call hands its command over when the channel has room.
Submit(c, op, k, v) ==
    /\ call[c].state = "idle" /\ call[c].made < MaxCalls
    /\ Len(channel) < Capacity
    /\ channel' = Append(channel, [op |-> op, key |-> k, value |-> v,
                          sender |-> [client |-> c, id |-> call[c].made + 1]])
    /\ call' = [call EXCEPT ![c].made = @ + 1,
                            ![c].state = IF op = "write" THEN "idle" ELSE "waiting"]
    /\ UNCHANGED <<db, obligations, put_failed>>

Write(c, k, v)   == Submit(c, "write", k, v)
Read(c, k)       == Submit(c, "read", k, Absent)
NotifyRead(c, k) == Submit(c, "notify_read", k, Absent)

\* The caller takes the reply.
Take(c) ==
    /\ call[c].state = "told"
    /\ call' = [call EXCEPT ![c].state = "idle", ![c].value = Absent]
    /\ UNCHANGED <<channel, db, obligations, put_failed>>

\* The caller is dropped while it waits.
GiveUp(c) ==
    /\ call[c].state = "waiting"
    /\ call' = [call EXCEPT ![c].state = "idle"]
    /\ UNCHANGED <<channel, db, obligations, put_failed>>

\* Whether somebody still holds the other end.
Listens(s) == call[s.client].state = "waiting" /\ call[s.client].made = s.id

\* v is sent to each of the senders in S.
Tell(S, v) ==
    call' = [c \in Client |->
                IF \E s \in S : s.client = c /\ Listens(s)
                THEN [call[c] EXCEPT !.state = "told", !.value = v] ELSE call[c]]

\* Mutant: the value is not put before the readers are told.
TellOnly(m) ==
    /\ m.op = "write"
    /\ UNCHANGED <<db, put_failed>>
    /\ Tell(ToSet(obligations[m.key]), m.value)
    /\ obligations' = [obligations EXCEPT ![m.key] = <<>>]

\* Mutant: only the first of the waiting readers is told.
TellFirst(m) ==
    /\ m.op = "write"
    /\ \/ db' = [db EXCEPT ![m.key] = m.value] /\ UNCHANGED put_failed
       \/ put_failed' = TRUE /\ UNCHANGED db
    /\ IF obligations[m.key] = <<>> THEN UNCHANGED <<call, obligations>>
       ELSE /\ Tell({Head(obligations[m.key])}, m.value)
            /\ obligations' = [obligations EXCEPT ![m.key] = Tail(@)]

\* StoreCommand::Write: the waiting readers are told, put or not.
ServeWrite(m) ==
    /\ m.op = "write"
    /\ \/ db' = [db EXCEPT ![m.key] = m.value] /\ UNCHANGED put_failed
       \/ put_failed' = TRUE /\ UNCHANGED db
    /\ Tell(ToSet(obligations[m.key]), m.value)
    /\ obligations' = [obligations EXCEPT ![m.key] = <<>>]

\* StoreCommand::Read.
ServeRead(m) ==
    /\ m.op = "read"
    /\ Tell({m.sender}, db[m.key])
    /\ UNCHANGED <<db, obligations, put_failed>>

\* Mutant: a notify_read always waits for a write.
ServeNotifyLate(m) ==
    /\ m.op = "notify_read"
    /\ obligations' = [obligations EXCEPT ![m.key] = Append(@, m.sender)]
    /\ UNCHANGED <<call, db, put_failed>>

\* StoreCommand::NotifyRead.
ServeNotifyRead(m) ==
    /\ m.op = "notify_read"
    /\ IF db[m.key] = Absent
       THEN /\ obligations' = [obligations EXCEPT ![m.key] = Append(@, m.sender)]
            /\ UNCHANGED call
       ELSE Tell({m.sender}, db[m.key]) /\ UNCHANGED obligations
    /\ UNCHANGED <<db, put_failed>>

\* The task takes the next command.
Serve ==
    /\ channel # <<>>
    /\ channel' = Tail(channel)
    /\ LET m == Head(channel) IN ServeWrite(m) \/ ServeRead(m) \/ ServeNotifyRead(m)

Next ==
    \/ Serve
    \/ \E c \in Client :
          \/ Take(c) \/ GiveUp(c)
          \/ \E k \in Key : Read(c, k) \/ NotifyRead(c, k) \/ \E v \in Val : Write(c, k, v)

\* The store's task is scheduled; callers may never call, nor take a reply.
Spec == Init /\ [][Next]_vars /\ WF_vars(Serve)
-----------------------------------------------------------------------------
\* A key somebody waits for was never written: a write leaves no reader behind,
\* and a notify_read that comes after it does not join those who wait
\* (lines 37-41, 50-53).
NobodyForgotten ==
    \A k \in Key : obligations[k] # <<>> => db[k] = Absent

\* Whoever waits for a key, and its write under way, is told (lines 37-41), put
\* or not, or gave up.
InFlight(k) == \E i \in DOMAIN channel : channel[i].op = "write" /\ channel[i].key = k
WaitsFor(c, k) ==
    \E s \in ToSet(obligations[k]) : s.client = c /\ Listens(s)
ReadersAreTold ==
    \A c \in Client, k \in Key :
        (WaitsFor(c, k) /\ InFlight(k)) ~> ~WaitsFor(c, k)

(***************************************************************************)
(* As the callers see it, a command takes effect when it is handed over.   *)
(***************************************************************************)
AfterCommand(d, m) == IF m.op = "write" THEN [d EXCEPT ![m.key] = m.value] ELSE d
MemoryAt(i) == FoldLeft(AfterCommand, db, SubSeq(channel, 1, i))

Abstract == INSTANCE Register WITH
        broken <- put_failed,
        memory <- MemoryAt(Len(channel)),
        reply  <- [c \in Client |->
            LET Written(k, i) ==  \* the writes of k behind place i of the channel
                    SelectSeq(SubSeq(channel, i + 1, Len(channel)),
                              LAMBDA m : m.op = "write" /\ m.key = k)
                Notified(k, i) == IF Written(k, i) = <<>>
                                  THEN [state |-> "waiting", key |-> k, value |-> Absent]
                                  ELSE [state |-> "told", key |-> NoKey,
                                        value |-> Head(Written(k, i)).value]
                mine == {i \in DOMAIN channel : channel[i].op # "write"
                                                /\ channel[i].sender.client = c
                                                /\ Listens(channel[i].sender)}
                place == CHOOSE i \in mine : TRUE
                key == channel[place].key
            IN  CASE call[c].state = "idle" ->
                        [state |-> "idle", key |-> NoKey, value |-> Absent]
                  [] call[c].state = "told" ->
                        [state |-> "told", key |-> NoKey, value |-> call[c].value]
                  [] mine = {} -> Notified(CHOOSE k \in Key : WaitsFor(c, k), 0)
                  [] channel[place].op = "notify_read" /\ MemoryAt(place)[key] = Absent ->
                        Notified(key, place)
                  [] OTHER -> [state |-> "told", key |-> NoKey,
                               value |-> MemoryAt(place)[key]]]

\* The store is a register with waiting readers until the database fails to put
\* (lines 33-60): reads see every write handed over before them.
ImplementsRegister == Abstract!Spec
=============================================================================
