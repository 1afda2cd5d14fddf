---------------------------- MODULE StoreProofs -----------------------------
(***************************************************************************)
(* The state of the store has its type, and nobody who waits for a key is  *)
(* left behind by the write of it.  Who waits is told apart by the key     *)
(* alone: a sender joins the obligations of a key only while the database  *)
(* does not hold it, and the write that changes that clears them.          *)
(***************************************************************************)
EXTENDS Store, SequenceTheorems, TLAPS

USE StoreAssumption

\* The next command of a channel of commands is one, and what stays is such a
\* channel, no longer.
LEMMA NextCommand ==
    ASSUME TypeOK, channel # <<>>
    PROVE  /\ Head(channel) \in Command
           /\ Tail(channel) \in Seq(Command)
           /\ Len(Tail(channel)) <= Capacity
  <1>1. Head(channel) \in Command /\ Tail(channel) \in Seq(Command)
    BY HeadTailProperties DEF TypeOK
  <1>2. Len(Tail(channel)) = Len(channel) - 1 /\ Len(channel) \in Nat
    BY HeadTailProperties, LenProperties DEF TypeOK
  <1> QED BY <1>1, <1>2 DEF TypeOK

Calls == [Client -> [state : {"idle", "waiting", "told"}, made : 0 .. MaxCalls,
                     value : Val \union {Absent}]]

\* Telling a value leaves calls calls.
LEMMA TellType ==
    ASSUME call \in Calls, NEW S, NEW v \in Val \union {Absent}, Tell(S, v)
    PROVE  call' \in Calls
BY ZenonT(60) DEF Tell, Calls

\* What a command changes keeps its type.
LEMMA ServedType ==
    ASSUME TypeOK, NEW m \in Command, ServeWrite(m) \/ ServeRead(m) \/ ServeNotifyRead(m)
    PROVE  /\ db' \in [Key -> Val \union {Absent}]
           /\ obligations' \in [Key -> Seq(OneShot)]
           /\ call' \in Calls
           /\ put_failed' \in BOOLEAN
  <1>0. call \in Calls /\ m.key \in Key /\ m.value \in Val \union {Absent}
        /\ m.sender \in OneShot
    BY DEF TypeOK, Calls, Command
  <1>1. CASE ServeWrite(m)
    <2>1. call' \in Calls
      BY <1>0, <1>1, TellType DEF ServeWrite
    <2>2. obligations' \in [Key -> Seq(OneShot)]
      BY <1>0, <1>1 DEF ServeWrite, TypeOK
    <2>3. db' \in [Key -> Val \union {Absent}]
      BY <1>0, <1>1 DEF ServeWrite, TypeOK
    <2>4. put_failed' \in BOOLEAN
      BY <1>1, Zenon DEF ServeWrite, TypeOK
    <2> QED BY <2>1, <2>2, <2>3, <2>4
  <1>2. CASE ServeRead(m)
    <2>1. db[m.key] \in Val \union {Absent}
      BY <1>0 DEF TypeOK
    <2>2. call' \in Calls
      BY <1>0, <1>2, <2>1, TellType DEF ServeRead
    <2> QED BY <1>2, <2>2 DEF ServeRead, TypeOK
  <1>3. CASE ServeNotifyRead(m)
    <2>1. db[m.key] \in Val \union {Absent}
      BY <1>0 DEF TypeOK
    <2>2. call' \in Calls
      BY <1>0, <1>3, <2>1, TellType DEF ServeNotifyRead
    <2>3. obligations' \in [Key -> Seq(OneShot)]
      <3>1. obligations \in [Key -> Seq(OneShot)]
        BY DEF TypeOK
      <3>2. Append(obligations[m.key], m.sender) \in Seq(OneShot)
        BY <1>0, <3>1, AppendProperties
      <3>3. \/ obligations' = obligations
            \/ obligations' = [obligations EXCEPT
                                  ![m.key] = Append(obligations[m.key], m.sender)]
        BY <1>3 DEF ServeNotifyRead
      <3> QED BY <1>0, <3>1, <3>2, <3>3
    <2> QED BY <1>3, <2>2, <2>3 DEF ServeNotifyRead, TypeOK
  <1> QED BY <1>1, <1>2, <1>3

LEMMA SubmitType ==
    ASSUME TypeOK, NEW c \in Client, NEW op \in {"write", "read", "notify_read"},
           NEW k \in Key, NEW v \in Val \union {Absent}, Submit(c, op, k, v)
    PROVE  TypeOK'
  <1> DEFINE m == [op |-> op, key |-> k, value |-> v,
                   sender |-> [client |-> c, id |-> call[c].made + 1]]
  <1>1. call[c].made \in 0 .. MaxCalls /\ call[c].made < MaxCalls
    BY DEF TypeOK, Submit
  <1>2. m \in Command
    BY <1>1 DEF Command, OneShot
  <1>3. channel' = Append(channel, m)
    BY DEF Submit
  <1>4. channel' \in Seq(Command) /\ Len(channel') = Len(channel) + 1
    BY <1>2, <1>3, AppendProperties DEF TypeOK
  <1>5. Len(channel) \in Nat /\ Len(channel) < Capacity
    BY LenProperties DEF TypeOK, Submit
  <1>6. Len(channel') <= Capacity
    BY <1>4, <1>5
  <1>7. call' \in Calls
    <2> DEFINE new == [call[c] EXCEPT !.made = @ + 1,
                                      !.state = IF op = "write" THEN "idle" ELSE "waiting"]
    <2>1. call[c] \in [state : {"idle", "waiting", "told"}, made : 0 .. MaxCalls,
                        value : Val \union {Absent}]
      BY DEF TypeOK
    <2>2. call[c].made + 1 \in 0 .. MaxCalls
      BY <1>1
    <2>3. new \in [state : {"idle", "waiting", "told"}, made : 0 .. MaxCalls,
                   value : Val \union {Absent}]
      BY <2>1, <2>2
    <2>4. call' = [call EXCEPT ![c] = new]
      BY <2>1 DEF Submit, TypeOK
    <2> QED BY <2>3, <2>4 DEF TypeOK, Calls
  <1> QED BY <1>4, <1>6, <1>7 DEF TypeOK, Submit, Calls

LEMMA TypeStep == TypeOK /\ [Next]_vars => TypeOK'
  <1> SUFFICES ASSUME TypeOK, [Next]_vars
               PROVE  TypeOK'
    OBVIOUS
  <1>1. CASE Serve
    <2>1. Head(channel) \in Command /\ channel' \in Seq(Command) /\ Len(channel') <= Capacity
      BY <1>1, NextCommand DEF Serve
    <2>2. ServeWrite(Head(channel)) \/ ServeRead(Head(channel)) \/ ServeNotifyRead(Head(channel))
      BY <1>1 DEF Serve
    <2> QED BY <2>1, <2>2, ServedType DEF TypeOK, Calls
  <1>2. ASSUME NEW c \in Client, Take(c) \/ GiveUp(c)
        PROVE  TypeOK'
    <2> DEFINE R == [state : {"idle", "waiting", "told"}, made : 0 .. MaxCalls,
                     value : Val \union {Absent}]
    <2>0. call \in [Client -> R] /\ call[c] \in R
      BY DEF TypeOK
    <2>1. SUFFICES call' \in Calls
      BY <1>2 DEF Take, GiveUp, TypeOK, Calls
    <2>2. CASE Take(c)
      <3> DEFINE new == [call[c] EXCEPT !.state = "idle", !.value = Absent]
      <3>1. new \in R /\ call' = [call EXCEPT ![c] = new]
        BY <2>0, <2>2 DEF Take
      <3> QED BY <2>0, <3>1 DEF Calls
    <2>3. CASE GiveUp(c)
      <3> DEFINE new == [call[c] EXCEPT !.state = "idle"]
      <3>1. new \in R /\ call' = [call EXCEPT ![c] = new]
        BY <2>0, <2>3 DEF GiveUp
      <3> QED BY <2>0, <3>1 DEF Calls
    <2> QED BY <1>2, <2>2, <2>3
  <1>3. ASSUME NEW c \in Client, NEW k \in Key,
               Read(c, k) \/ NotifyRead(c, k) \/ \E v \in Val : Write(c, k, v)
        PROVE  TypeOK'
    BY <1>3, SubmitType DEF Read, NotifyRead, Write
  <1>4. CASE UNCHANGED vars
    BY <1>4 DEF vars, TypeOK
  <1> QED BY <1>1, <1>2, <1>3, <1>4 DEF Next

\* The state of the store and its callers has its type (lines 16-93).
THEOREM StoreTyped == Spec => []TypeOK
  <1>1. Init => TypeOK
    <2>1. Init => put_failed \in BOOLEAN
      BY Zenon DEF Init
    <2> QED BY <2>1 DEF Init, TypeOK
  <1> QED BY <1>1, TypeStep, PTL DEF Spec

LEMMA ForgottenStep == TypeOK /\ NobodyForgotten /\ [Next]_vars => NobodyForgotten'
  <1> SUFFICES ASSUME TypeOK, NobodyForgotten, [Next]_vars,
                      NEW k \in Key, obligations'[k] # <<>>
               PROVE  db'[k] = Absent
    BY DEF NobodyForgotten
  <1>1. CASE UNCHANGED <<db, obligations>>
    BY <1>1 DEF NobodyForgotten
  <1>2. CASE Serve
    <2> DEFINE m == Head(channel)
    <2>1. m.key \in Key
      BY <1>2, NextCommand DEF Serve, Command
    <2>2. CASE ServeWrite(m)
      <3>1. k # m.key /\ obligations'[k] = obligations[k]
        BY <2>1, <2>2 DEF ServeWrite, TypeOK
      <3>2. db'[k] = db[k]
        BY <2>1, <2>2, <3>1 DEF ServeWrite, TypeOK
      <3> QED BY <3>1, <3>2 DEF NobodyForgotten
    <2>3. CASE ServeRead(m)
      BY <2>3 DEF ServeRead, NobodyForgotten
    <2>4. CASE ServeNotifyRead(m)
      <3>1. db' = db
        BY <2>4 DEF ServeNotifyRead
      <3>2. CASE k = m.key /\ db[k] = Absent
        BY <3>1, <3>2
      <3>3. CASE ~(k = m.key /\ db[k] = Absent)
        <4>1. obligations'[k] = obligations[k]
          BY <2>1, <2>4, <3>3 DEF ServeNotifyRead, TypeOK
        <4> QED BY <3>1, <4>1 DEF NobodyForgotten
      <3> QED BY <3>2, <3>3
    <2> QED BY <1>2, <2>2, <2>3, <2>4 DEF Serve
  <1>3. ASSUME NEW c \in Client, Take(c) \/ GiveUp(c)
        PROVE  UNCHANGED <<db, obligations>>
    BY <1>3 DEF Take, GiveUp
  <1>4. ASSUME NEW c \in Client, NEW j \in Key,
               Read(c, j) \/ NotifyRead(c, j) \/ \E v \in Val : Write(c, j, v)
        PROVE  UNCHANGED <<db, obligations>>
    BY <1>4 DEF Read, NotifyRead, Write, Submit
  <1>5. CASE UNCHANGED vars
    BY <1>1, <1>5 DEF vars
  <1> QED BY <1>1, <1>2, <1>3, <1>4, <1>5 DEF Next

\* However calls, writes and readers that give up interleave, a key somebody
\* still waits for was never stored: no write leaves a reader behind (lines
\* 37-41, 50-53).
THEOREM NobodyLeftBehind == Spec => []NobodyForgotten
  <1>1. Init => NobodyForgotten
    BY DEF Init, NobodyForgotten
  <1> QED BY <1>1, ForgottenStep, StoreTyped, PTL DEF Spec
=============================================================================
