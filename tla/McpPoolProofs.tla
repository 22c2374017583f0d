--------------------------- MODULE McpPoolProofs ---------------------------
(***************************************************************************)
(* The pool keeps what RemoteCalls promises, and loses no server, for any  *)
(* number of callers and clients and however much a server talks.          *)
(***************************************************************************)
EXTENDS McpPool, SequenceTheorems, TLAPS

Pcs == {"idle", "get", "discard", "replace", "connect", "undo", "have", "wait", "done"}
CallRecords == [pc : Pcs, client : Clients \cup {None}, asks : BOOLEAN]

\* What can stand on a stream when r says who was served: a reply is one to a
\* request that was carried out.
LinesOf(r) == {Reply(k) : k \in {j \in Calls : r[j] = 1}} \cup Other

Typed ==
  /\ call \in [Calls -> CallRecords]
  /\ entry \in Clients \cup {None} /\ closing \in Clients \cup {None}
  /\ state \in [Clients -> {"unused", "open", "broken", "closed"}]
  /\ process = [c \in Clients |-> process[c]] /\ busy = [c \in Clients |-> busy[c]]
  /\ requests \in [Clients -> SUBSET Calls]
  /\ lines \in [Clients -> Seq(LinesOf(ran))]
  /\ sent \subseteq Calls
  /\ ran \in [Calls -> {0, 1}]
  /\ outcome \in [Calls -> Calls \cup {None, Failed}]

\* A call has a client where it needs one.
WithClient == {"discard", "connect", "undo", "have", "wait"}
Locked == {"discard", "replace", "connect", "undo"}

\* Who is replacing or connecting has the pool's lock, and the pool is empty.
PoolInv ==
  \A k \in Calls :
    /\ call[k].pc \in WithClient => call[k].client \in Clients
    /\ call[k].pc \in Locked => poolLock = k /\ entry = None

\* A call is sent before it waits, and has no outcome before it is done.
CallInv ==
  \A k \in Calls :
    /\ call[k].pc \notin {"wait", "done"} => k \notin sent
    /\ call[k].pc # "done" => outcome[k] = None
    /\ call[k].pc = "wait" => k \in sent

\* A request stands with one server, and only until it is carried out.
WireInv ==
  /\ \A k \in Calls : k \notin sent => ran[k] = 0
  /\ \A c \in Clients : \A k \in requests[c] : k \in sent /\ ran[k] = 0
  /\ \A c, d \in Clients : \A k \in requests[c] \cap requests[d] : c = d

IInv == Typed /\ PoolInv /\ CallInv /\ WireInv /\ ServersOwned

\* A step, of call k or client c if it is one's.
StepOf(k, c) ==
  \/ k \in Calls /\ (Begin(k) \/ Step(k) \/ Cancel(k))
  \/ Close \/ Closed
  \/ c \in Clients /\ (Chat(c) \/ Exit(c))
  \/ c \in Clients /\ k \in Calls /\ Serve(c, k)

Others(k) == \A j \in Calls : j # k => call'[j] = call[j] /\ outcome'[j] = outcome[j]

Moved(k, pc, c) ==
  /\ call'[k].pc = pc /\ call'[k].client = c
  /\ \A j \in Calls : j # k => call'[j] = call[j]

\* A call that goes somewhere, and nobody else.
LEMMA GoesTo ==
  ASSUME call \in [Calls -> CallRecords], NEW k \in Calls, NEW pc, NEW c, Goes(k, pc, c)
  PROVE  Moved(k, pc, c)
BY DEF Goes, CallRecords, Moved

LEMMA FailsTo ==
  ASSUME Typed, NEW k \in Calls, Fails(k)
  PROVE  Moved(k, "done", None) /\ outcome'[k] = Failed /\ Others(k)
<1>1. Moved(k, "done", None)
  BY GoesTo DEF Fails, Typed
<1>2. outcome'[k] = Failed /\ \A j \in Calls : j # k => outcome'[j] = outcome[j]
  BY DEF Fails, Typed
<1>3. QED
  BY <1>1, <1>2 DEF Others, Moved

\* What each step does to its call.
LEMMA Begins ==
  ASSUME Typed, NEW k \in Calls, Begin(k)
  PROVE  /\ Others(k)
         /\ \/ call'[k].pc = "get" /\ outcome'[k] = outcome[k]
            \/ call'[k].pc = "done"
<1>1. CASE Fails(k)
  BY <1>1, FailsTo DEF Moved
<1>2. ASSUME NEW asks \in BOOLEAN,
             call' = [call EXCEPT ![k].pc = "get", ![k].asks = asks], outcome' = outcome
      PROVE  Others(k) /\ call'[k].pc = "get" /\ outcome'[k] = outcome[k]
  <2>1. call \in [Calls -> CallRecords]
    BY DEF Typed
  <2>2. QED
    BY <1>2, <2>1 DEF CallRecords, Others
<1>3. QED
  BY <1>1, <1>2 DEF Begin

LEMMA Moves ==
  ASSUME Typed, NEW k \in Calls
  PROVE  /\ Reuse(k) => Moved(k, "have", entry)
         /\ Replace(k) => Moved(k, "discard", entry)
         /\ Discarded(k) => Moved(k, "replace", None)
         /\ Connected(k) => \/ Moved(k, "have", call[k].client)
                            \/ Moved(k, "done", None)
         /\ ConnectFails(k) => Moved(k, "undo", call[k].client)
         /\ Send(k) => Moved(k, "wait", call[k].client)
         /\ Returns(k, k) => Moved(k, "done", None)
         /\ \A c \in Clients : Goes(k, "connect", c) => Moved(k, "connect", c)
<1> USE GoesTo DEF Typed
<1>1. Reuse(k) => Moved(k, "have", entry)
  BY DEF Reuse
<1>2. Replace(k) => Moved(k, "discard", entry)
  BY DEF Replace
<1>3. Discarded(k) => Moved(k, "replace", None)
  BY DEF Discarded
<1>4. Connected(k) => Moved(k, "have", call[k].client) \/ Moved(k, "done", None)
  BY DEF Connected
<1>5. ConnectFails(k) => Moved(k, "undo", call[k].client)
  BY DEF ConnectFails
<1>6. Send(k) => Moved(k, "wait", call[k].client)
  BY DEF Send
<1>7. Returns(k, k) => Moved(k, "done", None)
  BY DEF Returns
<1>8. ASSUME NEW c \in Clients, Goes(k, "connect", c)
      PROVE  Moved(k, "connect", c)
  BY <1>8
<1>9. QED
  BY <1>1, <1>2, <1>3, <1>4, <1>5, <1>6, <1>7, <1>8

\* A step keeps the lock and the empty pool with who replaces and connects.
LEMMA PoolStep ==
  ASSUME Typed, PoolInv, NEW k, NEW c, StepOf(k, c)
  PROVE  PoolInv'
<1> USE PoolAssumption DEF PoolInv, Locked, WithClient, At, pool, Moved, Others
<1>1. CASE k \in Calls /\ Begin(k)
  BY <1>1, Begins DEF Begin
<1>2. CASE k \in Calls /\ Reuse(k)
  <2>1. entry \in Clients
    BY <1>2 DEF Typed, Reuse
  <2>2. Moved(k, "have", entry)
    BY <1>2, Moves
  <2>3. QED
    BY <1>2, <2>1, <2>2 DEF Reuse
<1>3. CASE k \in Calls /\ Replace(k)
  <2>1. entry \in Clients
    BY <1>3 DEF Typed, Replace
  <2>2. Moved(k, "discard", entry)
    BY <1>3, Moves
  <2>3. QED
    BY <1>3, <2>1, <2>2 DEF Replace, Discard
<1>4. CASE k \in Calls /\ Connect(k)
  <2>1. CASE Start(k) /\ poolLock' = k
    <3>1. PICK x \in Clients : Goes(k, "connect", x) /\ outcome' = outcome
      BY <2>1 DEF Start
    <3>2. Moved(k, "connect", x)
      BY <1>4, <3>1, Moves
    <3>3. QED
      BY <1>4, <2>1, <3>1, <3>2 DEF Connect
  <2>2. CASE Fails(k) /\ poolLock' = None /\ UNCHANGED <<state, process>>
    BY <1>4, <2>2, FailsTo DEF Connect
  <2>3. QED
    BY <1>4, <2>1, <2>2 DEF Connect
<1>5. CASE k \in Calls /\ Discarded(k)
  BY <1>5, Moves DEF Discarded, Ended
<1>6. CASE k \in Calls /\ Connected(k)
  BY <1>6, Moves DEF Connected
<1>7. CASE k \in Calls /\ ConnectFails(k)
  BY <1>7, Moves DEF ConnectFails
<1>8. CASE k \in Calls /\ Undone(k)
  BY <1>8, FailsTo DEF Undone, Ended
<1>9. CASE k \in Calls /\ Refuse(k)
  BY <1>9, FailsTo DEF Refuse
<1>10. CASE k \in Calls /\ Send(k)
  BY <1>10, Moves DEF Send
<1>11. CASE k \in Calls /\ ReadReply(k)
  BY <1>11, Moves DEF ReadReply, Takes, Returns, Free
<1>12. CASE k \in Calls /\ ReadOther(k)
  BY <1>12, FailsTo DEF ReadOther, Takes, Free
<1>13. CASE k \in Calls /\ ReadGarbage(k)
  BY <1>13, FailsTo DEF ReadGarbage, Takes, MarkBroken, Free
<1>14. CASE k \in Calls /\ ReadLong(k)
  BY <1>14, FailsTo DEF ReadLong, Free
<1>15. CASE k \in Calls /\ ReadEnd(k)
  BY <1>15, FailsTo DEF ReadEnd, MarkBroken, Free
<1>16. CASE k \in Calls /\ Timeout(k)
  BY <1>16, FailsTo DEF Timeout, MarkBroken, Free
<1>17. CASE k \in Calls /\ Cancel(k)
  BY <1>17, FailsTo DEF Cancel
<1>18. CASE c \in Clients /\ k \in Calls /\ Serve(c, k)
  BY <1>18 DEF Serve
<1>19. CASE c \in Clients /\ Chat(c)
  BY <1>19 DEF Chat
<1>20. CASE c \in Clients /\ Exit(c)
  BY <1>20 DEF Exit
<1>21. CASE Close
  BY <1>21 DEF Close, Discard
<1>22. CASE Closed
  BY <1>22 DEF Closed, Ended
<1>23. QED
  BY <1>1, <1>2, <1>3, <1>4, <1>5, <1>6, <1>7, <1>8, <1>9, <1>10, <1>11, <1>12, <1>13,
     <1>14, <1>15, <1>16, <1>17, <1>18, <1>19, <1>20, <1>21, <1>22
  DEF StepOf, Step

\* A step keeps calls unsent until they wait and open until they are done.
LEMMA CallStep ==
  ASSUME Typed, CallInv, NEW k, NEW c, StepOf(k, c)
  PROVE  CallInv'
<1> USE DEF CallInv, At, wire, Moved, Others
<1>1. CASE k \in Calls /\ Begin(k)
  BY <1>1, Begins DEF Begin
<1>2. CASE k \in Calls /\ Reuse(k)
  BY <1>2, Moves DEF Reuse
<1>3. CASE k \in Calls /\ Replace(k)
  BY <1>3, Moves DEF Replace, Discard
<1>4. CASE k \in Calls /\ Connect(k)
  <2>1. CASE Start(k) /\ poolLock' = k
    <3>1. PICK x \in Clients : Goes(k, "connect", x) /\ outcome' = outcome
      BY <2>1 DEF Start
    <3>2. Moved(k, "connect", x)
      BY <1>4, <3>1, Moves
    <3>3. QED
      BY <1>4, <2>1, <3>1, <3>2 DEF Connect
  <2>2. CASE Fails(k) /\ poolLock' = None /\ UNCHANGED <<state, process>>
    BY <1>4, <2>2, FailsTo DEF Connect
  <2>3. QED
    BY <1>4, <2>1, <2>2 DEF Connect
<1>5. CASE k \in Calls /\ Discarded(k)
  BY <1>5, Moves DEF Discarded, Ended
<1>6. CASE k \in Calls /\ Connected(k)
  BY <1>6, Moves DEF Connected
<1>7. CASE k \in Calls /\ ConnectFails(k)
  BY <1>7, Moves DEF ConnectFails
<1>8. CASE k \in Calls /\ Undone(k)
  BY <1>8, FailsTo DEF Undone, Ended
<1>9. CASE k \in Calls /\ Refuse(k)
  BY <1>9, FailsTo DEF Refuse
<1>10. CASE k \in Calls /\ Send(k)
  BY <1>10, Moves DEF Send
<1>11. CASE k \in Calls /\ ReadReply(k)
  <2>1. Moved(k, "done", None) /\ \A j \in Calls : j # k => outcome'[j] = outcome[j]
    BY <1>11, Moves DEF ReadReply, Returns, Typed
  <2>2. QED
    BY <1>11, <2>1 DEF ReadReply, Takes
<1>12. CASE k \in Calls /\ ReadOther(k)
  BY <1>12, FailsTo DEF ReadOther, Takes, Free
<1>13. CASE k \in Calls /\ ReadGarbage(k)
  BY <1>13, FailsTo DEF ReadGarbage, Takes, MarkBroken, Free
<1>14. CASE k \in Calls /\ ReadLong(k)
  BY <1>14, FailsTo DEF ReadLong, Free
<1>15. CASE k \in Calls /\ ReadEnd(k)
  BY <1>15, FailsTo DEF ReadEnd, MarkBroken, Free
<1>16. CASE k \in Calls /\ Timeout(k)
  BY <1>16, FailsTo DEF Timeout, MarkBroken, Free
<1>17. CASE k \in Calls /\ Cancel(k)
  BY <1>17, FailsTo DEF Cancel
<1>18. CASE c \in Clients /\ k \in Calls /\ Serve(c, k)
  BY <1>18 DEF Serve
<1>19. CASE c \in Clients /\ Chat(c)
  BY <1>19 DEF Chat
<1>20. CASE c \in Clients /\ Exit(c)
  BY <1>20 DEF Exit
<1>21. CASE Close
  BY <1>21 DEF Close, Discard
<1>22. CASE Closed
  BY <1>22 DEF Closed, Ended
<1>23. QED
  BY <1>1, <1>2, <1>3, <1>4, <1>5, <1>6, <1>7, <1>8, <1>9, <1>10, <1>11, <1>12, <1>13,
     <1>14, <1>15, <1>16, <1>17, <1>18, <1>19, <1>20, <1>21, <1>22
  DEF StepOf, Step

\* A step keeps requests with one server.
LEMMA WireStep ==
  ASSUME Typed, PoolInv, CallInv, WireInv, NEW k, NEW c, StepOf(k, c)
  PROVE  WireInv'
<1> USE DEF WireInv, wire
<1>1. CASE k \in Calls /\ Begin(k)
  BY <1>1, Begins DEF Begin
<1>2. CASE k \in Calls /\ Reuse(k)
  BY <1>2, Moves DEF Reuse
<1>3. CASE k \in Calls /\ Replace(k)
  BY <1>3, Moves DEF Replace, Discard
<1>4. CASE k \in Calls /\ Connect(k)
  BY <1>4, Moves, FailsTo DEF Connect, Start
<1>5. CASE k \in Calls /\ Discarded(k)
  BY <1>5, Moves DEF Discarded, Ended
<1>6. CASE k \in Calls /\ Connected(k)
  BY <1>6, Moves DEF Connected
<1>7. CASE k \in Calls /\ ConnectFails(k)
  BY <1>7, Moves DEF ConnectFails
<1>8. CASE k \in Calls /\ Undone(k)
  BY <1>8, FailsTo DEF Undone, Ended
<1>9. CASE k \in Calls /\ Refuse(k)
  BY <1>9, FailsTo DEF Refuse
<1>10. CASE k \in Calls /\ Send(k)
  <2>1. k \notin sent /\ call[k].client \in Clients
    BY <1>10 DEF Send, At, CallInv, PoolInv, WithClient
  <2>2. requests \in [Clients -> SUBSET Calls]
    BY DEF Typed
  <2>3. \A d \in Clients : requests'[d] = IF d = call[k].client THEN requests[d] \cup {k}
                                           ELSE requests[d]
    BY <1>10, <2>1, <2>2 DEF Send
  <2>4. \A d \in Clients : k \notin requests[d]
    BY <2>1
  <2>5. sent' = sent \cup {k} /\ ran' = ran
    BY <1>10 DEF Send
  <2>6. \A j \in Calls : j \notin sent' => ran'[j] = 0
    BY <2>5
  <2>7. \A d \in Clients : \A j \in requests'[d] :
          IF j = k THEN d = call[k].client ELSE j \in requests[d]
    BY <2>3, <2>4
  <2>8. \A d \in Clients : \A j \in requests'[d] : j \in sent' /\ ran'[j] = 0
    <3>1. ran[k] = 0
      BY <1>10, <2>1
    <3>2. QED
      BY <2>5, <2>7, <3>1
  <2>9. \A d, e \in Clients : \A j \in requests'[d] \cap requests'[e] : d = e
    BY <2>7
  <2>10. QED
    BY <2>6, <2>8, <2>9
<1>11. CASE k \in Calls /\ ReadReply(k)
  BY <1>11, Moves DEF ReadReply, Takes, Returns, Free
<1>12. CASE k \in Calls /\ ReadOther(k)
  BY <1>12, FailsTo DEF ReadOther, Takes, Free
<1>13. CASE k \in Calls /\ ReadGarbage(k)
  BY <1>13, FailsTo DEF ReadGarbage, Takes, MarkBroken, Free
<1>14. CASE k \in Calls /\ ReadLong(k)
  BY <1>14, FailsTo DEF ReadLong, Free
<1>15. CASE k \in Calls /\ ReadEnd(k)
  BY <1>15, FailsTo DEF ReadEnd, MarkBroken, Free
<1>16. CASE k \in Calls /\ Timeout(k)
  BY <1>16, FailsTo DEF Timeout, MarkBroken, Free
<1>17. CASE k \in Calls /\ Cancel(k)
  BY <1>17, FailsTo DEF Cancel
<1>18. CASE c \in Clients /\ k \in Calls /\ Serve(c, k)
  <2>1. k \in sent /\ \A d \in Clients : k \in requests[d] => d = c
    BY <1>18 DEF Serve
  <2>2. /\ \A d \in Clients : requests'[d] = IF d = c THEN requests[c] \ {k} ELSE requests[d]
        /\ \A j \in Calls : j # k => ran'[j] = ran[j]
    BY <1>18 DEF Serve, Typed
  <2>3. requests[c] \subseteq Calls /\ \A d \in Clients : requests[d] \subseteq Calls
    BY <1>18 DEF Typed
  <2>4. \A d \in Clients : \A j \in requests'[d] : j # k /\ j \in requests[d] /\ j \in Calls
    BY <2>1, <2>2, <2>3
  <2>5. QED
    BY <1>18, <2>1, <2>2, <2>4 DEF Serve
<1>19. CASE c \in Clients /\ Chat(c)
  BY <1>19 DEF Chat
<1>20. CASE c \in Clients /\ Exit(c)
  BY <1>20 DEF Exit
<1>21. CASE Close
  BY <1>21 DEF Close, Discard
<1>22. CASE Closed
  BY <1>22 DEF Closed, Ended
<1>23. QED
  BY <1>1, <1>2, <1>3, <1>4, <1>5, <1>6, <1>7, <1>8, <1>9, <1>10, <1>11, <1>12, <1>13,
     <1>14, <1>15, <1>16, <1>17, <1>18, <1>19, <1>20, <1>21, <1>22
  DEF StepOf, Step

\* A step keeps every server owned.
LEMMA OwnedStep ==
  ASSUME Typed, PoolInv, ServersOwned, NEW k, NEW c, StepOf(k, c)
  PROVE  ServersOwned'
<1> USE DEF ServersOwned, PoolInv, Locked, WithClient, At, pool, client, Moved, Others
<1>1. CASE k \in Calls /\ Begin(k)
  BY <1>1, Begins DEF Begin
<1>2. CASE k \in Calls /\ Reuse(k)
  BY <1>2, Moves DEF Reuse
<1>3. CASE k \in Calls /\ Replace(k)
  <2>1. entry \in Clients /\ state \in [Clients -> {"unused", "open", "broken", "closed"}]
    BY <1>3 DEF Replace, Typed
  <2>2. Moved(k, "discard", entry) /\ call[k].pc = "get"
    BY <1>3, Moves DEF Replace
  <2>3. strays' = strays /\ state' = [state EXCEPT ![entry] = "closed"]
    BY <1>3 DEF Replace, Discard
  <2>4. \A d \in Clients : state'[d] \in {"open", "broken"} => d # entry /\ state[d] = state'[d]
    BY <2>1, <2>3
  <2>5. QED
    BY <2>2, <2>3, <2>4
<1>4. CASE k \in Calls /\ Connect(k)
  <2>1. CASE Start(k) /\ poolLock' = k
    <3>1. PICK x \in Clients : Goes(k, "connect", x) /\ 
                   state[x] = "unused" /\ state' = [state EXCEPT ![x] = "open"]
      BY <2>1 DEF Start
    <3>2. Moved(k, "connect", x)
      BY <1>4, <3>1, Moves
    <3>3. QED
      BY <1>4, <2>1, <3>1, <3>2 DEF Connect
  <2>2. CASE Fails(k) /\ poolLock' = None /\ UNCHANGED <<state, process>>
    BY <1>4, <2>2, FailsTo DEF Connect
  <2>3. QED
    BY <1>4, <2>1, <2>2 DEF Connect
<1>5. CASE k \in Calls /\ Discarded(k)
  BY <1>5, Moves DEF Discarded, Ended
<1>6. CASE k \in Calls /\ Connected(k)
  <2>1. /\ call[k].pc = "connect" /\ entry = None /\ entry' = call[k].client
        /\ UNCHANGED <<state, strays>>
    BY <1>6 DEF Connected
  <2>2. \A j \in Calls : j # k => call'[j] = call[j]
    BY <1>6, Moves DEF Connected
  <2>3. ASSUME NEW d \in Clients, state[d] \in {"open", "broken"}, d \notin strays
        PROVE  entry' = d \/ \E j \in Calls : call'[j].pc = "connect" /\ call'[j].client = d
    <3>1. PICK j \in Calls : call[j].pc = "connect" /\ call[j].client = d
      BY <2>1, <2>3, PoolAssumption
    <3>2. QED
      BY <2>1, <2>2, <3>1
  <2>4. QED
    BY <2>1, <2>3
<1>7. CASE k \in Calls /\ ConnectFails(k)
  <2>1. /\ call[k].pc = "connect" /\ call[k].client \in Clients
        /\ state' = [state EXCEPT ![call[k].client] = "closed"]
        /\ UNCHANGED <<entry, strays>>
    BY <1>7 DEF ConnectFails
  <2>2. \A j \in Calls : j # k => call'[j] = call[j]
    BY <1>7, Moves DEF ConnectFails
  <2>3. state \in [Clients -> {"unused", "open", "broken", "closed"}]
    BY DEF Typed
  <2>4. \A d \in Clients :
          state'[d] \in {"open", "broken"} => d # call[k].client /\ state[d] = state'[d]
    BY <2>1, <2>3
  <2>5. QED
    BY <2>1, <2>2, <2>4
<1>8. CASE k \in Calls /\ Undone(k)
  BY <1>8, FailsTo DEF Undone, Ended
<1>9. CASE k \in Calls /\ Refuse(k)
  BY <1>9, FailsTo DEF Refuse
<1>10. CASE k \in Calls /\ Send(k)
  <2>1. call[k].pc = "have" /\ UNCHANGED <<entry, state, strays>>
    BY <1>10 DEF Send
  <2>2. \A j \in Calls : j # k => call'[j] = call[j]
    BY <1>10, Moves DEF Send
  <2>3. QED
    BY <2>1, <2>2
<1>11. CASE k \in Calls /\ ReadReply(k)
  <2>1. call[k].pc = "wait" /\ UNCHANGED <<entry, state, strays>>
    BY <1>11 DEF ReadReply, Takes
  <2>2. \A j \in Calls : j # k => call'[j] = call[j]
    BY <1>11, Moves DEF ReadReply
  <2>3. QED
    BY <2>1, <2>2
<1>12. CASE k \in Calls /\ ReadOther(k)
  BY <1>12, FailsTo DEF ReadOther, Takes, Free
<1>13. CASE k \in Calls /\ ReadGarbage(k)
  BY <1>13, FailsTo DEF ReadGarbage, Takes, MarkBroken, Free
<1>14. CASE k \in Calls /\ ReadLong(k)
  BY <1>14, FailsTo DEF ReadLong, Free
<1>15. CASE k \in Calls /\ ReadEnd(k)
  BY <1>15, FailsTo DEF ReadEnd, MarkBroken, Free
<1>16. CASE k \in Calls /\ Timeout(k)
  BY <1>16, FailsTo DEF Timeout, MarkBroken, Free
<1>17. CASE k \in Calls /\ Cancel(k)
  BY <1>17, FailsTo DEF Cancel
<1>18. CASE c \in Clients /\ k \in Calls /\ Serve(c, k)
  BY <1>18 DEF Serve
<1>19. CASE c \in Clients /\ Chat(c)
  BY <1>19 DEF Chat
<1>20. CASE c \in Clients /\ Exit(c)
  BY <1>20 DEF Exit
<1>21. CASE Close
  <2>1. entry \in Clients /\ state \in [Clients -> {"unused", "open", "broken", "closed"}]
    BY <1>21 DEF Close, Typed
  <2>2. strays' = strays /\ call' = call /\ state' = [state EXCEPT ![entry] = "closed"]
    BY <1>21 DEF Close, Discard
  <2>3. \A d \in Clients : state'[d] \in {"open", "broken"} => d # entry /\ state[d] = state'[d]
    BY <2>1, <2>2
  <2>4. QED
    BY <2>2, <2>3
<1>22. CASE Closed
  BY <1>22 DEF Closed, Ended
<1>23. QED
  BY <1>1, <1>2, <1>3, <1>4, <1>5, <1>6, <1>7, <1>8, <1>9, <1>10, <1>11, <1>12, <1>13,
     <1>14, <1>15, <1>16, <1>17, <1>18, <1>19, <1>20, <1>21, <1>22
  DEF StepOf, Step

\* What a step does to the data keeps it of its type.
LEMMA GoesTyped ==
  ASSUME Typed, NEW k \in Calls, NEW pc \in Pcs, NEW x \in Clients \cup {None}, Goes(k, pc, x)
  PROVE  call' \in [Calls -> CallRecords]
<1>1. call \in [Calls -> CallRecords] /\ call[k] \in CallRecords
  BY DEF Typed
<1>2. [call[k] EXCEPT !.pc = pc] \in CallRecords
  BY <1>1 DEF CallRecords
<1>3. [[call[k] EXCEPT !.pc = pc] EXCEPT !.client = x] \in CallRecords
  BY <1>2 DEF CallRecords
<1>4. \A r : [[call EXCEPT ![k] = r] EXCEPT ![k].client = x]
              = [call EXCEPT ![k] = [r EXCEPT !.client = x]]
  BY <1>1
<1>5. call' = [call EXCEPT ![k] = [[call[k] EXCEPT !.pc = pc] EXCEPT !.client = x]]
  BY <1>4 DEF Goes
<1>6. QED
  BY <1>1, <1>3, <1>5

LEMMA FailsTyped ==
  ASSUME Typed, NEW k \in Calls, Fails(k)
  PROVE  call' \in [Calls -> CallRecords] /\ outcome' \in [Calls -> Calls \cup {None, Failed}]
<1>1. "done" \in Pcs /\ Goes(k, "done", None)
  BY DEF Pcs, Fails
<1>2. call' \in [Calls -> CallRecords]
  BY <1>1, GoesTyped
<1>3. QED
  BY <1>2 DEF Fails, Typed

LEMMA CallTyped ==
  ASSUME Typed, PoolInv, NEW k, NEW c, StepOf(k, c)
  PROVE  call' \in [Calls -> CallRecords] /\ outcome' \in [Calls -> Calls \cup {None, Failed}]
<1> USE DEF Pcs
<1>1. CASE k \in Calls /\ Begin(k)
  <2>1. CASE Fails(k)
    BY <1>1, <2>1, FailsTyped
  <2>2. ASSUME NEW asks \in BOOLEAN,
               call' = [call EXCEPT ![k].pc = "get", ![k].asks = asks], outcome' = outcome
        PROVE  /\ call' \in [Calls -> CallRecords]
               /\ outcome' \in [Calls -> Calls \cup {None, Failed}]
    <3>1. call \in [Calls -> CallRecords] /\ call[k] \in CallRecords
      BY <1>1 DEF Typed
    <3>2. [call[k] EXCEPT !.pc = "get"] \in CallRecords
      BY <3>1 DEF CallRecords, Pcs
    <3>3. [[call[k] EXCEPT !.pc = "get"] EXCEPT !.asks = asks] \in CallRecords
      BY <3>2 DEF CallRecords
    <3>4. call' = [call EXCEPT ![k] = [[call[k] EXCEPT !.pc = "get"] EXCEPT !.asks = asks]]
      BY <1>1, <2>2, <3>1
    <3>5. call' \in [Calls -> CallRecords]
      BY <1>1, <3>1, <3>3, <3>4
    <3>6. QED
      BY <2>2, <3>5 DEF Typed
  <2>3. QED
    BY <1>1, <2>1, <2>2 DEF Begin
<1>2. CASE k \in Calls /\ Reuse(k)
  <2>1. entry \in Clients /\ outcome' = outcome
    BY <1>2 DEF Typed, Reuse
  <2>2. call' \in [Calls -> CallRecords]
    BY <1>2, <2>1, GoesTyped DEF Reuse
  <2>3. QED
    BY <2>1, <2>2 DEF Typed
<1>3. CASE k \in Calls /\ Replace(k)
  <2>1. entry \in Clients /\ outcome' = outcome
    BY <1>3 DEF Typed, Replace, Discard
  <2>2. call' \in [Calls -> CallRecords]
    BY <1>3, <2>1, GoesTyped DEF Replace
  <2>3. QED
    BY <2>1, <2>2 DEF Typed
<1>4. CASE k \in Calls /\ Connect(k)
  <2>1. CASE Start(k)
    <3>1. PICK x \in Clients : Goes(k, "connect", x) /\ outcome' = outcome
      BY <2>1 DEF Start
    <3>2. call' \in [Calls -> CallRecords]
      BY <1>4, <3>1, GoesTyped
    <3>3. QED
      BY <3>1, <3>2 DEF Typed
  <2>2. CASE Fails(k)
    BY <1>4, <2>2, FailsTyped
  <2>3. QED
    BY <1>4, <2>1, <2>2 DEF Connect
<1>5. CASE k \in Calls /\ Discarded(k)
  <2>1. outcome' = outcome /\ (call[k].client \in Clients)
    BY <1>5 DEF Typed, Discarded, At, PoolInv, WithClient
  <2>2. call' \in [Calls -> CallRecords]
    BY <1>5, <2>1, GoesTyped DEF Discarded
  <2>3. QED
    BY <2>1, <2>2 DEF Typed
<1>6. CASE k \in Calls /\ Connected(k)
  <2>1. outcome' = outcome /\ (call[k].client \in Clients)
    BY <1>6 DEF Typed, Connected, At, PoolInv, WithClient
  <2>2. call' \in [Calls -> CallRecords]
    BY <1>6, <2>1, GoesTyped DEF Connected
  <2>3. QED
    BY <2>1, <2>2 DEF Typed
<1>7. CASE k \in Calls /\ ConnectFails(k)
  <2>1. outcome' = outcome /\ (call[k].client \in Clients)
    BY <1>7 DEF Typed, ConnectFails, At, PoolInv, WithClient
  <2>2. call' \in [Calls -> CallRecords]
    BY <1>7, <2>1, GoesTyped DEF ConnectFails
  <2>3. QED
    BY <2>1, <2>2 DEF Typed
<1>8. CASE k \in Calls /\ Undone(k)
  BY <1>8, FailsTyped DEF Undone
<1>9. CASE k \in Calls /\ Refuse(k)
  BY <1>9, FailsTyped DEF Refuse
<1>10. CASE k \in Calls /\ Send(k)
  <2>1. outcome' = outcome /\ (call[k].client \in Clients)
    BY <1>10 DEF Typed, Send, At, PoolInv, WithClient
  <2>2. call' \in [Calls -> CallRecords]
    BY <1>10, <2>1, GoesTyped DEF Send
  <2>3. QED
    BY <2>1, <2>2 DEF Typed
<1>11. CASE k \in Calls /\ ReadReply(k)
  <2>1. Goes(k, "done", None) /\ outcome' = [outcome EXCEPT ![k] = k]
    BY <1>11 DEF ReadReply, Returns
  <2>2. call' \in [Calls -> CallRecords]
    BY <1>11, <2>1, GoesTyped
  <2>3. QED
    BY <1>11, <2>1, <2>2 DEF Typed
<1>12. CASE k \in Calls /\ ReadOther(k)
  <2>1. CASE Fails(k)
    BY <1>12, <2>1, FailsTyped
  <2>2. CASE UNCHANGED <<call, outcome>>
    BY <2>2 DEF Typed
  <2>3. QED
    BY <1>12, <2>1, <2>2 DEF ReadOther
<1>13. CASE k \in Calls /\ ReadGarbage(k)
  BY <1>13, FailsTyped DEF ReadGarbage
<1>14. CASE k \in Calls /\ ReadLong(k)
  BY <1>14, FailsTyped DEF ReadLong
<1>15. CASE k \in Calls /\ ReadEnd(k)
  BY <1>15, FailsTyped DEF ReadEnd
<1>16. CASE k \in Calls /\ Timeout(k)
  BY <1>16, FailsTyped DEF Timeout
<1>17. CASE k \in Calls /\ Cancel(k)
  BY <1>17, FailsTyped DEF Cancel
<1>18. CASE c \in Clients /\ k \in Calls /\ Serve(c, k)
  BY <1>18 DEF Serve, Typed
<1>19. CASE c \in Clients /\ Chat(c)
  BY <1>19 DEF Chat, Typed
<1>20. CASE c \in Clients /\ Exit(c)
  BY <1>20 DEF Exit, Typed
<1>21. CASE Close
  BY <1>21 DEF Close, Typed
<1>22. CASE Closed
  BY <1>22 DEF Closed, Typed
<1>23. QED
  BY <1>1, <1>2, <1>3, <1>4, <1>5, <1>6, <1>7, <1>8, <1>9, <1>10, <1>11, <1>12, <1>13,
     <1>14, <1>15, <1>16, <1>17, <1>18, <1>19, <1>20, <1>21, <1>22
  DEF StepOf, Step

LEMMA PoolTyped ==
  ASSUME Typed, PoolInv, NEW k, NEW c, StepOf(k, c)
  PROVE  /\ entry' \in Clients \cup {None} /\ closing' \in Clients \cup {None}
         /\ state' \in [Clients -> {"unused", "open", "broken", "closed"}]
         /\ process' = [x \in Clients |-> process'[x]]
         /\ busy' = [x \in Clients |-> busy'[x]]
<1> USE DEF Typed, PoolInv, WithClient, At, pool, client
<1>1. CASE k \in Calls /\ Begin(k)
  BY <1>1 DEF Begin
<1>2. CASE k \in Calls /\ Reuse(k)
  BY <1>2 DEF Reuse
<1>3. CASE k \in Calls /\ Replace(k)
  BY <1>3 DEF Replace, Discard
<1>4. CASE k \in Calls /\ Connect(k)
  <2>1. CASE Start(k) /\ poolLock' = k
    BY <1>4, <2>1 DEF Connect, Start
  <2>2. CASE UNCHANGED <<state, process>>
    BY <1>4, <2>2 DEF Connect
  <2>3. QED
    BY <1>4, <2>1, <2>2 DEF Connect
<1>5. CASE k \in Calls /\ Discarded(k)
  BY <1>5 DEF Discarded, Ended
<1>6. CASE k \in Calls /\ Connected(k)
  <2>1. call[k].client \in Clients
    BY <1>6 DEF Connected
  <2>2. QED
    BY <1>6, <2>1 DEF Connected
<1>7. CASE k \in Calls /\ ConnectFails(k)
  BY <1>7 DEF ConnectFails
<1>8. CASE k \in Calls /\ Undone(k)
  BY <1>8 DEF Undone, Ended
<1>9. CASE k \in Calls /\ Refuse(k)
  BY <1>9 DEF Refuse
<1>10. CASE k \in Calls /\ Send(k)
  BY <1>10 DEF Send
<1>11. CASE k \in Calls /\ ReadReply(k)
  BY <1>11 DEF ReadReply, Takes, Returns, Free
<1>12. CASE k \in Calls /\ ReadOther(k)
  BY <1>12 DEF ReadOther, Takes, Free
<1>13. CASE k \in Calls /\ ReadGarbage(k)
  BY <1>13 DEF ReadGarbage, Takes, MarkBroken, Free
<1>14. CASE k \in Calls /\ ReadLong(k)
  BY <1>14 DEF ReadLong, Free
<1>15. CASE k \in Calls /\ ReadEnd(k)
  BY <1>15 DEF ReadEnd, MarkBroken, Free
<1>16. CASE k \in Calls /\ Timeout(k)
  BY <1>16 DEF Timeout, MarkBroken, Free
<1>17. CASE k \in Calls /\ Cancel(k)
  BY <1>17 DEF Cancel
<1>18. CASE c \in Clients /\ k \in Calls /\ Serve(c, k)
  BY <1>18 DEF Serve
<1>19. CASE c \in Clients /\ Chat(c)
  BY <1>19 DEF Chat
<1>20. CASE c \in Clients /\ Exit(c)
  BY <1>20 DEF Exit
<1>21. CASE Close
  BY <1>21 DEF Close, Discard
<1>22. CASE Closed
  BY <1>22 DEF Closed, Ended
<1>23. QED
  BY <1>1, <1>2, <1>3, <1>4, <1>5, <1>6, <1>7, <1>8, <1>9, <1>10, <1>11, <1>12, <1>13,
     <1>14, <1>15, <1>16, <1>17, <1>18, <1>19, <1>20, <1>21, <1>22
  DEF StepOf, Step

LEMMA WireTyped ==
  ASSUME Typed, PoolInv, WireInv, NEW k, NEW c, StepOf(k, c)
  PROVE  /\ requests' \in [Clients -> SUBSET Calls]
         /\ sent' \subseteq Calls /\ ran' \in [Calls -> {0, 1}]
<1> USE DEF Typed, wire
<1>1. CASE k \in Calls /\ Begin(k)
  BY <1>1 DEF Begin
<1>2. CASE k \in Calls /\ Reuse(k)
  BY <1>2 DEF Reuse
<1>3. CASE k \in Calls /\ Replace(k)
  BY <1>3 DEF Replace, Discard
<1>4. CASE k \in Calls /\ Connect(k)
  BY <1>4 DEF Connect, Start
<1>5. CASE k \in Calls /\ Discarded(k)
  BY <1>5 DEF Discarded, Ended
<1>6. CASE k \in Calls /\ Connected(k)
  BY <1>6 DEF Connected
<1>7. CASE k \in Calls /\ ConnectFails(k)
  BY <1>7 DEF ConnectFails
<1>8. CASE k \in Calls /\ Undone(k)
  BY <1>8 DEF Undone, Ended
<1>9. CASE k \in Calls /\ Refuse(k)
  BY <1>9 DEF Refuse
<1>10. CASE k \in Calls /\ Send(k)
  <2>1. /\ call[k].client \in Clients
        /\ requests' = [requests EXCEPT ![call[k].client] = @ \cup {k}]
        /\ sent' = sent \cup {k} /\ ran' = ran
    BY <1>10 DEF Send, PoolInv, WithClient, At
  <2>2. QED
    BY <1>10, <2>1
<1>11. CASE k \in Calls /\ ReadReply(k)
  BY <1>11 DEF ReadReply, Takes, Returns, Free
<1>12. CASE k \in Calls /\ ReadOther(k)
  BY <1>12 DEF ReadOther, Takes, Free
<1>13. CASE k \in Calls /\ ReadGarbage(k)
  BY <1>13 DEF ReadGarbage, Takes, MarkBroken, Free
<1>14. CASE k \in Calls /\ ReadLong(k)
  BY <1>14 DEF ReadLong, Free
<1>15. CASE k \in Calls /\ ReadEnd(k)
  BY <1>15 DEF ReadEnd, MarkBroken, Free
<1>16. CASE k \in Calls /\ Timeout(k)
  BY <1>16 DEF Timeout, MarkBroken, Free
<1>17. CASE k \in Calls /\ Cancel(k)
  BY <1>17 DEF Cancel
<1>18. CASE c \in Clients /\ k \in Calls /\ Serve(c, k)
  <2>1. /\ requests' = [requests EXCEPT ![c] = @ \ {k}] /\ sent' = sent
        /\ ran' = [ran EXCEPT ![k] = @ + 1] /\ ran[k] = 0
    BY <1>18 DEF Serve, WireInv
  <2>2. QED
    BY <1>18, <2>1
<1>19. CASE c \in Clients /\ Chat(c)
  BY <1>19 DEF Chat
<1>20. CASE c \in Clients /\ Exit(c)
  BY <1>20 DEF Exit
<1>21. CASE Close
  BY <1>21 DEF Close, Discard
<1>22. CASE Closed
  BY <1>22 DEF Closed, Ended
<1>23. QED
  BY <1>1, <1>2, <1>3, <1>4, <1>5, <1>6, <1>7, <1>8, <1>9, <1>10, <1>11, <1>12, <1>13,
     <1>14, <1>15, <1>16, <1>17, <1>18, <1>19, <1>20, <1>21, <1>22
  DEF StepOf, Step

\* A stream without one of its lines.
LEMMA WithoutLine ==
  ASSUME NEW S, NEW q \in Seq(S), NEW i \in DOMAIN q
  PROVE  SubSeq(q, 1, i - 1) \o SubSeq(q, i + 1, Len(q)) \in Seq(S)
<1>1. i \in Int /\ Len(q) \in Int /\ \A j \in 1 .. Len(q) : q[j] \in S
  BY ElementOfSeq
<1>2. SubSeq(q, 1, i - 1) \in Seq(S)
  BY <1>1, SubSeqProperties
<1>3. SubSeq(q, i + 1, Len(q)) \in Seq(S)
  BY <1>1, SubSeqProperties
<1>4. QED
  BY <1>2, <1>3, ConcatProperties

LEMMA OneLine ==
  ASSUME NEW S, NEW l \in S
  PROVE  <<l>> \in Seq(S)
<1>1. Append(<<>>, l) \in Seq(S) /\ Append(<<>>, l) = <<l>>
  BY EmptySeq, AppendProperties
<1>2. QED
  BY <1>1

\* Who takes a line leaves the others, and what it takes could stand there.
LEMMA TakesLine ==
  ASSUME Typed, PoolInv, NEW k \in Calls, NEW l, Takes(k, l)
  PROVE  /\ lines' \in [Clients -> Seq(LinesOf(ran))] /\ ran' = ran
         /\ l \in LinesOf(ran)
<1> DEFINE x == call[k].client
<1>1. x \in Clients /\ lines \in [Clients -> Seq(LinesOf(ran))] /\ ran' = ran
  BY DEF Takes, PoolInv, WithClient, At, Typed
<1>2. PICK i \in DOMAIN lines[x] :
        /\ lines[x][i] = l
        /\ lines' = [lines EXCEPT ![x] = SubSeq(@, 1, i - 1) \o SubSeq(@, i + 1, Len(@))]
  BY DEF Takes
<1>3. lines[x] \in Seq(LinesOf(ran))
  BY <1>1
<1>4. SubSeq(lines[x], 1, i - 1) \o SubSeq(lines[x], i + 1, Len(lines[x])) \in Seq(LinesOf(ran))
  BY <1>2, <1>3, WithoutLine
<1>5. lines[x][i] \in LinesOf(ran)
  BY <1>2, <1>3, ElementOfSeq
<1>6. QED
  BY <1>1, <1>2, <1>4, <1>5

LEMMA LinesTyped ==
  ASSUME Typed, PoolInv, WireInv, NEW k, NEW c, StepOf(k, c)
  PROVE  lines' \in [Clients -> Seq(LinesOf(ran'))]
<1>0. lines \in [Clients -> Seq(LinesOf(ran))]
  BY DEF Typed
<1>1. CASE k \in Calls /\ Begin(k)
  BY <1>0, <1>1 DEF Begin, wire
<1>2. CASE k \in Calls /\ Reuse(k)
  BY <1>0, <1>2 DEF Reuse, wire
<1>3. CASE k \in Calls /\ Replace(k)
  BY <1>0, <1>3 DEF Replace, Discard, wire
<1>4. CASE k \in Calls /\ Connect(k)
  BY <1>0, <1>4 DEF Connect, wire
<1>5. CASE k \in Calls /\ Discarded(k)
  BY <1>0, <1>5 DEF Discarded, Ended, wire
<1>6. CASE k \in Calls /\ Connected(k)
  BY <1>0, <1>6 DEF Connected, wire
<1>7. CASE k \in Calls /\ ConnectFails(k)
  BY <1>0, <1>7 DEF ConnectFails, wire
<1>8. CASE k \in Calls /\ Undone(k)
  BY <1>0, <1>8 DEF Undone, Ended, wire
<1>9. CASE k \in Calls /\ Refuse(k)
  BY <1>0, <1>9 DEF Refuse, wire
<1>10. CASE k \in Calls /\ Send(k)
  BY <1>0, <1>10 DEF Send, wire
<1>11. CASE k \in Calls /\ ReadReply(k)
  <2>1. PICK l : Takes(k, l)
    BY <1>0, <1>11 DEF ReadReply
  <2>2. QED
    BY <1>0, <1>11, <2>1, TakesLine
<1>12. CASE k \in Calls /\ ReadOther(k)
  <2>1. PICK l : Takes(k, l)
    BY <1>0, <1>12 DEF ReadOther
  <2>2. QED
    BY <1>0, <1>12, <2>1, TakesLine
<1>13. CASE k \in Calls /\ ReadGarbage(k)
  <2>1. PICK l : Takes(k, l)
    BY <1>0, <1>13 DEF ReadGarbage
  <2>2. QED
    BY <1>0, <1>13, <2>1, TakesLine
<1>14. CASE k \in Calls /\ ReadLong(k)
  <2>1. PICK rest \in {<<>>, <<[kind |-> "garbage", of |-> None]>>} :
          lines' = [lines EXCEPT ![call[k].client] = rest \o Tail(@)]
    <3>1. [[kind |-> "long", of |-> None] EXCEPT !.kind = "garbage"]
            = [kind |-> "garbage", of |-> None]
      OBVIOUS
    <3>2. QED
      BY <1>0, <1>14, <3>1 DEF ReadLong
  <2>2. call[k].client \in Clients /\ ran' = ran /\ lines[call[k].client] # <<>>
    BY <1>0, <1>14 DEF ReadLong, PoolInv, WithClient, At
  <2>3. [kind |-> "garbage", of |-> None] \in LinesOf(ran)
    BY DEF LinesOf, Other
  <2>4. rest \in Seq(LinesOf(ran))
    BY <2>1, <2>3, EmptySeq, OneLine
  <2>5. Tail(lines[call[k].client]) \in Seq(LinesOf(ran))
    <3>1. lines[call[k].client] \in Seq(LinesOf(ran))
      BY <1>0, <1>0, <2>2
    <3>2. QED
      BY <2>2, <3>1, HeadTailProperties
  <2>6. rest \o Tail(lines[call[k].client]) \in Seq(LinesOf(ran))
    BY <2>4, <2>5, ConcatProperties
  <2>7. QED
    BY <1>0, <1>0, <2>1, <2>2, <2>6
<1>15. CASE k \in Calls /\ ReadEnd(k)
  BY <1>0, <1>15 DEF ReadEnd, MarkBroken, Free, wire
<1>16. CASE k \in Calls /\ Timeout(k)
  BY <1>0, <1>16 DEF Timeout, MarkBroken, Free, wire
<1>17. CASE k \in Calls /\ Cancel(k)
  BY <1>0, <1>17 DEF Cancel, wire
<1>18. CASE c \in Clients /\ k \in Calls /\ Serve(c, k)
  <2>1. PICK l \in {Reply(k), [kind |-> "long", of |-> None]} :
          lines' = [lines EXCEPT ![c] = Append(@, l)]
    BY <1>0, <1>18 DEF Serve
  <2>2. l \in LinesOf(ran') /\ \A d \in Clients : lines[d] \in Seq(LinesOf(ran'))
    <3>1. /\ \A j \in Calls : ran[j] = 1 => ran'[j] = 1
          /\ ran'[k] = 1
      BY <1>0, <1>18 DEF Serve, WireInv, Typed
    <3>2. LinesOf(ran) \subseteq LinesOf(ran')
      BY <3>1 DEF LinesOf
    <3>3. Reply(k) \in LinesOf(ran')
      BY <1>0, <1>18, <3>1 DEF LinesOf
    <3>4. [kind |-> "long", of |-> None] \in LinesOf(ran')
      BY DEF LinesOf, Other
    <3>5. QED
      BY <1>0, <1>0, <2>1, <3>2, <3>3, <3>4, SeqMonotonic
  <2>3. Append(lines[c], l) \in Seq(LinesOf(ran'))
    BY <1>0, <1>18, <2>1, <2>2, AppendProperties
  <2>4. QED
    BY <1>0, <1>18, <2>1, <2>2, <2>3
<1>19. CASE c \in Clients /\ Chat(c)
  <2>1. PICK l \in Other : lines' = [lines EXCEPT ![c] = Append(@, l)]
    BY <1>0, <1>19 DEF Chat
  <2>2. /\ l \in LinesOf(ran') /\ ran' = ran
        /\ \A d \in Clients : lines[d] \in Seq(LinesOf(ran'))
    BY <1>0, <1>19, <2>1 DEF Chat, LinesOf
  <2>3. Append(lines[c], l) \in Seq(LinesOf(ran'))
    BY <1>0, <1>19, <2>1, <2>2, AppendProperties
  <2>4. QED
    BY <1>0, <1>19, <2>1, <2>2, <2>3
<1>20. CASE c \in Clients /\ Exit(c)
  BY <1>0, <1>20 DEF Exit, wire
<1>21. CASE Close
  BY <1>0, <1>21 DEF Close, Discard, wire
<1>22. CASE Closed
  BY <1>0, <1>22 DEF Closed, Ended, wire
<1>23. QED
  BY <1>1, <1>2, <1>3, <1>4, <1>5, <1>6, <1>7, <1>8, <1>9, <1>10, <1>11, <1>12, <1>13,
     <1>14, <1>15, <1>16, <1>17, <1>18, <1>19, <1>20, <1>21, <1>22
  DEF StepOf, Step

LEMMA Invariance == Spec => []IInv
<1>1. Init => IInv
  <2>1. ASSUME Init
        PROVE  call \in [Calls -> CallRecords] /\ lines \in [Clients -> Seq(LinesOf(ran))]
    BY <2>1 DEF Init, CallRecords, Pcs
  <2>2. ASSUME Init
        PROVE  Typed
    BY <2>1, <2>2 DEF Init, Typed
  <2>3. QED
    BY <2>2 DEF Init, IInv, PoolInv, CallInv, WireInv, ServersOwned, WithClient, Locked
<1>2. ASSUME IInv, NEW k, NEW c, StepOf(k, c)
      PROVE  IInv'
  <2>1. Typed'
    BY <1>2, CallTyped, PoolTyped, WireTyped, LinesTyped DEF IInv, Typed
  <2>2. PoolInv' /\ ServersOwned'
    BY <1>2, PoolStep, OwnedStep DEF IInv
  <2>3. CallInv' /\ WireInv'
    BY <1>2, CallStep, WireStep DEF IInv
  <2>4. QED
    BY <2>1, <2>2, <2>3 DEF IInv
<1>3. ASSUME IInv, UNCHANGED vars
      PROVE  IInv'
  BY <1>3 DEF vars, pool, client, wire, IInv, Typed, PoolInv, CallInv, WireInv,
              ServersOwned, At
<1>4. Next => \E k, c : StepOf(k, c)
  BY DEF Next, StepOf
<1>5. IInv /\ [Next]_vars => IInv'
  BY <1>2, <1>3, <1>4
<1>6. QED
  BY <1>1, <1>5, PTL DEF Spec

\* A call that is under way may fail.
LEMMA FailPromised ==
  ASSUME CallInv, NEW k \in Calls, Fails(k), UNCHANGED <<sent, ran>>, call[k].pc # "done"
  PROVE  Promise!Next
BY DEF CallInv, Fails, Promise!Next, Promise!Fail

\* A step is one that the callers were promised, or they see nothing of it.
LEMMA StepPromised ==
  ASSUME Typed, PoolInv, CallInv, WireInv, NEW k, NEW c, StepOf(k, c)
  PROVE  [Promise!Next]_Promise!vars
<1>1. CASE k \in Calls /\ Begin(k)
  <2>1. CASE Fails(k)
    BY <1>1, <2>1, FailPromised DEF Begin, wire, At
  <2>2. CASE UNCHANGED outcome
    BY <1>1, <2>2 DEF Begin, wire, Promise!vars
  <2>3. QED
    BY <1>1, <2>1, <2>2 DEF Begin
<1>2. CASE k \in Calls /\ Reuse(k)
  BY <1>2 DEF Reuse, wire, Promise!vars
<1>3. CASE k \in Calls /\ Replace(k)
  BY <1>3 DEF Replace, wire, Promise!vars
<1>4. CASE k \in Calls /\ Connect(k)
  <2>1. CASE Fails(k)
    BY <1>4, <2>1, FailPromised DEF Connect, wire, At
  <2>2. CASE Start(k)
    BY <1>4, <2>2 DEF Connect, Start, wire, Promise!vars
  <2>3. QED
    BY <1>4, <2>1, <2>2 DEF Connect
<1>5. CASE k \in Calls /\ Discarded(k)
  BY <1>5 DEF Discarded, wire, Promise!vars
<1>6. CASE k \in Calls /\ Connected(k)
  BY <1>6 DEF Connected, wire, Promise!vars
<1>7. CASE k \in Calls /\ ConnectFails(k)
  BY <1>7 DEF ConnectFails, wire, Promise!vars
<1>8. CASE k \in Calls /\ Undone(k)
  BY <1>8, FailPromised DEF Undone, wire, At
<1>9. CASE k \in Calls /\ Refuse(k)
  BY <1>9, FailPromised DEF Refuse, wire, At
<1>10. CASE k \in Calls /\ Send(k)
  <2>1. k \notin sent /\ outcome[k] = None
    BY <1>10 DEF Send, At, CallInv
  <2>2. QED
    BY <1>10, <2>1 DEF Send, Promise!Next, Promise!Send
<1>11. CASE k \in Calls /\ ReadReply(k)
  <2>1. Takes(k, Reply(k)) /\ outcome' = [outcome EXCEPT ![k] = k]
    BY <1>11 DEF ReadReply, Returns
  <2>2. UNCHANGED <<sent, ran>> /\ outcome[k] = None
    BY <1>11, <2>1 DEF Takes, At, CallInv
  <2>3. Reply(k) \in LinesOf(ran)
    BY <1>11, <2>1, TakesLine
  <2>4. ran[k] = 1
    BY <1>11, <2>3 DEF LinesOf, Reply, Other
  <2>5. QED
    BY <1>11, <2>1, <2>2, <2>4 DEF Promise!Next, Promise!Return
<1>12. CASE k \in Calls /\ ReadOther(k)
  <2>1. CASE Fails(k)
    BY <1>12, <2>1, FailPromised DEF ReadOther, Takes, At
  <2>2. CASE UNCHANGED outcome
    BY <1>12, <2>2 DEF ReadOther, Takes, Promise!vars
  <2>3. QED
    BY <1>12, <2>1, <2>2 DEF ReadOther
<1>13. CASE k \in Calls /\ ReadGarbage(k)
  BY <1>13, FailPromised DEF ReadGarbage, Takes, wire, At
<1>14. CASE k \in Calls /\ ReadLong(k)
  BY <1>14, FailPromised DEF ReadLong, Takes, wire, At
<1>15. CASE k \in Calls /\ ReadEnd(k)
  BY <1>15, FailPromised DEF ReadEnd, Takes, wire, At
<1>16. CASE k \in Calls /\ Timeout(k)
  BY <1>16, FailPromised DEF Timeout, Takes, wire, At
<1>17. CASE k \in Calls /\ Cancel(k)
  BY <1>17, FailPromised DEF Cancel, wire, At
<1>18. CASE c \in Clients /\ k \in Calls /\ Serve(c, k)
  <2>1. k \in sent /\ ran[k] = 0
    BY <1>18 DEF Serve, WireInv
  <2>2. ran' = [ran EXCEPT ![k] = 1] /\ UNCHANGED <<sent, outcome>>
    BY <1>18, <2>1 DEF Serve
  <2>3. QED
    BY <1>18, <2>1, <2>2 DEF Promise!Next, Promise!Run
<1>19. CASE c \in Clients /\ Chat(c)
  BY <1>19 DEF Chat, wire, Promise!vars
<1>20. CASE c \in Clients /\ Exit(c)
  BY <1>20 DEF Exit, wire, Promise!vars
<1>21. CASE Close
  BY <1>21 DEF Close, wire, Promise!vars
<1>22. CASE Closed
  BY <1>22 DEF Closed, wire, Promise!vars
<1>23. QED
  BY <1>1, <1>2, <1>3, <1>4, <1>5, <1>6, <1>7, <1>8, <1>9, <1>10, <1>11, <1>12, <1>13,
     <1>14, <1>15, <1>16, <1>17, <1>18, <1>19, <1>20, <1>21, <1>22
  DEF StepOf, Step

(* No server is left running that nobody will stop, except for a caller    *)
(* that was cancelled while it was being started (ServersOwned).           *)
THEOREM ServersOwnedHolds == Spec => []ServersOwned
BY Invariance, PTL DEF IInv

(* The pool implements RemoteCalls: with locks, timeouts, cancelled callers *)
(* and replaced clients, a call is carried out once at most and gets its   *)
(* own answer or fails (RepliesMatched).                                   *)
THEOREM PoolImplementsCalls == Spec => RepliesMatched
<1>1. Init => Promise!Init
  BY DEF Init, Promise!Init
<1>2. ASSUME IInv, [Next]_vars
      PROVE  [Promise!Next]_Promise!vars
  <2>1. ASSUME NEW k, NEW c, StepOf(k, c)
        PROVE  [Promise!Next]_Promise!vars
    BY <1>2, <2>1, StepPromised DEF IInv
  <2>2. CASE UNCHANGED vars
    BY <2>2 DEF vars, wire, Promise!vars
  <2>3. Next => \E k, c : StepOf(k, c)
    BY DEF Next, StepOf
  <2>4. QED
    BY <1>2, <2>1, <2>2, <2>3
<1>3. QED
  BY <1>1, <1>2, Invariance, PTL DEF Spec, RepliesMatched, Promise!Spec
-----------------------------------------------------------------------------
(* Who holds which lock.                                                   *)

\* The pool's lock is held by a call that replaces, connects or undoes a connection.
LockInv ==
  /\ poolLock \in Calls \cup {None}
  /\ \A k \in Calls : poolLock = k => call[k].pc \in Locked

\* A client's lock is held by the call that waits for its answer.
BusyInv ==
  /\ busy \in [Clients -> Calls \cup {None}]
  /\ \A k \in Calls, c \in Clients : busy[c] = k <=> call[k].pc = "wait" /\ call[k].client = c

RestInv ==
  /\ transport \in {"stdio", "http"}
  /\ process \in [Clients -> {"none", "runs", "exited", "gone"}]
  /\ strays \subseteq Clients

LEMMA LockStep ==
  ASSUME Typed, PoolInv, LockInv, NEW k, NEW c, StepOf(k, c)
  PROVE  LockInv'
<1> USE PoolAssumption DEF LockInv, PoolInv, Locked, At, pool, Moved, Others
<1>1. CASE k \in Calls /\ Begin(k)
  BY <1>1, Begins DEF Begin
<1>2. CASE k \in Calls /\ Reuse(k)
  BY <1>2, Moves DEF Reuse
<1>3. CASE k \in Calls /\ Replace(k)
  BY <1>3, Moves DEF Replace
<1>4. CASE k \in Calls /\ Connect(k)
  <2>1. CASE Start(k) /\ poolLock' = k
    <3>1. PICK x \in Clients : Goes(k, "connect", x)
      BY <2>1 DEF Start
    <3>2. Moved(k, "connect", x)
      BY <1>4, <3>1, Moves
    <3>3. QED
      BY <1>4, <2>1, <3>2
  <2>2. CASE Fails(k) /\ poolLock' = None
    BY <1>4, <2>2, FailsTo
  <2>3. QED
    BY <1>4, <2>1, <2>2 DEF Connect
<1>5. CASE k \in Calls /\ Discarded(k)
  BY <1>5, Moves DEF Discarded
<1>6. CASE k \in Calls /\ Connected(k)
  BY <1>6, Moves DEF Connected
<1>7. CASE k \in Calls /\ ConnectFails(k)
  BY <1>7, Moves DEF ConnectFails
<1>8. CASE k \in Calls /\ Undone(k)
  BY <1>8, FailsTo DEF Undone
<1>9. CASE k \in Calls /\ Refuse(k)
  BY <1>9, FailsTo DEF Refuse
<1>10. CASE k \in Calls /\ Send(k)
  BY <1>10, Moves DEF Send
<1>11. CASE k \in Calls /\ ReadReply(k)
  BY <1>11, Moves DEF ReadReply, Takes
<1>12. CASE k \in Calls /\ ReadOther(k)
  BY <1>12, FailsTo DEF ReadOther, Takes
<1>13. CASE k \in Calls /\ ReadGarbage(k)
  BY <1>13, FailsTo DEF ReadGarbage, Takes
<1>14. CASE k \in Calls /\ ReadLong(k)
  BY <1>14, FailsTo DEF ReadLong
<1>15. CASE k \in Calls /\ ReadEnd(k)
  BY <1>15, FailsTo DEF ReadEnd
<1>16. CASE k \in Calls /\ Timeout(k)
  BY <1>16, FailsTo DEF Timeout
<1>17. CASE k \in Calls /\ Cancel(k)
  BY <1>17, FailsTo DEF Cancel
<1>18. CASE Close \/ Closed
  BY <1>18 DEF Close, Closed
<1>19. CASE c \in Clients /\ (Chat(c) \/ Exit(c))
  BY <1>19 DEF Chat, Exit
<1>20. CASE c \in Clients /\ k \in Calls /\ Serve(c, k)
  BY <1>20 DEF Serve
<1>21. QED
  BY <1>1, <1>2, <1>3, <1>4, <1>5, <1>6, <1>7, <1>8, <1>9, <1>10, <1>11, <1>12, <1>13,
     <1>14, <1>15, <1>16, <1>17, <1>18, <1>19, <1>20
  DEF StepOf, Step

\* Nobody else moves, and the call of the step neither waits nor waited.
LEMMA BusyKept ==
  ASSUME BusyInv, NEW k \in Calls, \A j \in Calls : j # k => call'[j] = call[j],
         call[k].pc # "wait", call'[k].pc # "wait", busy' = busy
  PROVE  BusyInv'
BY DEF BusyInv

\* A call that waited fails or returns, and frees its client.
LEMMA BusyFreed ==
  ASSUME BusyInv, PoolInv, NEW k \in Calls, \A j \in Calls : j # k => call'[j] = call[j],
         call[k].pc = "wait", call'[k].pc = "done", Free(k)
  PROVE  BusyInv'
<1>1. call[k].client \in Clients
  BY DEF PoolInv, WithClient
<1>2. busy' = [busy EXCEPT ![call[k].client] = None]
  BY DEF Free
<1>3. busy' \in [Clients -> Calls \cup {None}]
  BY <1>1, <1>2 DEF BusyInv
<1>4. ASSUME NEW j \in Calls, NEW d \in Clients
      PROVE  busy'[d] = j <=> call'[j].pc = "wait" /\ call'[j].client = d
  <2>1. CASE d = call[k].client
    BY <1>1, <1>2, <2>1, PoolAssumption DEF BusyInv
  <2>2. CASE d # call[k].client
    BY <1>1, <1>2, <2>2 DEF BusyInv
  <2>3. QED
    BY <2>1, <2>2
<1>5. QED
  BY <1>3, <1>4 DEF BusyInv

LEMMA BusyStep ==
  ASSUME Typed, PoolInv, BusyInv, NEW k, NEW c, StepOf(k, c)
  PROVE  BusyInv'
<1> USE DEF At, client, Moved, Others
<1>1. CASE k \in Calls /\ Begin(k)
  BY <1>1, Begins, BusyKept DEF Begin
<1>2. CASE k \in Calls /\ Reuse(k)
  BY <1>2, Moves, BusyKept DEF Reuse
<1>3. CASE k \in Calls /\ Replace(k)
  BY <1>3, Moves, BusyKept DEF Replace
<1>4. CASE k \in Calls /\ Connect(k)
  <2>1. (\A j \in Calls : j # k => call'[j] = call[j]) /\ call'[k].pc # "wait"
    <3>1. CASE Start(k)
      <4>1. PICK x \in Clients : Goes(k, "connect", x)
        BY <3>1 DEF Start
      <4>2. Moved(k, "connect", x)
        BY <1>4, <4>1, Moves
      <4>3. QED
        BY <4>2
    <3>2. CASE Fails(k)
      BY <1>4, <3>2, FailsTo
    <3>3. QED
      BY <1>4, <3>1, <3>2 DEF Connect
  <2>2. busy' = busy /\ call[k].pc # "wait"
    BY <1>4 DEF Connect
  <2>3. QED
    BY <1>4, <2>1, <2>2, BusyKept
<1>5. CASE k \in Calls /\ Discarded(k)
  BY <1>5, Moves, BusyKept DEF Discarded
<1>6. CASE k \in Calls /\ Connected(k)
  BY <1>6, Moves, BusyKept DEF Connected
<1>7. CASE k \in Calls /\ ConnectFails(k)
  BY <1>7, Moves, BusyKept DEF ConnectFails
<1>8. CASE k \in Calls /\ Undone(k)
  BY <1>8, FailsTo, BusyKept DEF Undone
<1>9. CASE k \in Calls /\ Refuse(k)
  BY <1>9, FailsTo, BusyKept DEF Refuse
<1>10. CASE k \in Calls /\ Send(k)
  <2>1. /\ call[k].pc = "have" /\ call[k].client \in Clients /\ busy[call[k].client] = None
        /\ busy' = [busy EXCEPT ![call[k].client] = k] /\ Moved(k, "wait", call[k].client)
    BY <1>10, Moves DEF Send, PoolInv, WithClient
  <2>2. busy' \in [Clients -> Calls \cup {None}]
    BY <1>10, <2>1 DEF BusyInv
  <2>3. ASSUME NEW j \in Calls, NEW d \in Clients
        PROVE  busy'[d] = j <=> call'[j].pc = "wait" /\ call'[j].client = d
    <3>1. CASE d = call[k].client
      BY <1>10, <2>1, <3>1, PoolAssumption DEF BusyInv
    <3>2. CASE d # call[k].client
      BY <1>10, <2>1, <3>2 DEF BusyInv
    <3>3. QED
      BY <3>1, <3>2
  <2>4. QED
    BY <2>2, <2>3 DEF BusyInv
<1>11. CASE k \in Calls /\ ReadReply(k)
  BY <1>11, Moves, BusyFreed DEF ReadReply, Takes, Returns
<1>12. CASE k \in Calls /\ ReadOther(k)
  <2>1. call[k].pc = "wait"
    BY <1>12 DEF ReadOther, Takes
  <2>2. CASE Fails(k) /\ Free(k)
    BY <1>12, <2>1, <2>2, FailsTo, BusyFreed
  <2>3. CASE UNCHANGED <<call, busy>>
    BY <2>3 DEF BusyInv
  <2>4. QED
    BY <1>12, <2>2, <2>3 DEF ReadOther
<1>13. CASE k \in Calls /\ (ReadGarbage(k) \/ ReadLong(k) \/ ReadEnd(k) \/ Timeout(k))
  <2>1. call[k].pc = "wait" /\ Fails(k) /\ Free(k)
    BY <1>13 DEF ReadGarbage, ReadLong, ReadEnd, Timeout, Takes
  <2>2. QED
    BY <1>13, <2>1, FailsTo, BusyFreed
<1>14. CASE k \in Calls /\ Cancel(k)
  <2>1. /\ Moved(k, "done", None)
        /\ busy' = [d \in Clients |-> IF busy[d] = k THEN None ELSE busy[d]]
    BY <1>14, FailsTo DEF Cancel
  <2>2. QED
    BY <1>14, <2>1, PoolAssumption DEF BusyInv
<1>15. CASE Close \/ Closed
  BY <1>15 DEF Close, Closed, BusyInv
<1>16. CASE c \in Clients /\ (Chat(c) \/ Exit(c))
  BY <1>16 DEF Chat, Exit, BusyInv
<1>17. CASE c \in Clients /\ k \in Calls /\ Serve(c, k)
  BY <1>17 DEF Serve, BusyInv
<1>18. QED
  BY <1>1, <1>2, <1>3, <1>4, <1>5, <1>6, <1>7, <1>8, <1>9, <1>10, <1>11, <1>12, <1>13,
     <1>14, <1>15, <1>16, <1>17
  DEF StepOf, Step

LEMMA RestStep ==
  ASSUME Typed, PoolInv, RestInv, NEW k, NEW c, StepOf(k, c)
  PROVE  RestInv'
<1> USE DEF RestInv, client, pool, At
<1>1. CASE k \in Calls /\ (Begin(k) \/ Reuse(k) \/ Replace(k) \/ Connected(k) \/ ConnectFails(k) \/ Refuse(k) \/ Send(k))
  BY <1>1 DEF Begin, Reuse, Replace, Connected, ConnectFails, Refuse, Send
<1>2. CASE k \in Calls /\ (Discarded(k) \/ Undone(k))
  BY <1>2 DEF Discarded, Undone, Ended
<1>3. CASE k \in Calls /\ Connect(k)
  BY <1>3 DEF Connect, Start
<1>4. CASE k \in Calls /\ (ReadReply(k) \/ ReadOther(k) \/ ReadGarbage(k))
  <2>1. UNCHANGED <<transport, process>> /\ strays' = strays
    BY <1>4 DEF ReadReply, ReadOther, ReadGarbage, Takes
  <2>2. QED
    BY <2>1
<1>5. CASE k \in Calls /\ (ReadLong(k) \/ ReadEnd(k) \/ Timeout(k))
  BY <1>5 DEF ReadLong, ReadEnd, Timeout
<1>6. CASE k \in Calls /\ Cancel(k)
  <2>1. call[k].pc \in {"connect", "undo"} => call[k].client \in Clients
    BY <1>6 DEF PoolInv, WithClient
  <2>2. QED
    BY <1>6, <2>1 DEF Cancel
<1>7. CASE Close \/ Closed
  BY <1>7 DEF Close, Closed, Ended
<1>8. CASE c \in Clients /\ (Chat(c) \/ Exit(c))
  BY <1>8 DEF Chat, Exit
<1>9. CASE c \in Clients /\ k \in Calls /\ Serve(c, k)
  BY <1>9 DEF Serve
<1>10. QED
  BY <1>1, <1>2, <1>3, <1>4, <1>5, <1>6, <1>7, <1>8, <1>9 DEF StepOf, Step

(* The calls, the connections and the locks keep their types, and each lock *)
(* is with the call that needs it: the pool's with the one that replaces,  *)
(* connects or undoes a connection, a client's with the one that waits for *)
(* its answer.                                                             *)
THEOREM TypeCorrect == Spec => []TypeOK
<1> DEFINE Locks == LockInv /\ BusyInv /\ RestInv
<1>1. Init => Locks
  BY PoolAssumption DEF Init, LockInv, BusyInv, RestInv, Locked
<1>2. ASSUME IInv, Locks, [Next]_vars
      PROVE  Locks'
  <2>1. ASSUME NEW k, NEW c, StepOf(k, c)
        PROVE  Locks'
    BY <1>2, <2>1, LockStep, BusyStep, RestStep DEF IInv
  <2>2. CASE UNCHANGED vars
    BY <1>2, <2>2 DEF vars, pool, client, LockInv, BusyInv, RestInv
  <2>3. Next => \E k, c : StepOf(k, c)
    BY DEF Next, StepOf
  <2>4. QED
    BY <1>2, <2>1, <2>2, <2>3
<1>3. ASSUME IInv, Locks
      PROVE  TypeOK
  <2>1. \A k \in Calls : poolLock = k <=> call[k].pc \in {"discard", "replace", "connect", "undo"}
    BY <1>3 DEF IInv, PoolInv, LockInv, Locked
  <2>2. QED
    BY <1>3, <2>1 DEF IInv, Typed, CallRecords, Pcs, LockInv, BusyInv, RestInv, TypeOK, At
<1> HIDE DEF Locks
<1>4. QED
  BY <1>1, <1>2, <1>3, Invariance, PTL DEF Spec
=============================================================================
