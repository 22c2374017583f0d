------------------------------ MODULE McpPool ------------------------------
(***************************************************************************)
(* The connections to one MCP server: MCPServerPool, which hands out one   *)
(* client at a time, replaces the broken one and closes the idle one, and  *)
(* MCPClient, which talks JSON-RPC to a child process (stdio) or over HTTP *)
(* and matches replies to requests.                                        *)
(*                                                                         *)
(* Everything runs on one event loop: a step ends where the code suspends  *)
(* (the two locks, starting and stopping a process, the handshake, a read).*)
(* A caller can be cancelled at each of them.  The number of a request is  *)
(* the call that it belongs to.                                            *)
(***************************************************************************)
EXTENDS Naturals, Sequences

CONSTANTS
    Calls,      \* callers of the pool, one call each
    Clients,    \* MCPClient objects: bound on connections
    MaxChatter, \* bound on what the server writes besides replies
    None, Failed

ASSUME PoolAssumption ==
    /\ MaxChatter \in Nat
    /\ None \notin Calls \cup Clients /\ Failed \notin Calls \cup {None}

VARIABLES
    transport,  \* "stdio" or "http": the definition's transport
    entry,      \* MCPServerPool._clients[name]
    poolLock,   \* the call that holds MCPServerPool._lock
    state,      \* of a client: unused, open, broken (_broken) or closed (_proc and _http are None)
    process,    \* of a client: none, runs, exited, or gone (and returncode says so)
    busy,       \* of a client: the call that holds MCPClient._lock
    call,       \* where a call is, with which client
    strays,     \* history: clients whose caller was cancelled before they were the pool's
    closing,    \* the client that the reaper or close() closes
    requests,   \* of a client: what the server has not looked at yet
    lines,      \* of a client: what the server wrote and nobody has read
    chatter,    \* how much the server wrote besides replies
    sent, ran,  \* history: the requests written, and how often each was carried out
    outcome     \* of a call: None, Failed, or the call whose reply was returned

pool   == <<transport, entry, poolLock, closing>>
client == <<state, process, busy, strays>>
wire   == <<requests, lines, chatter, ran>>
vars   == <<pool, client, call, wire, sent, outcome>>

Init ==
    /\ transport \in {"stdio", "http"}
    /\ entry = None /\ poolLock = None /\ closing = None
    /\ state = [c \in Clients |-> "unused"] /\ process = [c \in Clients |-> "none"]
    /\ busy = [c \in Clients |-> None] /\ strays = {}
    /\ call = [k \in Calls |-> [pc |-> "idle", client |-> None, asks |-> TRUE]]
    /\ requests = [c \in Clients |-> {}] /\ lines = [c \in Clients |-> <<>>] /\ chatter = 0
    /\ sent = {} /\ ran = [k \in Calls |-> 0] /\ outcome = [k \in Calls |-> None]

At(k, pc) == call[k].pc = pc
Goes(k, pc, c) == call' = [call EXCEPT ![k].pc = pc, ![k].client = c]

Fails(k) ==
    /\ Goes(k, "done", None)
    /\ outcome' = [outcome EXCEPT ![k] = Failed]

\* MCPClient.alive.  An HTTP session has no process to look at.
Alive(c) == state[c] = "open" /\ (transport = "http" \/ process[c] # "gone")

MarkBroken(c) == state' = [state EXCEPT ![c] = IF @ = "open" THEN "broken" ELSE @]

-----------------------------------------------------------------------------
(* MCPServerPool.client and restart                                        *)

\* Both of a caller's checks come before the lock: the definition may be gone or disabled.
Begin(k) ==
    /\ At(k, "idle")
    /\ \/ \E asks \in BOOLEAN : call' = [call EXCEPT ![k].pc = "get", ![k].asks = asks]
          /\ UNCHANGED outcome
       \/ Fails(k)
    /\ UNCHANGED <<pool, client, wire, sent>>

Reuse(k) ==
    /\ At(k, "get") /\ call[k].asks /\ poolLock = None
    /\ entry # None /\ Alive(entry)
    /\ Goes(k, "have", entry)
    /\ UNCHANGED <<pool, client, wire, sent, outcome>>

\* _discard, up to where close() waits for the process to end.
Discard(c) ==
    /\ entry = c
    /\ entry' = None
    /\ state' = [state EXCEPT ![c] = "closed"]

Replace(k) ==
    /\ At(k, "get") /\ poolLock = None
    /\ entry # None /\ (call[k].asks => ~Alive(entry))
    /\ Discard(entry)
    /\ poolLock' = k
    /\ Goes(k, "discard", entry)
    /\ UNCHANGED <<transport, closing, process, busy, wire, sent, outcome, strays>>

\* terminate, wait, kill: the process has ended, and so has the pipe to it.
Ended(c) == process' = [process EXCEPT ![c] = "gone"]

Start(k) ==
    \E c \in Clients :
        /\ state[c] = "unused"
        /\ state' = [state EXCEPT ![c] = "open"]
        /\ process' = [process EXCEPT ![c] = "runs"]
        /\ Goes(k, "connect", c)
        /\ UNCHANGED outcome

\* connect: the process is started, unless its command does not exist or cannot be run.
Connect(k) ==
    /\ \/ At(k, "get") /\ poolLock = None /\ entry = None
       \/ At(k, "replace")
    /\ \/ Start(k) /\ poolLock' = k
       \/ Fails(k) /\ poolLock' = None /\ UNCHANGED <<state, process>>
    /\ UNCHANGED <<transport, entry, closing, busy, wire, sent, strays>>

Discarded(k) ==
    /\ At(k, "discard")
    /\ Ended(call[k].client)
    /\ Goes(k, "replace", None)
    /\ UNCHANGED <<pool, state, busy, wire, sent, outcome, strays>>

\* The handshake is over: the client is the pool's.  A restart has nothing to ask of it.
Connected(k) ==
    /\ At(k, "connect") /\ process[call[k].client] = "runs"
    /\ entry' = call[k].client
    /\ poolLock' = None
    /\ IF call[k].asks THEN Goes(k, "have", call[k].client) ELSE Goes(k, "done", None)
    /\ UNCHANGED <<transport, closing, client, wire, sent, outcome>>

\* Mutant: the client whose handshake failed is dropped.
ConnectFailsDropped(k) ==
    /\ At(k, "connect")
    /\ Fails(k)
    /\ poolLock' = None
    /\ UNCHANGED <<transport, entry, closing, client, wire, sent>>

\* The handshake failed: the client is closed, then the lock released.
ConnectFails(k) ==
    /\ At(k, "connect")
    /\ state' = [state EXCEPT ![call[k].client] = "closed"]
    /\ Goes(k, "undo", call[k].client)
    /\ UNCHANGED <<pool, process, busy, wire, sent, outcome, strays>>

Undone(k) ==
    /\ At(k, "undo")
    /\ Ended(call[k].client)
    /\ Fails(k)
    /\ poolLock' = None
    /\ UNCHANGED <<transport, entry, closing, state, busy, wire, sent, strays>>

-----------------------------------------------------------------------------
(* reap, close and close_all: without the pool's lock                      *)

\* The client is idle for long, its definition is gone, or it is to be closed.
Close ==
    /\ closing = None /\ entry # None
    /\ Discard(entry)
    /\ closing' = entry
    /\ UNCHANGED <<transport, poolLock, process, busy, call, wire, sent, outcome, strays>>

Closed ==
    /\ closing # None
    /\ Ended(closing)
    /\ closing' = None
    /\ UNCHANGED <<transport, entry, poolLock, state, busy, call, wire, sent, outcome, strays>>

-----------------------------------------------------------------------------
(* MCPClient._request                                                      *)

Free(k) == busy' = [busy EXCEPT ![call[k].client] = None]

Refuse(k) ==
    /\ At(k, "have") /\ busy[call[k].client] = None /\ ~Alive(call[k].client)
    /\ Fails(k)
    /\ UNCHANGED <<pool, client, wire, sent>>

Send(k) ==
    /\ At(k, "have") /\ busy[call[k].client] = None /\ Alive(call[k].client)
    /\ busy' = [busy EXCEPT ![call[k].client] = k]
    /\ requests' = [requests EXCEPT ![call[k].client] = @ \cup {k}]
    /\ sent' = sent \cup {k}
    /\ Goes(k, "wait", call[k].client)
    /\ UNCHANGED <<pool, state, process, lines, chatter, ran, outcome, strays>>

Reply(k) == [kind |-> "reply", of |-> k]
Other    == [kind : {"notice", "ask", "garbage", "long"}, of : {None}]

Returns(k, j) ==
    /\ Goes(k, "done", None)
    /\ outcome' = [outcome EXCEPT ![k] = j]
    /\ Free(k)

\* Line l is the next one, or, over HTTP, in the response.
Takes(k, l) ==
    LET c == call[k].client IN
    /\ At(k, "wait")
    /\ \E i \in DOMAIN lines[c] :
         /\ lines[c][i] = l
         /\ transport = "stdio" => i = 1
         /\ lines' = [lines EXCEPT ![c] = SubSeq(@, 1, i - 1) \o SubSeq(@, i + 1, Len(@))]
    /\ UNCHANGED <<pool, process, requests, chatter, ran, sent, strays>>

\* Mutant: the first reply is taken for the answer.
ReadReplyAny(k) ==
    \E j \in Calls : Takes(k, Reply(j)) /\ Returns(k, j) /\ UNCHANGED state

ReadReply(k) == Takes(k, Reply(k)) /\ Returns(k, k) /\ UNCHANGED state

\* A reply to somebody who was cancelled, a notification or a request of the server: read
\* on, unless the client was closed meanwhile.
ReadOther(k) ==
    /\ transport = "stdio"
    /\ \E l \in {Reply(j) : j \in Calls \ {k}} \cup [kind : {"notice", "ask"}, of : {None}] : Takes(k, l)
    /\ UNCHANGED state
    /\ IF state[call[k].client] = "closed" THEN Fails(k) /\ Free(k)
       ELSE UNCHANGED <<call, outcome, busy, strays>>

ReadGarbage(k) ==
    /\ transport = "stdio"
    /\ Takes(k, [kind |-> "garbage", of |-> None])
    /\ MarkBroken(call[k].client)
    /\ Fails(k) /\ Free(k)

\* A line beyond the stream's limit: readline() throws what it has of it away and raises a
\* ValueError, which nothing in the client catches; what comes of the rest is no message.
ReadLong(k) ==
    LET c == call[k].client
        long == [kind |-> "long", of |-> None] IN
    /\ transport = "stdio" /\ At(k, "wait")
    /\ lines[c] # <<>> /\ Head(lines[c]) = long
    /\ \E rest \in {<<>>, <<[long EXCEPT !.kind = "garbage"]>>} :
         lines' = [lines EXCEPT ![c] = rest \o Tail(@)]
    /\ Fails(k) /\ Free(k)
    /\ UNCHANGED <<pool, state, process, requests, chatter, ran, sent, strays>>

\* The end of the stream.
ReadEnd(k) ==
    LET c == call[k].client IN
    /\ transport = "stdio" /\ At(k, "wait")
    /\ process[c] \in {"exited", "gone"} /\ lines[c] = <<>>
    /\ MarkBroken(c)
    /\ Fails(k) /\ Free(k)
    /\ UNCHANGED <<pool, process, wire, sent, strays>>

\* Mutant: only a server that has written nothing is waited for in vain.
TimeoutSilent(k) ==
    /\ At(k, "wait") /\ chatter = 0
    /\ MarkBroken(call[k].client)
    /\ Fails(k) /\ Free(k)
    /\ UNCHANGED <<pool, process, wire, sent, strays>>

\* No line in time.  Over HTTP: no response in time, or one that is not the reply.
Timeout(k) ==
    /\ At(k, "wait")
    /\ MarkBroken(call[k].client)
    /\ Fails(k) /\ Free(k)
    /\ UNCHANGED <<pool, process, wire, sent, strays>>

\* The caller is cancelled: the locks are released, nothing else is undone.  A process that
\* was being started, or was told to end, is left to itself.
Cancel(k) ==
    /\ call[k].pc \notin {"idle", "done"}
    /\ Fails(k)
    /\ poolLock' = IF poolLock = k THEN None ELSE poolLock
    /\ busy' = [c \in Clients |-> IF busy[c] = k THEN None ELSE busy[c]]
    /\ strays' = IF call[k].pc \in {"connect", "undo"} THEN strays \cup {call[k].client} ELSE strays
    /\ UNCHANGED <<transport, entry, closing, state, process, wire, sent>>

-----------------------------------------------------------------------------
(* The server                                                              *)

\* A request is carried out, in any order; the reply may be too long for a line.
Serve(c, k) ==
    /\ process[c] = "runs" \/ transport = "http"
    /\ k \in requests[c]
    /\ requests' = [requests EXCEPT ![c] = @ \ {k}]
    /\ ran' = [ran EXCEPT ![k] = @ + 1]
    /\ \E l \in {Reply(k), [kind |-> "long", of |-> None]} : lines' = [lines EXCEPT ![c] = Append(@, l)]
    /\ UNCHANGED <<pool, client, call, chatter, sent, outcome>>

Chat(c) ==
    /\ process[c] = "runs" /\ chatter < MaxChatter
    /\ chatter' = chatter + 1
    /\ \E l \in Other : lines' = [lines EXCEPT ![c] = Append(@, l)]
    /\ UNCHANGED <<pool, client, call, requests, ran, sent, outcome>>

Exit(c) ==
    /\ \/ process[c] = "runs" /\ process' = [process EXCEPT ![c] = "exited"]
       \/ process[c] = "exited" /\ process' = [process EXCEPT ![c] = "gone"]
    /\ UNCHANGED <<pool, state, busy, call, wire, sent, outcome, strays>>

-----------------------------------------------------------------------------
Step(k) ==
    \/ Reuse(k) \/ Replace(k) \/ Discarded(k) \/ Connect(k) \/ Connected(k) \/ ConnectFails(k)
    \/ Undone(k) \/ Refuse(k) \/ Send(k)
    \/ ReadReply(k) \/ ReadOther(k) \/ ReadGarbage(k) \/ ReadLong(k) \/ ReadEnd(k) \/ Timeout(k)

Next ==
    \/ \E k \in Calls : Begin(k) \/ Step(k) \/ Cancel(k)
    \/ Close \/ Closed
    \/ \E c \in Clients : Chat(c) \/ Exit(c) \/ \E k \in Calls : Serve(c, k)

\* The loop runs what is ready; a wait for the server ends with its timeout.
Spec == Init /\ [][Next]_vars /\ \A k \in Calls : WF_vars(Step(k))

-----------------------------------------------------------------------------
(* Types, and who holds which lock.                                        *)
TypeOK ==
    /\ transport \in {"stdio", "http"}
    /\ {entry, closing} \subseteq Clients \cup {None} /\ poolLock \in Calls \cup {None}
    /\ state \in [Clients -> {"unused", "open", "broken", "closed"}]
    /\ process \in [Clients -> {"none", "runs", "exited", "gone"}]
    /\ busy \in [Clients -> Calls \cup {None}]
    /\ call \in [Calls -> [pc : {"idle", "get", "discard", "replace", "connect", "undo",
                                 "have", "wait", "done"}, client : Clients \cup {None}, asks : BOOLEAN]]
    /\ strays \subseteq Clients
    /\ \A k \in Calls : poolLock = k <=> call[k].pc \in {"discard", "replace", "connect", "undo"}
    /\ \A k \in Calls, c \in Clients : busy[c] = k <=> At(k, "wait") /\ call[k].client = c

(* A server runs for the client in the pool, for a call that is at its      *)
(* handshake, or not for long: its client is being closed.  Whoever fails, *)
(* and whatever the reaper closes meanwhile, no server stays behind that   *)
(* neither the reaper nor a restart finds; except for one whose caller was *)
(* cancelled while it was being started.                                   *)
ServersOwned ==
    \A c \in Clients :
        state[c] \in {"open", "broken"} =>
            entry = c \/ c \in strays \/ \E k \in Calls : At(k, "connect") /\ call[k].client = c

(* Every call ends, with locks that are held across waits and a server that *)
(* is free to answer nothing or something else, as long as it does not     *)
(* write for ever.                                                         *)
CallsEnd == \A k \in Calls : At(k, "get") ~> At(k, "done")

(* However calls are cancelled, time out and are answered late, and        *)
(* whichever client they get, a call gets its own answer or fails, and the *)
(* server carries it out once at most.                                     *)
Promise == INSTANCE RemoteCalls WITH Calls <- Calls, None <- None, Failed <- Failed,
                                     sent <- sent, ran <- ran, outcome <- outcome
RepliesMatched == Promise!Spec

(* A protocol failure marks the client broken: a line that makes a call    *)
(* fail leaves no client that another call could be given.                 *)
ProtocolFailureBreaks ==
    [][\A k \in Calls, c \in Clients :
         /\ busy[c] = k /\ lines[c] # lines'[c] /\ outcome'[k] = Failed
         => state'[c] # "open"]_vars
=============================================================================
