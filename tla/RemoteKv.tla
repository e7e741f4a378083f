------------------------------ MODULE RemoteKv ------------------------------
(***************************************************************************)
(* A read transaction over gRPC: RemoteTransaction and RemoteCursor on one *)
(* side, the task that KvServer::tx spawns on the other.                   *)
(*                                                                         *)
(* Several tasks share a RemoteTransaction.  An operation locks io, sends  *)
(* a request, awaits the reply and unlocks; a cursor that is dropped is    *)
(* closed the same way by a task of its own.  Replies carry nothing that   *)
(* tells which request they answer: the lock is what keeps them in step.   *)
(* A caller may drop an operation at any await, the connection may break,  *)
(* and the database may fail: an error status ends the responses, but not  *)
(* the requests, which the server goes on taking and executing.            *)
(*                                                                         *)
(* Data.  What a cursor yields is a function of the snapshot and of the    *)
(* operations it has executed, so an answer is the cursor's id and these   *)
(* operations, each the name of the task that asked for it; the twelve     *)
(* operations of a cursor (first, seek, next, ...) are one.                *)
(***************************************************************************)
EXTENDS Integers, Sequences, FiniteSets

CONSTANTS
  Tasks,     \* tasks that use the transaction
  Buffer,    \* what each direction holds: a channel(1) and the transport
  MaxOps,    \* bound: operations started
  None

ASSUME BufferAssumption == Buffer \in Nat \ {0} /\ MaxOps \in Nat
ASSUME NoneAssumption == None \notin Nat

\* An operation of a task, or the closing of the cursor it has dropped.
Procs == {"use", "close"} \X Tasks
Nobody == <<"nobody", None>>
ErrorStatus == [status |-> "error"]

VARIABLES
  client,   \* RemoteTransaction: "opening", "open", "dropped", "failed"
  lock,     \* who holds io
  pc,       \* process -> "idle", "lock", "send" or "reply"
  handle,   \* task -> id of its RemoteCursor, or None
  request,  \* process -> what it asks for
  up,       \* requests on their way
  down,     \* replies on their way
  server,   \* the spawned task: "begin", "loop", "reply" or "ended"
  reply,    \* what it is sending, or None
  cursors,  \* its cursors: sequence of operations, or None when closed
  broken,   \* the connection is lost
  failed,   \* an error status has ended the response stream
  got,      \* history: task -> last answer of its cursor, or None
  asked,    \* history: task -> requests sent for its cursor
  started,  \* operations started so far
  dropped   \* history: operations dropped between request and reply

vars == <<client, lock, pc, handle, request, up, down, server, reply, cursors,
          broken, failed, got, asked, started, dropped>>
history == <<got, asked, started, dropped>>
serverVars == <<server, reply, cursors>>
ends == <<broken, failed>>

\* No reply follows those on their way: message() fails when they are read.
Lost == broken \/ failed

-----------------------------------------------------------------------------
(* Client *)

\* RemoteTransaction::open: the first message of the response is the tx id.
Open ==
  /\ client = "opening"
  /\ IF down # <<>> THEN client' = "open" /\ down' = Tail(down)
     ELSE broken /\ client' = "failed" /\ UNCHANGED down
  /\ UNCHANGED <<lock, pc, handle, request, up, serverVars, ends, history>>

\* cursor() for a task without one, else an operation of its cursor.
Start(t) ==
  /\ client = "open"
  /\ started < MaxOps
  /\ pc[<<"use", t>>] = "idle"
  /\ started' = started + 1
  /\ pc' = [pc EXCEPT ![<<"use", t>>] = "lock"]
  /\ request' = [request EXCEPT ![<<"use", t>>] =
                   IF handle[t] = None THEN [op |-> "Open", by |-> t]
                   ELSE [op |-> "Move", cursor |-> handle[t], by |-> t]]
  /\ UNCHANGED <<client, lock, handle, up, down, serverVars, ends, got, asked, dropped>>

\* Mutant: no lock.
LockNot(p) ==
  /\ pc[p] = "lock"
  /\ pc' = [pc EXCEPT ![p] = "send"]
  /\ UNCHANGED <<client, lock, handle, request, up, down, serverVars, ends, history>>

\* io.lock()
Lock(p) ==
  /\ pc[p] = "lock"
  /\ lock = Nobody
  /\ lock' = p
  /\ pc' = [pc EXCEPT ![p] = "send"]
  /\ UNCHANGED <<client, handle, request, up, down, serverVars, ends, history>>

Unlock(p) ==
  /\ lock' = IF lock = p THEN Nobody ELSE lock
  /\ pc' = [pc EXCEPT ![p] = "idle"]

\* The request goes into the channel when there is room.  Of a lost connection
\* the channel may know, then sending fails; or not yet, then the request is
\* lost.  The closing task awaits the reply in either case.
Send(p) ==
  /\ pc[p] = "send"
  /\ \/ /\ broken /\ p[1] = "use"
        /\ Unlock(p)
        /\ UNCHANGED <<up, asked>>
     \/ /\ broken \/ Len(up) < Buffer
        /\ up' = IF broken THEN up ELSE Append(up, request[p])
        /\ pc' = [pc EXCEPT ![p] = "reply"]
        /\ asked' = IF request[p].op = "Move"
                    THEN [asked EXCEPT ![p[2]] = @ + 1] ELSE asked
        /\ UNCHANGED lock
  /\ UNCHANGED <<client, handle, request, down, serverVars, ends, got, started, dropped>>

\* message(): the next reply, whatever it answers, or the end of the stream.
Receive(p) ==
  /\ pc[p] = "reply"
  /\ \/ /\ down # <<>>
        /\ LET answer == Head(down)
               t == p[2]
           IN /\ down' = Tail(down)
              /\ handle' = IF p[1] = "use" /\ request[p].op = "Open"
                           THEN [handle EXCEPT ![t] = answer.cursor] ELSE handle
              /\ got' = IF p[1] = "use" /\ request[p].op = "Move"
                        THEN [got EXCEPT ![t] = answer] ELSE got
     \/ /\ down = <<>> /\ Lost
        /\ UNCHANGED <<down, handle, got>>
  /\ Unlock(p)
  /\ UNCHANGED <<client, request, up, serverVars, ends, asked, started, dropped>>

\* The caller drops the future: the guard of io is released where it stands.
Cancel(t) ==
  LET p == <<"use", t>>
  IN /\ pc[p] # "idle"
     /\ Unlock(p)
     /\ dropped' = IF pc[p] = "reply" THEN dropped + 1 ELSE dropped
     /\ UNCHANGED <<client, handle, request, up, down, serverVars, ends,
                    got, asked, started>>

\* The drop handle of a RemoteCursor wakes the task that closes it.
DropCursor(t) ==
  /\ handle[t] # None
  /\ pc[<<"use", t>>] = "idle" /\ pc[<<"close", t>>] = "idle"
  /\ handle' = [handle EXCEPT ![t] = None]
  /\ got' = [got EXCEPT ![t] = None]
  /\ asked' = [asked EXCEPT ![t] = 0]
  /\ pc' = [pc EXCEPT ![<<"close", t>>] = "lock"]
  /\ request' = [request EXCEPT ![<<"close", t>>] =
                   [op |-> "Close", cursor |-> handle[t], by |-> t]]
  /\ UNCHANGED <<client, lock, up, down, serverVars, ends, started, dropped>>

\* The transaction outlives its cursors, but not the tasks that close them.
DropTransaction ==
  /\ client = "open"
  /\ \A t \in Tasks : handle[t] = None /\ pc[<<"use", t>>] = "idle"
  /\ client' = "dropped"
  /\ UNCHANGED <<lock, pc, handle, request, up, down, serverVars, ends, history>>

\* The last owner of io is gone, and with it both ends of the channels.
Abandoned == client = "dropped" /\ \A t \in Tasks : pc[<<"close", t>>] = "idle"

\* Mutant: a sender that is kept leaves the stream open.
RequestsEndedLost == broken

RequestsEnded == broken \/ Abandoned

-----------------------------------------------------------------------------
(* Server *)

\* env.begin() and the first message, with the id of the transaction.
Begin ==
  /\ server = "begin"
  /\ server' = "loop"
  /\ down' = IF broken THEN down ELSE Append(down, [tx |-> 1])
  /\ UNCHANGED <<client, lock, pc, handle, request, up, reply, cursors, ends, history>>

\* Mutant: ids are given again.
NewCursorAgain == Cardinality({i \in DOMAIN cursors : cursors[i] # None}) + 1

\* A cursor is pushed at the end of the vector; ids are never given again.
NewCursor == Len(cursors) + 1

IsOpen(id) == id \in DOMAIN cursors /\ cursors[id] # None

\* The error status is sent in the place of a reply.
FailReply ==
  /\ reply' = ErrorStatus
  /\ server' = "reply"
  /\ UNCHANGED cursors

Reply(answer, changed) ==
  /\ reply' = answer
  /\ server' = "reply"
  /\ cursors' = changed

\* One request; Close answers also when there is nothing to close.
Serve ==
  /\ server = "loop"
  /\ up # <<>>
  /\ up' = Tail(up)
  /\ LET r == Head(up)
     IN \/ /\ r.op = "Open"
           /\ Reply([cursor |-> NewCursor, moves |-> <<>>],
                    [i \in DOMAIN cursors \cup {NewCursor} |->
                       IF i = NewCursor THEN <<>> ELSE cursors[i]])
        \/ /\ r.op = "Move" /\ IsOpen(r.cursor)
           /\ LET moves == Append(cursors[r.cursor], r.by)
              IN Reply([cursor |-> r.cursor, moves |-> moves],
                       [cursors EXCEPT ![r.cursor] = moves])
        \/ /\ r.op = "Close"
           /\ Reply([cursor |-> r.cursor, moves |-> <<>>],
                    [i \in DOMAIN cursors |-> IF i = r.cursor THEN None ELSE cursors[i]])
        \/ r.op # "Close" /\ FailReply     \* the database, or an invalid cursor
  /\ UNCHANGED <<client, lock, pc, handle, request, down, ends, history>>

\* Nobody can read what the server still sends.
Unread == Lost \/ Abandoned

\* tx.send: into the channel when there is room; nobody to read is no error.
\* The status is the last thing that is sent.
SendReply ==
  /\ server = "reply"
  /\ server' = "loop"
  /\ reply' = None
  /\ Unread \/ Len(down) < Buffer
  /\ down' = IF Unread \/ reply = ErrorStatus THEN down ELSE Append(down, reply)
  /\ failed' = (failed \/ reply = ErrorStatus)
  /\ UNCHANGED <<client, lock, pc, handle, request, up, cursors, broken, history>>

\* try_next() yields None, or an error on which the task panics, whether or not
\* requests are left; either way the database transaction is dropped.
EndServer ==
  /\ server = "loop"
  /\ RequestsEnded
  /\ server' = "ended"
  /\ UNCHANGED <<client, lock, pc, handle, request, up, down, reply, cursors,
                 ends, history>>

\* The connection is lost (external).
Break ==
  /\ ~broken
  /\ broken' = TRUE
  /\ UNCHANGED <<client, lock, pc, handle, request, up, down, serverVars, failed,
                 history>>

-----------------------------------------------------------------------------

Init ==
  /\ client = "opening"
  /\ lock = Nobody
  /\ pc = [p \in Procs |-> "idle"]
  /\ handle = [t \in Tasks |-> None]
  /\ request = [p \in Procs |-> None]
  /\ up = <<>> /\ down = <<>>
  /\ server = "begin"
  /\ reply = None
  /\ cursors = <<>>
  /\ broken = FALSE
  /\ failed = FALSE
  /\ got = [t \in Tasks |-> None]
  /\ asked = [t \in Tasks |-> 0]
  /\ started = 0
  /\ dropped = 0

Next ==
  \/ Open \/ DropTransaction \/ Break
  \/ \E t \in Tasks : Start(t) \/ Cancel(t) \/ DropCursor(t)
  \/ \E p \in Procs : Lock(p) \/ Send(p) \/ Receive(p)
  \/ Begin \/ Serve \/ SendReply \/ EndServer

Spec == Init /\ [][Next]_vars

\* The tasks and the server keep running, and the mutex of tokio is handed out
\* in the order in which it was asked for.
FairSpec ==
  /\ Spec
  /\ WF_vars(Begin) /\ WF_vars(Serve) /\ WF_vars(SendReply) /\ WF_vars(EndServer)
  /\ \A p \in Procs : SF_vars(Lock(p)) /\ WF_vars(Send(p)) /\ WF_vars(Receive(p))

-----------------------------------------------------------------------------
(* Properties *)

\* remote.rs: "Invariant: cannot send new message until we process response
\* to it".  As long as replies come, whatever tasks and closing cursors compete
\* for the transaction, what is unanswered are the request that is awaited, of
\* which there is one at most, and those whose operation was dropped half-way.
OneInFlight ==
  (client # "opening" /\ ~Unread) =>
    Len(up) + Len(down) + (IF server = "reply" THEN 1 ELSE 0) =
      dropped + (IF \E p \in Procs : pc[p] = "reply" THEN 1 ELSE 0)

\* Every cursor that is open at the server is held by a task or about to be
\* closed or handed over: none stays behind while the transaction lives.
CursorsOwned ==
  (dropped = 0 /\ ~Lost) => \A i \in DOMAIN cursors :
    cursors[i] # None =>
      \/ \E t \in Tasks : handle[t] = i
      \/ \E t \in Tasks : pc[<<"close", t>>] # "idle" /\ request[<<"close", t>>].cursor = i
      \/ \E t \in Tasks : pc[<<"use", t>>] = "reply" /\ request[<<"use", t>>].op = "Open"

\* A task has a cursor of its own, and gets the answers of that cursor, to as
\* many operations as it has asked for and to nobody else's; and no cursor
\* stays behind at the server.
OwnAnswers ==
  /\ CursorsOwned
  /\ dropped = 0 => \A t \in Tasks :
       /\ \A u \in Tasks \ {t} : handle[t] = None \/ handle[u] # handle[t]
       /\ (got[t] # None /\ pc[<<"use", t>>] = "idle" /\ ~Lost) =>
            got[t] = [cursor |-> handle[t], moves |-> [i \in 1 .. asked[t] |-> t]]

\* The replies that nobody reads fill both directions and the server: the next
\* request finds no room, and the server none for its reply.
Clogged == dropped > 2 * Buffer

\* Every operation ends, with an answer or an error, also after an error status:
\* client and server wait for each other only when too many operations were
\* dropped half-way.  And the read transaction of the database is not kept for
\* ever: it ends after the client has dropped its side - an error status alone
\* does not end it - or the connection is lost.
OperationsEnd ==
  /\ broken ~> server = "ended"
  /\ client = "dropped" ~> (server = "ended" \/ Clogged)
  /\ \A p \in Procs : (pc[p] # "idle") ~> (pc[p] = "idle" \/ Clogged)
=============================================================================
