--------------------------- MODULE RemoteKvProofs ---------------------------
(***************************************************************************)
(* Requests and replies of a remote transaction stay in step, and a task   *)
(* gets the answers of its own cursor, for any number of tasks, operations *)
(* and places in the channels.                                             *)
(***************************************************************************)
EXTENDS RemoteKv, TLAPS

IsSeq(s) == \E S : s \in Seq(S)

Waiting == \E p \in Procs : pc[p] = "reply"
InFlight == Len(up) + Len(down) + (IF server = "reply" THEN 1 ELSE 0)

Awaiting == IF Waiting THEN 1 ELSE 0

Shape ==
  /\ dropped \in Nat
  /\ pc \in [Procs -> {"idle", "lock", "send", "reply"}]
  /\ handle \in [Tasks -> {handle[t] : t \in Tasks}]
  /\ IsSeq(up) /\ IsSeq(down)

\* Whoever sends or waits for a reply holds the lock.
LockHeld == \A p \in Procs : pc[p] \in {"send", "reply"} => lock = p

\* Until the id of the transaction has arrived nothing else is on its way.
Opening ==
  client = "opening" =>
    /\ \A p \in Procs : pc[p] = "idle"
    /\ \A t \in Tasks : handle[t] = None
    /\ up = <<>> /\ server # "reply" /\ Len(down) <= 1 /\ dropped = 0
    /\ server = "begin" => down = <<>>

\* The server has sent the id when the transaction is used.
Begun == client # "opening" /\ server = "begin" => broken

\* Nobody uses a transaction that is dropped.
Gone ==
  client = "dropped" => \A t \in Tasks : handle[t] = None /\ pc[<<"use", t>>] = "idle"

\* As long as replies come, what is on its way is awaited or belongs to an
\* operation that was dropped; of what was on its way when the client
\* abandoned the transaction some may be gone.
Awaited ==
  client # "opening" /\ ~Lost =>
    /\ InFlight <= dropped + Awaiting
    /\ Abandoned \/ InFlight = dropped + Awaiting

IInv == Shape /\ LockHeld /\ Opening /\ Begun /\ Gone /\ Awaited

-----------------------------------------------------------------------------
(* Sequences whose elements do not matter *)

\* Putting a message into a channel makes it longer by one.
LEMMA AppendLen ==
  ASSUME NEW s, NEW e, IsSeq(s)
  PROVE  IsSeq(Append(s, e)) /\ Len(Append(s, e)) = Len(s) + 1
<1>1. PICK S : s \in Seq(S)
  BY DEF IsSeq
<1>2. s \in Seq(S \cup {e})
  BY <1>1
<1>3. Append(s, e) \in Seq(S \cup {e}) /\ Len(Append(s, e)) = Len(s) + 1
  BY <1>2
<1> QED BY <1>3 DEF IsSeq

\* Taking one out makes it shorter by one.
LEMMA TailLen ==
  ASSUME NEW s, IsSeq(s), s # <<>>
  PROVE  IsSeq(Tail(s)) /\ Len(Tail(s)) = Len(s) - 1 /\ Len(s) >= 1
<1>1. PICK S : s \in Seq(S)
  BY DEF IsSeq
<1>2. Tail(s) \in Seq(S) /\ Len(Tail(s)) = Len(s) - 1 /\ Len(s) >= 1
  BY <1>1
<1> QED BY <1>2 DEF IsSeq

\* The length of a channel is a number, zero when it is empty.
LEMMA LenNat ==
  ASSUME NEW s, IsSeq(s)
  PROVE  Len(s) \in Nat /\ (s = <<>> => Len(s) = 0)
BY DEF IsSeq

\* An empty channel is one.
LEMMA EmptySeq == IsSeq(<<>>) /\ Len(<<>>) = 0
<1>1. <<>> \in Seq({})
  OBVIOUS
<1> QED BY <1>1 DEF IsSeq

-----------------------------------------------------------------------------
(* The inductive invariant *)

\* It holds before the transaction is opened.
LEMMA InitInv == Init => IInv
BY EmptySeq DEF Init, IInv, Shape, LockHeld, Opening, Begun, Gone, Awaited, InFlight

\* A transaction that is dropped or abandoned stays so.
LEMMA GoneStep ==
  ASSUME IInv, [Next]_vars
  PROVE  Gone' /\ (Abandoned => Abandoned')
<1> USE DEF history, serverVars
<1>procs. \A t \in Tasks : /\ <<"use", t>> \in Procs /\ <<"close", t>> \in Procs
                          /\ \A u \in Tasks : <<"use", t>> # <<"close", u>>
  BY DEF Procs
<1>1. CASE client' # "dropped"
  <2>1. client # "dropped"
    BY <1>1 DEF Next, vars, Open, DropTransaction, Break, Start, Cancel, DropCursor, Lock,
                Send, Receive, Begin, Serve, SendReply, EndServer
  <2> QED BY <1>1, <2>1 DEF Gone, Abandoned
<1>2. CASE client # "dropped" /\ client' = "dropped"
  <2>1. DropTransaction
    BY <1>2 DEF Next, vars, Open, Break, Start, Cancel, DropCursor, Lock,
                Send, Receive, Begin, Serve, SendReply, EndServer
  <2> QED BY <1>2, <2>1 DEF DropTransaction, Gone, Abandoned
<1>3. CASE client = "dropped" /\ client' = "dropped"
  <2>1. \A t \in Tasks : handle[t] = None /\ pc[<<"use", t>>] = "idle"
    BY <1>3 DEF IInv, Gone
  <2>2. CASE UNCHANGED <<handle, pc, client>>
    BY <2>1, <2>2 DEF Gone, Abandoned
  <2>3. ASSUME NEW t \in Tasks, Start(t) \/ Cancel(t) \/ DropCursor(t) PROVE FALSE
    BY <1>3, <2>1, <2>3 DEF Start, Cancel, DropCursor
  <2>4. ASSUME NEW p \in Procs, Lock(p) \/ Send(p) \/ Receive(p)
        PROVE  Gone' /\ (Abandoned => Abandoned')
    <3>1. PICK u \in Tasks : p = <<"close", u>>
      BY <2>1, <2>4 DEF Procs, Lock, Send, Receive
    <3>2. pc[p] # "idle"
      BY <2>4 DEF Lock, Send, Receive
    <3>3. handle' = handle
      BY <2>4, <3>1 DEF Lock, Send, Receive
    <3>4. \E state : pc' = [pc EXCEPT ![p] = state]
      BY <2>4 DEF Lock, Send, Receive, Unlock
    <3>5. \A t \in Tasks : pc'[<<"use", t>>] = pc[<<"use", t>>]
      BY <1>procs, <3>1, <3>4 DEF IInv, Shape
    <3> QED BY <1>3, <2>1, <3>1, <3>2, <3>3, <3>5 DEF Gone, Abandoned
  <2>5. CASE Open \/ DropTransaction
    BY <1>3, <2>5 DEF Open, DropTransaction
  <2>6. CASE Break \/ Begin \/ Serve \/ SendReply \/ EndServer \/ UNCHANGED vars
    BY <2>2, <2>6 DEF Break, Begin, Serve, SendReply, EndServer, vars
  <2> QED BY <2>3, <2>4, <2>5, <2>6 DEF Next
<1> QED BY <1>1, <1>2, <1>3

\* An operation that enters or leaves a place where it holds no request on
\* its way, with channels and server unchanged.
LEMMA QuietStep ==
  ASSUME IInv, Gone', Abandoned => Abandoned',
         NEW p \in Procs, NEW state \in {"idle", "lock", "send", "reply"},
         pc' = [pc EXCEPT ![p] = state],
         UNCHANGED <<up, down, server, broken, failed, dropped>>,
         client' = client, client # "opening",
         handle' \in [Tasks -> {handle'[t] : t \in Tasks}],
         pc[p] = "reply" \/ state = "reply" => Lost,
         state \in {"send", "reply"} => lock' = p,
         \A q \in Procs \ {p} : pc[q] \in {"send", "reply"} => lock' = q
  PROVE  IInv'
<1>1. Shape'
  BY DEF IInv, Shape
<1>2. LockHeld'
  BY DEF IInv, Shape, LockHeld
<1>3. Opening' /\ Begun'
  BY DEF IInv, Opening, Begun
<1>4. Awaited'
  <2>1. InFlight' = InFlight /\ (Lost' <=> Lost)
    BY DEF InFlight, Lost
  <2>2. ~Lost => (Waiting <=> Waiting')
    BY DEF IInv, Shape, Waiting
  <2>3. ~Lost => Awaiting' = Awaiting
    BY <2>2 DEF Awaiting
  <2> QED BY <2>1, <2>3 DEF IInv, Awaited
<1> QED BY <1>1, <1>2, <1>3, <1>4 DEF IInv

\* A step of the server or of the connection: the operations stay where they
\* are.
LEMMA ServerStep ==
  ASSUME IInv, Gone', Abandoned => Abandoned',
         UNCHANGED <<client, pc, lock, handle, dropped>>,
         IsSeq(up'), IsSeq(down'),
         broken => broken', Lost => Lost',
         client = "opening" =>
           /\ up' = <<>> /\ server' # "reply" /\ Len(down') <= 1
           /\ server' = "begin" => down' = <<>>,
         server' = "begin" => server = "begin",
         client # "opening" =>
           \/ InFlight' = InFlight \/ Lost'
           \/ InFlight' \in Nat /\ InFlight' <= InFlight /\ Abandoned
  PROVE  IInv'
<1>1. Shape' /\ LockHeld' /\ Opening'
  BY DEF IInv, Shape, LockHeld, Opening
<1>2. Begun'
  BY DEF IInv, Begun
<1>3. InFlight \in Nat /\ Awaiting' = Awaiting /\ Awaiting \in Nat /\ dropped \in Nat
  BY LenNat DEF IInv, Shape, InFlight, Awaiting, Waiting
<1>4. Awaited'
  BY <1>3 DEF IInv, Awaited
<1> QED BY <1>1, <1>2, <1>4 DEF IInv

\* Every step keeps it.
LEMMA StepInv == IInv /\ [Next]_vars => IInv'
<1> SUFFICES ASSUME IInv, [Next]_vars PROVE IInv'
  OBVIOUS
<1> USE DEF history, serverVars, ends
<1>gone. Gone' /\ (Abandoned => Abandoned')
  BY GoneStep
<1>len. Len(up) \in Nat /\ Len(down) \in Nat /\ dropped \in Nat
  BY LenNat DEF IInv, Shape
<1>use. \A t \in Tasks : <<"use", t>> \in Procs /\ <<"close", t>> \in Procs
  BY DEF Procs
<1>used. \A p \in Procs : pc[p] # "idle" => client # "opening"
  BY DEF IInv, Opening
<1>1. CASE Open
  <2>0. Awaiting' = 0 /\ dropped' = dropped
    BY <1>1 DEF Open, IInv, Opening, Awaiting, Waiting
  <2>1. CASE down # <<>>
    <3>1. IsSeq(down') /\ Len(down') = 0 /\ client' = "open"
      BY <1>1, <2>1, <1>len, TailLen DEF Open, IInv, Shape, Opening
    <3>2. InFlight' = 0
      BY <1>1, <3>1, EmptySeq DEF Open, IInv, Opening, InFlight
    <3>3. Shape' /\ LockHeld' /\ Opening'
      BY <1>1, <3>1 DEF Open, IInv, Shape, LockHeld, Opening
    <3>4. Begun'
      BY <1>1, <2>1 DEF Open, IInv, Opening, Begun
    <3>5. dropped = 0
      BY <1>1 DEF Open, IInv, Opening
    <3> QED BY <1>gone, <2>0, <3>2, <3>3, <3>4, <3>5 DEF IInv, Awaited
  <2>2. CASE down = <<>>
    <3>1. Lost'
      BY <1>1, <2>2 DEF Open, Lost
    <3>2. Shape' /\ LockHeld' /\ Opening' /\ Begun'
      BY <1>1, <2>2 DEF Open, IInv, Shape, LockHeld, Opening, Begun
    <3> QED BY <1>gone, <3>1, <3>2 DEF IInv, Awaited
  <2> QED BY <2>1, <2>2
<1>2. CASE DropTransaction
  <2>1. Shape' /\ LockHeld' /\ Opening' /\ Begun'
    BY <1>2 DEF DropTransaction, IInv, Shape, LockHeld, Opening, Begun
  <2>2. /\ InFlight' = InFlight /\ Awaiting' = Awaiting /\ dropped' = dropped
        /\ client # "opening" /\ (Lost' <=> Lost)
    BY <1>2 DEF DropTransaction, Awaiting, Waiting, InFlight, Lost
  <2>3. Awaited'
    BY <1>gone, <2>2 DEF IInv, Awaited
  <2> QED BY <1>gone, <2>1, <2>3 DEF IInv
<1>3. CASE Break
  <2>1. InFlight' = InFlight /\ Lost'
    BY <1>3 DEF Break, InFlight, Lost
  <2> QED BY <1>3, <1>gone, <2>1, ServerStep DEF Break, IInv, Shape, Opening
<1>4. ASSUME NEW t \in Tasks, Start(t) PROVE IInv'
  BY <1>4, <1>gone, <1>use, QuietStep DEF Start, IInv, Shape, LockHeld
<1>5. ASSUME NEW t \in Tasks, Cancel(t) PROVE IInv'
  <2> DEFINE p == <<"use", t>>
  <2>1. p \in Procs /\ client # "opening" /\ client' = client
    BY <1>5, <1>use, <1>used DEF Cancel
  <2>2. Shape' /\ LockHeld' /\ Opening' /\ Begun'
    BY <1>5, <1>len, <2>1 DEF Cancel, Unlock, IInv, Shape, LockHeld, Opening, Begun
  <2>3. InFlight' = InFlight /\ (Lost' <=> Lost)
    BY <1>5 DEF Cancel, InFlight, Lost
  <2>4. dropped' + Awaiting' = dropped + Awaiting
    <3>1. CASE pc[p] # "reply"
      <4>1. Waiting <=> Waiting'
        BY <1>5, <2>1, <3>1 DEF Cancel, Unlock, IInv, Shape, Waiting
      <4>2. dropped' = dropped
        BY <1>5, <3>1 DEF Cancel
      <4> QED BY <4>1, <4>2 DEF Awaiting
    <3>2. CASE pc[p] = "reply"
      <4>1. Waiting /\ ~Waiting'
        BY <1>5, <2>1, <3>2 DEF Cancel, Unlock, IInv, Shape, LockHeld, Waiting
      <4>2. dropped' = dropped + 1
        BY <1>5, <3>2 DEF Cancel
      <4> QED BY <1>len, <4>1, <4>2 DEF Awaiting
    <3> QED BY <3>1, <3>2
  <2>5. Awaited'
    BY <1>gone, <2>1, <2>3, <2>4 DEF IInv, Awaited
  <2> QED BY <1>gone, <2>2, <2>5 DEF IInv
<1>6. ASSUME NEW t \in Tasks, DropCursor(t) PROVE IInv'
  <2>1. client # "opening"
    BY <1>6 DEF DropCursor, IInv, Opening
  <2>2. handle' \in [Tasks -> {handle'[u] : u \in Tasks}]
    BY <1>6 DEF DropCursor, IInv, Shape
  <2> QED
    BY <1>6, <1>gone, <1>use, <2>1, <2>2, QuietStep DEF DropCursor, IInv, LockHeld
<1>7. ASSUME NEW p \in Procs, Lock(p) PROVE IInv'
  <2>1. \A q \in Procs \ {p} : pc[q] \in {"send", "reply"} => lock' = q
    BY <1>7 DEF Lock, IInv, LockHeld, Nobody, Procs
  <2> QED BY <1>7, <1>gone, <1>used, <2>1, QuietStep DEF Lock, IInv, Shape
<1>8. ASSUME NEW p \in Procs, Send(p) PROVE IInv'
  <2>1. client # "opening" /\ lock = p
    BY <1>8, <1>used DEF Send, IInv, LockHeld
  <2>2. CASE up' = up /\ broken
    <3>1. Lost
      BY <2>2 DEF Lost
    <3>2. (Unlock(p) \/ (pc' = [pc EXCEPT ![p] = "reply"] /\ UNCHANGED lock)) /\ pc[p] = "send"
      BY <1>8 DEF Send
    <3>3. UNCHANGED <<up, down, server, broken, failed, dropped, client, handle>>
      BY <1>8, <2>2 DEF Send
    <3>4. CASE Unlock(p)
      BY <1>gone, <2>1, <3>1, <3>2, <3>3, <3>4, QuietStep DEF Unlock, IInv, Shape, LockHeld
    <3>5. CASE pc' = [pc EXCEPT ![p] = "reply"] /\ UNCHANGED lock
      BY <1>gone, <2>1, <3>1, <3>2, <3>3, <3>5, QuietStep DEF IInv, Shape, LockHeld
    <3> QED BY <3>2, <3>4, <3>5
  <2>3. CASE ~broken
    <3>1. ~Waiting
      BY <1>8 DEF Send, IInv, LockHeld, Waiting
    <3>2. IsSeq(up') /\ Len(up') = Len(up) + 1
      <4>1. up' = Append(up, request[p]) /\ IsSeq(up)
        BY <1>8, <2>3 DEF Send, IInv, Shape
      <4> QED BY <4>1, AppendLen
    <3>3. Shape' /\ LockHeld' /\ Opening' /\ Begun'
      BY <1>8, <2>1, <2>3, <3>2 DEF Send, IInv, Shape, LockHeld, Opening, Begun
    <3>4. Waiting'
      BY <1>8, <2>3 DEF Send, IInv, Shape, Waiting
    <3>5. InFlight' = InFlight + 1 /\ InFlight \in Nat /\ dropped' = dropped /\ (Lost' <=> Lost)
      BY <1>8, <1>len, <3>2 DEF Send, InFlight, Lost
    <3>6. Awaited'
      BY <1>gone, <1>len, <2>1, <3>1, <3>4, <3>5 DEF Send, IInv, Awaited, Awaiting
    <3> QED BY <1>gone, <3>3, <3>6 DEF IInv
  <2> QED BY <1>8, <2>2, <2>3 DEF Send
<1>9. ASSUME NEW p \in Procs, Receive(p) PROVE IInv'
  <2>1. client # "opening" /\ client' = client
    BY <1>9, <1>used DEF Receive
  <2>2. handle' \in [Tasks -> {handle'[u] : u \in Tasks}]
    BY <1>9 DEF Receive, IInv, Shape
  <2>3. CASE down # <<>> /\ down' = Tail(down)
    <3>1. IsSeq(down') /\ Len(down') = Len(down) - 1 /\ Len(down) >= 1
      BY <1>9, <2>3, TailLen DEF Receive, IInv, Shape
    <3>2. Shape' /\ LockHeld' /\ Opening' /\ Begun'
      BY <1>9, <2>1, <2>2, <3>1
      DEF Receive, Unlock, IInv, Shape, LockHeld, Opening, Begun
    <3>3. InFlight' = InFlight - 1 /\ InFlight' \in Nat /\ InFlight \in Nat
          /\ dropped' = dropped /\ (Lost' <=> Lost)
      BY <1>9, <1>len, <3>1 DEF Receive, InFlight, Lost
    <3>4. Waiting /\ ~Waiting'
      BY <1>9 DEF Receive, Unlock, IInv, Shape, LockHeld, Waiting
    <3>5. Awaited'
      BY <1>gone, <1>len, <2>1, <3>3, <3>4 DEF IInv, Awaited, Awaiting
    <3> QED BY <1>gone, <3>2, <3>5 DEF IInv
  <2>4. CASE down = <<>> /\ Lost /\ UNCHANGED down
    BY <1>9, <1>gone, <2>1, <2>2, <2>4, QuietStep DEF Receive, Unlock, IInv, LockHeld
  <2> QED BY <1>9, <2>3, <2>4 DEF Receive
<1>10. CASE Begin
  <2>1. IsSeq(down') /\ (client = "opening" => Len(down') <= 1)
    BY <1>10, AppendLen, EmptySeq DEF Begin, IInv, Shape, Opening
  <2>2. client # "opening" => InFlight' = InFlight
    BY <1>10 DEF Begin, IInv, Begun, InFlight
  <2>3. Lost' <=> Lost
    BY <1>10 DEF Begin, Lost
  <2> QED BY <1>10, <1>gone, <2>1, <2>2, <2>3, ServerStep DEF Begin, IInv, Shape, Opening
<1>11. CASE Serve
  <2>1. client # "opening"
    BY <1>11 DEF Serve, IInv, Opening
  <2>2. IsSeq(up') /\ Len(up') = Len(up) - 1 /\ Len(up) >= 1
    BY <1>11, TailLen DEF Serve, IInv, Shape
  <2>3. server' = "reply" /\ server = "loop" /\ down' = down /\ (Lost' <=> Lost)
    BY <1>11 DEF Serve, Reply, FailReply, Lost
  <2>4. InFlight' = InFlight
    BY <1>len, <2>2, <2>3 DEF InFlight
  <2> QED BY <1>11, <1>gone, <2>1, <2>2, <2>3, <2>4, ServerStep DEF Serve, IInv, Shape
<1>12. CASE SendReply
  <2>1. client # "opening"
    BY <1>12 DEF SendReply, IInv, Opening
  <2>2. (Lost => Lost') /\ (reply = ErrorStatus => Lost')
    BY <1>12 DEF SendReply, Lost
  <2>3. \/ IsSeq(down') /\ Len(down') = Len(down) + 1
        \/ down' = down /\ (Abandoned \/ Lost')
    BY <1>12, <2>2, AppendLen DEF SendReply, IInv, Shape, Unread
  <2>4. \/ InFlight' = InFlight \/ Lost'
        \/ InFlight' \in Nat /\ InFlight' <= InFlight /\ Abandoned
    <3>1. server = "reply" /\ server' = "loop" /\ up' = up
      BY <1>12 DEF SendReply
    <3> QED BY <1>len, <2>3, <3>1 DEF InFlight
  <2>5. IsSeq(down')
    BY <2>3 DEF IInv, Shape
  <2> QED BY <1>12, <1>gone, <2>1, <2>2, <2>4, <2>5, ServerStep DEF SendReply, IInv, Shape
<1>13. CASE EndServer
  <2>1. InFlight' = InFlight /\ (Lost' <=> Lost)
    BY <1>13 DEF EndServer, InFlight, Lost
  <2> QED BY <1>13, <1>gone, <2>1, ServerStep DEF EndServer, IInv, Shape, Opening
<1>14. CASE UNCHANGED vars
  BY <1>14, <1>gone
  DEF vars, IInv, Shape, LockHeld, Opening, Begun, Awaited, Awaiting, Waiting, InFlight, Lost
<1> QED
  BY <1>1, <1>2, <1>3, <1>4, <1>5, <1>6, <1>7, <1>8, <1>9, <1>10, <1>11, <1>12,
     <1>13, <1>14 DEF Next

\* RemoteTransaction, "Invariant: cannot send new message until we process
\* response to it": for any number of tasks that share the transaction and any
\* sizes of the channels, as long as replies come, one request at most is
\* unanswered besides those whose operation was dropped half-way, and it is
\* the one that is awaited.
THEOREM OneAtATime == Spec => []OneInFlight
<1>1. IInv => OneInFlight
  BY DEF IInv, Awaited, Awaiting, Waiting, InFlight, OneInFlight, Unread
<1> QED BY <1>1, InitInv, StepInv, PTL DEF Spec

-----------------------------------------------------------------------------
(* Whose answers a task gets *)

\* The operations of a cursor that only task t has used, n times.
Moves(t, n) == [i \in 1 .. n |-> t]

\* The process that holds io waits for its reply.
Waits == lock \in Procs /\ pc[lock] = "reply"

\* No task holds cursor i and none is about to close it.
Unheld(i) ==
  \A t \in Tasks :
    /\ handle[t] # i
    /\ pc[<<"close", t>>] # "idle" => request[<<"close", t>>].cursor # i

\* Reply a is the answer to what the holder of io has asked for.
IsAnswer(a) ==
  /\ request[lock].op = "Open" =>
       /\ a.cursor \in DOMAIN cursors /\ Unheld(a.cursor)
       /\ ~Lost => cursors[a.cursor] = <<>>
  /\ request[lock].op = "Move" =>
       a = [cursor |-> handle[lock[2]], moves |-> Moves(lock[2], asked[lock[2]])]
  /\ request[lock].op = "Close" =>
       (~Lost => cursors[request[lock].cursor] = None)

Cells ==
  /\ IsSeq(cursors)
  /\ handle \in [Tasks -> Nat \cup {None}]
  /\ asked \in [Tasks -> Nat]
  /\ DOMAIN got = Tasks /\ DOMAIN request = Procs

\* Cursors that are held exist, and by one task each.
Held ==
  \A t \in Tasks :
    /\ handle[t] # None => handle[t] \in DOMAIN cursors
    /\ handle[t] = None => got[t] = None /\ asked[t] = 0
    /\ \A u \in Tasks \ {t} : handle[t] = None \/ handle[u] # handle[t]

\* What operations and closing tasks ask for.
UseRequest(t) == IF handle[t] = None THEN [op |-> "Open", by |-> t]
                 ELSE [op |-> "Move", cursor |-> handle[t], by |-> t]
CloseRequest(i, t) == [op |-> "Close", cursor |-> i, by |-> t]
Dropped(i) == i \in DOMAIN cursors /\ \A u \in Tasks : handle[u] # i

Asks ==
  \A t \in Tasks :
    /\ pc[<<"use", t>>] # "idle" => request[<<"use", t>>] = UseRequest(t)
    /\ pc[<<"close", t>>] # "idle" =>
         \E i : request[<<"close", t>>] = CloseRequest(i, t) /\ Dropped(i)

\* The last answer of a cursor is that of all its operations.
Seen ==
  \A t \in Tasks :
    pc[<<"use", t>>] # "reply" =>
      got[t] \in {None, [cursor |-> handle[t], moves |-> Moves(t, asked[t])]}

\* An operation of t that the server has not seen yet.
Unseen(t) == IF up # <<>> /\ lock = <<"use", t>> THEN 1 ELSE 0

\* The server has executed what its tasks have asked of each cursor.
Executed ==
  \A t \in Tasks :
    handle[t] # None => /\ Unseen(t) <= asked[t]
                        /\ cursors[handle[t]] = Moves(t, asked[t] - Unseen(t))

\* The request has failed, and the status that says so is not yet sent.
Failing == server = "reply" /\ reply = ErrorStatus

\* A request on its way is that of the holder of io, and so is a reply.
InStep ==
  /\ down # <<>> => Waits /\ IsAnswer(Head(down)) /\ Tail(down) = <<>>
  /\ server = "reply" /\ ~Lost => Waits /\ (reply = ErrorStatus \/ IsAnswer(reply))
  /\ up # <<>> /\ ~Lost => Waits /\ Head(up) = request[lock]

\* An open cursor is held, about to be closed, or on its way to its task.
Kept ==
  \A i \in DOMAIN cursors :
    cursors[i] # None =>
      \/ \E t \in Tasks : handle[t] = i
      \/ \E t \in Tasks : pc[<<"close", t>>] # "idle" /\ request[<<"close", t>>].cursor = i
      \/ /\ Waits /\ request[lock].op = "Open"
         /\ \/ server = "reply" /\ reply.cursor = i
            \/ down # <<>> /\ Head(down).cursor = i

Own ==
  /\ client = "opening" => cursors = <<>> /\ dropped = 0
  /\ dropped = 0 =>
       /\ Cells /\ Held /\ Asks
       /\ client # "opening" => InStep
       /\ ~Lost => Seen /\ Kept /\ (Failing \/ Executed)

\* A step that leaves tasks and cursors alone.
LEMMA CellsStay ==
  ASSUME Own, dropped = 0, UNCHANGED <<handle, got, asked, request, cursors, dropped, lock, pc>>,
         client' = "opening" => client = "opening",
         Lost => Lost', Lost' \/ Failing' \/ ~Failing, up' = up,
         client' # "opening" => InStep',
         ~Lost' => Kept'
  PROVE  Own'
<1>1. Cells' /\ Held' /\ Asks'
  <2>1. Cells'
    BY DEF Own, Cells
  <2>2. Held'
    BY DEF Own, Held
  <2>3. Asks'
    <3>1. \A t : UseRequest(t)' = UseRequest(t)
      BY DEF UseRequest
    <3>2. \A i : Dropped(i)' <=> Dropped(i)
      BY DEF Dropped
    <3> QED BY <3>1, <3>2 DEF Own, Asks, CloseRequest
  <2> QED BY <2>1, <2>2, <2>3
<1>2. ~Lost' => Seen' /\ (Failing' \/ Executed')
  <2>1. ~Lost' => Seen /\ (Failing \/ Executed)
    BY DEF Own
  <2>2. (Seen => Seen') /\ (Executed => Executed')
    BY DEF Seen, Executed, Unseen
  <2> QED BY <2>1, <2>2, Zenon
<1> QED BY <1>1, <1>2 DEF Own

\* The reply that is awaited stays the same as long as the holder of io, its
\* request and the cursors do.
LEMMA AnswerStays ==
  ASSUME NEW a, IsAnswer(a), UNCHANGED <<handle, asked, request, cursors, lock, pc>>, Lost => Lost'
  PROVE  IsAnswer(a)'
BY DEF IsAnswer, Unheld

\* It holds before the transaction is opened.
LEMMA InitOwn == Init => Own
<1> SUFFICES ASSUME Init PROVE Own
  OBVIOUS
<1>1. Cells
  BY EmptySeq DEF Init, Cells
<1>2. Held /\ Asks /\ Seen /\ Executed
  BY DEF Init, Held, Asks, Seen, Executed, Procs
<1>3. Kept
  BY DEF Init, Kept
<1> QED BY <1>1, <1>2, <1>3 DEF Init, Own

\* Open, DropTransaction, Break, Begin and EndServer.
LEMMA OuterOwn ==
  ASSUME IInv, Own, dropped = 0, Open \/ DropTransaction \/ Break \/ Begin \/ EndServer
  PROVE  Own'
<1> USE DEF history, serverVars, ends
<1>1. CASE Open
  <2>1. up = <<>> /\ server # "reply" /\ down' = <<>> /\ cursors = <<>>
    <3>1. up = <<>> /\ server # "reply" /\ Len(down) <= 1 /\ cursors = <<>> /\ IsSeq(down)
      BY <1>1 DEF Open, IInv, Shape, Opening, Own
    <3>2. CASE down # <<>>
      <4>1. PICK S : down \in Seq(S)
        BY <3>1 DEF IsSeq
      <4>2. Tail(down) = <<>>
        BY <3>1, <3>2, <4>1
      <4> QED BY <1>1, <3>1, <3>2, <4>2 DEF Open
    <3>3. CASE down = <<>>
      BY <1>1, <3>1, <3>3 DEF Open
    <3> QED BY <3>2, <3>3
  <2>2. InStep'
    BY <1>1, <2>1 DEF Open, InStep
  <2>3. Kept'
    BY <1>1, <2>1 DEF Open, Kept
  <2> QED BY <1>1, <2>1, <2>2, <2>3, CellsStay DEF Open, Lost, Failing
<1>2. CASE DropTransaction
  <2>1. UNCHANGED <<handle, got, asked, request, cursors, dropped, lock, pc, up, down, server, reply>>
        /\ client # "opening" /\ (Lost' <=> Lost) /\ (Failing' <=> Failing)
    BY <1>2 DEF DropTransaction, Lost, Failing
  <2>2. InStep'
    BY <2>1, AnswerStays DEF InStep, Waits, Own
  <2>3. ~Lost => Kept'
    BY <2>1 DEF Kept, Waits, Own
  <2> QED BY <1>2, <2>1, <2>2, <2>3, CellsStay DEF DropTransaction
<1>3. CASE Break
  <2>1. UNCHANGED <<handle, got, asked, request, cursors, dropped, lock, pc, up, down, client, server, reply>>
        /\ Lost'
    BY <1>3 DEF Break, Lost
  <2>2. client # "opening" => InStep'
    BY <2>1, AnswerStays DEF InStep, Waits, Own
  <2> QED BY <2>1, <2>2, CellsStay
<1>4. CASE Begin
  <2>1. UNCHANGED <<handle, got, asked, request, cursors, dropped, lock, pc, up, client, reply>>
        /\ server' = "loop" /\ server = "begin" /\ (Lost' <=> Lost)
    BY <1>4 DEF Begin, Lost
  <2>2. client # "opening" => Lost /\ down' = down
    BY <1>4 DEF Begin, IInv, Begun, Lost
  <2>3. client # "opening" => InStep'
    BY <2>1, <2>2, AnswerStays DEF InStep, Waits, Own
  <2>4. ~Lost => Kept'
    BY <2>1, <2>2 DEF Own, Kept
  <2> QED BY <2>1, <2>3, <2>4, CellsStay DEF Failing
<1>5. CASE EndServer
  <2>1. UNCHANGED <<handle, got, asked, request, cursors, dropped, lock, pc, up, down, client, reply>>
        /\ server' = "ended" /\ server = "loop" /\ (Lost' <=> Lost)
    BY <1>5 DEF EndServer, Lost
  <2>2. client # "opening" => InStep'
    BY <2>1, AnswerStays DEF InStep, Waits, Own
  <2>3. ~Lost => Kept'
    BY <2>1 DEF Own, Kept, Waits
  <2> QED BY <2>1, <2>2, <2>3, CellsStay DEF Failing
<1> QED BY <1>1, <1>2, <1>3, <1>4, <1>5

\* Processes are operations and closing tasks.
LEMMA ProcFacts ==
  /\ \A t \in Tasks : <<"use", t>> \in Procs /\ <<"close", t>> \in Procs
  /\ \A p \in Procs : p[2] \in Tasks /\ (p = <<"use", p[2]>> \/ p = <<"close", p[2]>>)
  /\ \A t, u \in Tasks : /\ <<"use", t>> # <<"close", u>>
                         /\ <<"use", t>> = <<"use", u>> => t = u
                         /\ <<"close", t>> = <<"close", u>> => t = u
  /\ Nobody \notin Procs
BY DEF Procs, Nobody

\* A process moves to a place where it awaits no reply, while the channels and
\* the server stand still.
LEMMA PlaceStep ==
  ASSUME IInv, Own, dropped = 0, NEW p \in Procs, NEW state \in {"idle", "lock", "send"},
         pc' = [pc EXCEPT ![p] = state],
         UNCHANGED <<client, handle, got, asked, cursors, dropped, up, down, server, reply>>,
         Lost' <=> Lost,
         client # "opening",
         pc[p] = "reply" => Lost,
         DOMAIN request' = Procs, \A q \in Procs \ {p} : request'[q] = request[q],
         \/ state = "idle" /\ ((\E t \in Tasks : p = <<"use", t>>) \/ Lost)
         \/ pc[p] # "idle" /\ request'[p] = request[p] /\ state # "idle"
         \/ \E t \in Tasks : p = <<"use", t>> /\ request'[p] = UseRequest(t),
         \/ Waits /\ lock' = lock /\ lock # p
         \/ ~Waits
         \/ Lost /\ down = <<>>
  PROVE  Own'
<1>1. /\ Cells /\ Held /\ Asks /\ InStep
      /\ ~Lost => Seen /\ Kept /\ (Failing \/ Executed)
  BY DEF Own
<1>2. Cells' /\ Held'
  <2>1. Cells'
    BY <1>1 DEF Cells
  <2>2. Held'
    BY <1>1 DEF Held
  <2> QED BY <2>1, <2>2
<1>pc. /\ pc'[p] = state /\ \A q \in Procs \ {p} : pc'[q] = pc[q]
  BY DEF IInv, Shape
<1>close. ASSUME NEW t \in Tasks
          PROVE  /\ pc'[<<"close", t>>] # "idle" =>
                      pc[<<"close", t>>] # "idle" /\ request'[<<"close", t>>] = request[<<"close", t>>]
                 /\ ~Lost /\ pc[<<"close", t>>] # "idle" => pc'[<<"close", t>>] # "idle"
  <2> DEFINE c == <<"close", t>>
  <2>1. c \in Procs /\ \A u \in Tasks : c # <<"use", u>>
    BY ProcFacts
  <2> HIDE DEF c
  <2>2. CASE p = c
    BY <2>1, <2>2, <1>pc DEF c
  <2>3. CASE p # c
    BY <2>1, <2>3, <1>pc DEF c
  <2> QED BY <2>2, <2>3
<1>3. Asks'
  <2>1. \A t : UseRequest(t)' = UseRequest(t)
    BY DEF UseRequest
  <2>2. \A i : Dropped(i)' <=> Dropped(i)
    BY DEF Dropped
  <2>3. ASSUME NEW t \in Tasks, pc'[<<"use", t>>] # "idle"
        PROVE  request'[<<"use", t>>] = UseRequest(t)
    <3> DEFINE c == <<"use", t>>
    <3>1. c \in Procs /\ (\A u \in Tasks : c = <<"use", u>> => u = t)
          /\ (pc[c] # "idle" => request[c] = UseRequest(t)) /\ pc'[c] # "idle"
      BY <1>1, <2>3, ProcFacts DEF Asks
    <3>2. request'[c] = UseRequest(t)
      <4> HIDE DEF c
      <4> QED BY <3>1, <1>pc
    <3> QED BY <3>2
  <2>4. ASSUME NEW t \in Tasks, pc'[<<"close", t>>] # "idle"
        PROVE  \E i : request'[<<"close", t>>] = CloseRequest(i, t) /\ Dropped(i)
    BY <1>1, <1>close, <2>4 DEF Asks
  <2> QED BY <2>1, <2>2, <2>3, <2>4 DEF Asks, CloseRequest
<1>4. ~Lost => Seen'
  <2> SUFFICES ASSUME ~Lost, NEW t \in Tasks, pc'[<<"use", t>>] # "reply"
               PROVE  got[t] \in {None, [cursor |-> handle[t], moves |-> Moves(t, asked[t])]}
    BY DEF Seen, Moves
  <2>1. pc[<<"use", t>>] # "reply"
    BY <1>pc, ProcFacts
  <2> QED BY <1>1, <2>1 DEF Seen
<1>5. ~Lost => Failing' \/ Executed'
  <2> SUFFICES ASSUME ~Lost, ~Failing PROVE Executed'
    BY DEF Failing
  <2>1. \A t \in Tasks : Unseen(t)' = Unseen(t)
    BY <1>1 DEF Unseen, InStep
  <2> QED BY <1>1, <2>1 DEF Executed, Moves
<1>6. ASSUME Waits, lock' = lock, lock # p
      PROVE  Waits' /\ request'[lock] = request[lock] /\ \A a : IsAnswer(a) => IsAnswer(a)'
  <2>1. Waits' /\ request'[lock] = request[lock]
    BY <1>6, <1>pc DEF Waits
  <2>2. \A i : Unheld(i) => Unheld(i)'
    BY <1>close DEF Unheld
  <2> QED BY <1>6, <2>1, <2>2 DEF IsAnswer, Moves
<1>7. InStep'
  BY <1>1, <1>6 DEF InStep
<1>8. ~Lost => Kept'
  <2> SUFFICES ASSUME ~Lost, NEW i \in DOMAIN cursors, cursors[i] # None
               PROVE  \/ \E t \in Tasks : handle[t] = i
                      \/ \E t \in Tasks : pc'[<<"close", t>>] # "idle" /\ request'[<<"close", t>>].cursor = i
                      \/ /\ Waits' /\ request'[lock'].op = "Open"
                         /\ \/ server = "reply" /\ reply.cursor = i
                            \/ down # <<>> /\ Head(down).cursor = i
    BY DEF Kept
  <2>1. CASE \E t \in Tasks : pc[<<"close", t>>] # "idle" /\ request[<<"close", t>>].cursor = i
    BY <2>1, <1>close
  <2>2. CASE Waits
    BY <2>2, <1>1, <1>6, <2>1 DEF Kept
  <2> QED BY <1>1, <2>1, <2>2 DEF Kept
<1> QED BY <1>2, <1>3, <1>4, <1>5, <1>7, <1>8 DEF Own

\* Start, Lock, an operation that is dropped while no request of it is on its
\* way, and operations that fail because the connection is lost or the stream
\* of responses has ended.
LEMMA PlaceOwn ==
  ASSUME IInv, Own, dropped = 0
  PROVE  /\ \A t \in Tasks : Start(t) => Own'
         /\ \A t \in Tasks : Cancel(t) => Own'
         /\ \A p \in Procs : Lock(p) => Own'
         /\ \A p \in Procs : Send(p) /\ pc' # [pc EXCEPT ![p] = "reply"] => Own'
         /\ \A p \in Procs : Receive(p) /\ down = <<>> => Own'
<1> USE DEF history, serverVars, ends
<1>used. \A p \in Procs : pc[p] # "idle" => client # "opening"
  BY DEF IInv, Opening
<1>req. DOMAIN request = Procs
  BY DEF Own, Cells
<1>1. ASSUME NEW t \in Tasks, Start(t) PROVE Own'
  <2> DEFINE p == <<"use", t>>
             new == UseRequest(t)
  <2>1. /\ p \in Procs /\ pc[p] = "idle" /\ pc' = [pc EXCEPT ![p] = "lock"] /\ client # "opening"
        /\ request' = [request EXCEPT ![p] = new] /\ lock' = lock
        /\ UNCHANGED <<client, handle, got, asked, cursors, dropped, up, down, server, reply>>
        /\ (Lost' <=> Lost)
    BY <1>1, ProcFacts DEF Start, UseRequest, Lost
  <2>2. Waits => lock # p
    BY <2>1 DEF Waits
  <2>3. DOMAIN request' = Procs /\ request'[p] = new /\ \A q \in Procs \ {p} : request'[q] = request[q]
    BY <2>1, <1>req
  <2> QED BY <2>1, <2>2, <2>3, PlaceStep
<1>2. ASSUME NEW t \in Tasks, Cancel(t) PROVE Own'
  <2> DEFINE p == <<"use", t>>
  <2>1. /\ p \in Procs /\ pc[p] # "idle" /\ pc' = [pc EXCEPT ![p] = "idle"] /\ client # "opening"
        /\ lock' = (IF lock = p THEN Nobody ELSE lock)
        /\ UNCHANGED <<client, handle, got, asked, request, cursors, up, down, server, reply>>
        /\ dropped' = (IF pc[p] = "reply" THEN dropped + 1 ELSE dropped)
        /\ (Lost' <=> Lost)
    BY <1>2, ProcFacts, <1>used DEF Cancel, Unlock, Lost
  <2>2. CASE pc[p] = "reply"
    BY <2>1, <2>2 DEF Own
  <2>3. CASE pc[p] # "reply"
    <3>1. Waits => lock # p
      BY <2>3 DEF Waits
    <3>2. dropped' = dropped
      BY <2>1, <2>3
    <3>3. Waits => lock' = lock
      BY <2>1, <3>1
    <3> QED BY <1>req, <2>1, <2>3, <3>1, <3>2, <3>3, PlaceStep
  <2> QED BY <2>2, <2>3
<1>3. ASSUME NEW p \in Procs, Lock(p) PROVE Own'
  <2>1. ~Waits
    BY <1>3, ProcFacts DEF Lock, Waits
  <2> QED BY <1>3, <1>used, <1>req, <2>1, PlaceStep DEF Lock, Lost
<1>4. ASSUME NEW p \in Procs, Send(p), pc' # [pc EXCEPT ![p] = "reply"] PROVE Own'
  <2>1. ~Waits
    BY <1>4 DEF Send, Waits, IInv, LockHeld
  <2>2. /\ p[1] = "use" /\ pc[p] = "send" /\ pc' = [pc EXCEPT ![p] = "idle"]
        /\ UNCHANGED <<client, handle, got, asked, request, cursors, dropped, up, down, server, reply>>
        /\ (Lost' <=> Lost)
    BY <1>4 DEF Send, Unlock, Lost
  <2>3. \E t \in Tasks : p = <<"use", t>>
    BY <2>2 DEF Procs
  <2> QED BY <1>4, <1>used, <1>req, <2>1, <2>2, <2>3, PlaceStep
<1>5. ASSUME NEW p \in Procs, Receive(p), down = <<>> PROVE Own'
  <2>1. Lost /\ (Lost' <=> Lost) /\ UNCHANGED <<down, handle, got>>
    BY <1>5 DEF Receive, Lost
  <2> QED BY <1>5, <1>used, <1>req, <2>1, PlaceStep DEF Receive, Unlock
<1> QED BY <1>1, <1>2, <1>3, <1>4, <1>5

\* A channel that holds at most one message.
LEMMA ShortSeq ==
  ASSUME NEW s, IsSeq(s)
  PROVE  /\ Len(s) = 0 => s = <<>>
         /\ Len(s) = 1 => Tail(s) = <<>>
         /\ DOMAIN s = 1 .. Len(s)
<1>1. PICK S : s \in Seq(S)
  BY DEF IsSeq
<1>2. \A r \in Seq(S) : Len(r) = 0 => r = <<>>
  OBVIOUS
<1>3. Len(s) = 1 => Tail(s) \in Seq(S) /\ Len(Tail(s)) = 0
  BY <1>1
<1>4. DOMAIN s = 1 .. Len(s)
  BY <1>1
<1> QED BY <1>1, <1>2, <1>3, <1>4

\* The message in a channel that was empty.
LEMMA OneMessage ==
  ASSUME NEW e
  PROVE  Append(<<>>, e) # <<>> /\ Head(Append(<<>>, e)) = e /\ Tail(Append(<<>>, e)) = <<>>
<1>1. <<>> \in Seq({e})
  OBVIOUS
<1> QED BY <1>1

\* Only one of the request, the reply that is being sent and the reply on its
\* way is there.
LEMMA Alone ==
  ASSUME IInv, client # "opening", dropped = 0, ~Lost
  PROVE  /\ down # <<>> => up = <<>> /\ server # "reply" /\ Tail(down) = <<>>
         /\ server = "reply" => up = <<>> /\ down = <<>>
         /\ up # <<>> => down = <<>> /\ server # "reply" /\ Tail(up) = <<>>
<1>1. /\ InFlight <= dropped + Awaiting /\ Awaiting <= 1 /\ IsSeq(up) /\ IsSeq(down)
      /\ Len(up) \in Nat /\ Len(down) \in Nat
  BY LenNat DEF IInv, Shape, Awaited, Awaiting
<1>2. (up # <<>> => Len(up) >= 1) /\ (down # <<>> => Len(down) >= 1)
  BY <1>1, ShortSeq
<1>3. InFlight <= 1
  BY <1>1 DEF InFlight, Awaiting
<1> QED BY <1>1, <1>2, <1>3, ShortSeq DEF InFlight

\* What the holder of io has asked for.
LEMMA HolderAsks ==
  ASSUME Asks, Waits
  PROVE  \/ \E t \in Tasks : /\ lock = <<"use", t>> /\ lock[2] = t
                             /\ request[lock] = UseRequest(t)
                             /\ request[lock].op = IF handle[t] = None THEN "Open" ELSE "Move"
         \/ \E t \in Tasks : \E i : /\ lock = <<"close", t>> /\ request[lock] = CloseRequest(i, t) /\ Dropped(i)
                                    /\ request[lock].op = "Close" /\ request[lock].cursor = i
<1>1. PICK t \in Tasks : lock = <<"use", t>> \/ lock = <<"close", t>>
  BY ProcFacts DEF Waits
<1>2. CASE lock = <<"use", t>>
  <2>1. request[lock] = UseRequest(t)
    BY <1>2 DEF Asks, Waits
  <2> QED BY <1>2, <2>1 DEF UseRequest
<1>3. CASE lock = <<"close", t>>
  <2>1. PICK i : request[lock] = CloseRequest(i, t) /\ Dropped(i)
    BY <1>3 DEF Asks, Waits
  <2> QED BY <1>3, <2>1 DEF CloseRequest
<1> QED BY <1>1, <1>2, <1>3

\* The ids of cursors are numbers.
LEMMA CursorIds ==
  ASSUME Cells
  PROVE  /\ DOMAIN cursors = 1 .. Len(cursors) /\ Len(cursors) \in Nat
         /\ DOMAIN cursors \subseteq Nat /\ None \notin DOMAIN cursors
<1>1. DOMAIN cursors = 1 .. Len(cursors) /\ Len(cursors) \in Nat
  BY ShortSeq, LenNat DEF Cells
<1> QED BY <1>1, NoneAssumption

\* A cursor is dropped: it is about to be closed.
LEMMA DropCursorOwn ==
  ASSUME IInv, Own, dropped = 0, NEW t \in Tasks, DropCursor(t)
  PROVE  Own'
<1> USE DEF serverVars, ends
<1> DEFINE u == <<"use", t>>
           c == <<"close", t>>
<1>0. PICK i : i = handle[t]
  OBVIOUS
<1>1. client # "opening"
  BY DEF DropCursor, IInv, Opening
<1>2. /\ Cells /\ Held /\ Asks /\ InStep
      /\ ~Lost => Seen /\ Kept /\ (Failing \/ Executed)
  BY <1>1 DEF Own
<1>3. /\ u \in Procs /\ c \in Procs /\ pc[u] = "idle" /\ pc[c] = "idle" /\ i # None
      /\ \A x \in Tasks : /\ handle'[x] = (IF x = t THEN None ELSE handle[x])
                          /\ got'[x] = (IF x = t THEN None ELSE got[x])
                          /\ asked'[x] = (IF x = t THEN 0 ELSE asked[x])
      /\ \A p \in Procs : /\ pc'[p] = (IF p = c THEN "lock" ELSE pc[p])
                          /\ p # c => request'[p] = request[p]
      /\ request'[c] = CloseRequest(i, t)
      /\ UNCHANGED <<client, lock, up, down, server, reply, cursors, dropped>>
      /\ (Lost' <=> Lost)
  BY <1>0, <1>2, ProcFacts DEF DropCursor, IInv, Shape, Cells, CloseRequest, Lost
<1>4. Cells'
  BY <1>2 DEF DropCursor, Cells
<1>5. DOMAIN cursors \subseteq Nat /\ None \notin DOMAIN cursors
  BY <1>2, CursorIds
<1>6. i \in DOMAIN cursors /\ \A x \in Tasks \ {t} : handle[x] # i
  BY <1>0, <1>2, <1>3 DEF Held
<1>7. Held'
  BY <1>2, <1>3 DEF Held
<1>8. \A j : Dropped(j) => Dropped(j)'
  BY <1>3, <1>5 DEF Dropped
<1>9. Dropped(i)'
  BY <1>3, <1>5, <1>6 DEF Dropped
<1>10. Asks'
  <2>1. ASSUME NEW x \in Tasks, pc'[<<"use", x>>] # "idle"
        PROVE  request'[<<"use", x>>] = UseRequest(x)'
    <3>1. x # t /\ <<"use", x>> \in Procs /\ <<"use", x>> # c
      BY <1>3, <2>1, ProcFacts
    <3>2. UseRequest(x)' = UseRequest(x)
      BY <1>3, <3>1 DEF UseRequest
    <3> QED BY <1>2, <1>3, <2>1, <3>1, <3>2 DEF Asks
  <2>2. ASSUME NEW x \in Tasks, pc'[<<"close", x>>] # "idle"
        PROVE  \E j : request'[<<"close", x>>] = CloseRequest(j, x) /\ Dropped(j)'
    <3>1. CASE x = t
      BY <1>3, <1>9, <3>1
    <3>2. CASE x # t
      <4>1. <<"close", x>> \in Procs /\ <<"close", x>> # c
        BY <3>2, ProcFacts
      <4> QED BY <1>2, <1>3, <1>8, <2>2, <4>1 DEF Asks
    <3> QED BY <3>1, <3>2
  <2> QED BY <2>1, <2>2 DEF Asks, CloseRequest
<1>11. \A j : j \in DOMAIN cursors /\ Unheld(j) => Unheld(j)'
  <2> SUFFICES ASSUME NEW j \in DOMAIN cursors, Unheld(j), NEW x \in Tasks
               PROVE  /\ handle'[x] # j
                      /\ pc'[<<"close", x>>] # "idle" => request'[<<"close", x>>].cursor # j
    BY DEF Unheld
  <2>1. handle'[x] # j /\ i # j
    BY <1>0, <1>3, <1>5 DEF Unheld
  <2>2. CASE x = t
    BY <1>3, <2>1, <2>2 DEF CloseRequest
  <2>3. CASE x # t
    <3>1. <<"close", x>> \in Procs /\ <<"close", x>> # c
      BY <2>3, ProcFacts
    <3> QED BY <1>3, <2>1, <3>1 DEF Unheld
  <2> QED BY <2>2, <2>3
<1>12. ASSUME Waits PROVE Waits' /\ request'[lock] = request[lock] /\ lock # u /\ lock # c
  BY <1>3, <1>12 DEF Waits
<1>13. ASSUME NEW a, Waits, IsAnswer(a) PROVE IsAnswer(a)'
  <2>1. request'[lock] = request[lock] /\ lock # u
    BY <1>12, <1>13
  <2>2. request[lock].op = "Move" => lock[2] \in Tasks \ {t}
    BY <1>2, <1>13, <2>1, HolderAsks
  <2> QED BY <1>3, <1>11, <1>13, <2>1, <2>2 DEF IsAnswer, Moves
<1>14. InStep'
  BY <1>2, <1>3, <1>12, <1>13 DEF InStep
<1>15. ~Lost => Seen'
  <2> SUFFICES ASSUME ~Lost, NEW x \in Tasks, pc'[<<"use", x>>] # "reply"
               PROVE  got'[x] \in {None, [cursor |-> handle'[x], moves |-> Moves(x, asked'[x])]}
    BY DEF Seen, Moves
  <2>1. pc[<<"use", x>>] # "reply"
    BY <1>3, ProcFacts
  <2> QED BY <1>2, <1>3, <2>1 DEF Seen
<1>16. ~Lost => Failing' \/ Executed'
  <2>1. \A x \in Tasks : Unseen(x)' = Unseen(x)
    BY <1>3 DEF Unseen
  <2>2. Failing' <=> Failing
    BY <1>3 DEF Failing
  <2> QED BY <1>2, <1>3, <2>1, <2>2 DEF Executed, Moves
<1>17. ~Lost => Kept'
  <2> SUFFICES ASSUME ~Lost, NEW j \in DOMAIN cursors, cursors[j] # None
               PROVE  \/ \E x \in Tasks : handle'[x] = j
                      \/ \E x \in Tasks : pc'[<<"close", x>>] # "idle" /\ request'[<<"close", x>>].cursor = j
                      \/ /\ Waits' /\ request'[lock].op = "Open"
                         /\ \/ server = "reply" /\ reply.cursor = j
                            \/ down # <<>> /\ Head(down).cursor = j
    BY <1>3 DEF Kept
  <2>1. CASE \E x \in Tasks : handle[x] = j
    <3>1. CASE i = j
      BY <1>3, <3>1 DEF CloseRequest
    <3>2. CASE i # j
      BY <1>0, <1>3, <2>1, <3>2
    <3> QED BY <3>1, <3>2
  <2>2. CASE \E x \in Tasks : pc[<<"close", x>>] # "idle" /\ request[<<"close", x>>].cursor = j
    <3>1. PICK x \in Tasks : pc[<<"close", x>>] # "idle" /\ request[<<"close", x>>].cursor = j
      BY <2>2
    <3>2. <<"close", x>> \in Procs /\ <<"close", x>> # c
      BY <1>3, <3>1, ProcFacts
    <3> QED BY <1>3, <3>1, <3>2
  <2>3. CASE Waits
    BY <1>2, <1>12, <2>1, <2>2, <2>3 DEF Kept
  <2> QED BY <1>2, <2>1, <2>2, <2>3 DEF Kept
<1> QED BY <1>1, <1>3, <1>4, <1>7, <1>10, <1>14, <1>15, <1>16, <1>17 DEF Own

\* A request is sent: it is the only thing on its way as long as replies come.
LEMMA SendOwn ==
  ASSUME IInv, Own, dropped = 0, NEW p \in Procs, Send(p), pc' = [pc EXCEPT ![p] = "reply"]
  PROVE  Own'
<1> USE DEF serverVars, ends
<1>1. client # "opening" /\ lock = p /\ pc[p] = "send" /\ ~Waits
  BY DEF Send, IInv, Opening, LockHeld, Waits
<1>2. /\ Cells /\ Held /\ Asks /\ InStep
      /\ ~Lost => Seen /\ Kept /\ (Failing \/ Executed)
  BY <1>1 DEF Own
<1>3. down = <<>> /\ (~Lost => server # "reply" /\ up = <<>>)
  BY <1>1, <1>2 DEF InStep
<1>4. /\ ~Lost => up' # <<>> /\ Head(up') = request[p]
      /\ \A q \in Procs : pc'[q] = IF q = p THEN "reply" ELSE pc[q]
      /\ asked' = (IF request[p].op = "Move" THEN [asked EXCEPT ![p[2]] = @ + 1] ELSE asked)
      /\ UNCHANGED <<client, lock, handle, request, down, server, reply, cursors, got, dropped>>
      /\ (Lost' <=> Lost)
  <2>1. /\ up' = IF broken THEN up ELSE Append(up, request[p])
        /\ asked' = (IF request[p].op = "Move" THEN [asked EXCEPT ![p[2]] = @ + 1] ELSE asked)
        /\ UNCHANGED <<client, lock, handle, request, down, server, reply, cursors, got, dropped, broken, failed>>
    BY <1>1 DEF Send, Unlock, IInv, Shape
  <2>2. ~Lost => up' # <<>> /\ Head(up') = request[p]
    BY <1>3, <2>1, OneMessage DEF Lost
  <2> QED BY <2>1, <2>2 DEF Lost, IInv, Shape
<1>5. PICK t \in Tasks : p[2] = t /\ (p = <<"use", t>> \/ p = <<"close", t>>)
  BY ProcFacts
<1>6. /\ p = <<"use", t>> => request[p] = UseRequest(t) /\ request[p].op = IF handle[t] = None THEN "Open" ELSE "Move"
      /\ p = <<"close", t>> => request[p].op = "Close"
  <2>1. CASE p = <<"use", t>>
    <3>1. request[p] = UseRequest(t)
      BY <1>1, <1>2, <2>1 DEF Asks
    <3>2. p # <<"close", t>>
      BY <2>1, ProcFacts
    <3> QED BY <3>1, <3>2 DEF UseRequest
  <2>2. CASE p = <<"close", t>>
    <3>1. PICK i : request[p] = CloseRequest(i, t)
      BY <1>1, <1>2, <2>2 DEF Asks
    <3>2. p # <<"use", t>>
      BY <2>2, ProcFacts
    <3> QED BY <3>1, <3>2 DEF CloseRequest
  <2> QED BY <1>5, <2>1, <2>2
<1>7. \A x \in Tasks : asked'[x] = IF p = <<"use", x>> /\ handle[x] # None THEN asked[x] + 1 ELSE asked[x]
  <2>1. CASE p = <<"close", t>>
    BY <1>4, <1>6, <2>1, ProcFacts
  <2>2. CASE p = <<"use", t>>
    <3>1. \A x \in Tasks : p = <<"use", x>> <=> x = t
      BY <2>2, ProcFacts
    <3>2. CASE handle[t] = None
      BY <1>4, <1>6, <2>2, <3>1, <3>2
    <3>3. CASE handle[t] # None
      <4>1. asked' = [asked EXCEPT ![t] = @ + 1]
        BY <1>4, <1>5, <1>6, <2>2, <3>3
      <4> QED BY <1>2, <3>1, <3>3, <4>1 DEF Cells
    <3> QED BY <3>2, <3>3
  <2> QED BY <1>5, <2>1, <2>2
<1>8. Cells'
  BY <1>2, <1>4, <1>5 DEF Cells
<1>9. Held'
  BY <1>2, <1>4, <1>7 DEF Held
<1>10. Asks'
  <2>1. /\ \A x : UseRequest(x)' = UseRequest(x)
        /\ \A j : Dropped(j)' <=> Dropped(j)
    BY <1>4 DEF UseRequest, Dropped
  <2>2. \A q \in Procs : pc'[q] # "idle" => pc[q] # "idle"
    BY <1>1, <1>4
  <2> QED BY <1>2, <1>4, <2>1, <2>2, ProcFacts DEF Asks, CloseRequest
<1>11. InStep'
  BY <1>1, <1>3, <1>4 DEF InStep, Waits
<1>12. ~Lost => Seen'
  <2> SUFFICES ASSUME ~Lost, NEW x \in Tasks, pc'[<<"use", x>>] # "reply"
               PROVE  got[x] \in {None, [cursor |-> handle[x], moves |-> Moves(x, asked'[x])]}
    BY <1>4 DEF Seen, Moves
  <2>1. p # <<"use", x>> /\ pc[<<"use", x>>] # "reply"
    BY <1>4, ProcFacts
  <2>2. asked'[x] = asked[x]
    BY <1>7, <2>1
  <2> QED BY <1>2, <2>1, <2>2 DEF Seen
<1>13. ~Lost => Executed'
  <2> SUFFICES ASSUME ~Lost, NEW x \in Tasks, handle[x] # None
               PROVE  /\ Unseen(x)' <= asked'[x]
                      /\ cursors[handle[x]] = Moves(x, asked'[x] - Unseen(x)')
    BY <1>4 DEF Executed, Moves
  <2>1. asked[x] \in Nat /\ Unseen(x) = 0 /\ cursors[handle[x]] = Moves(x, asked[x])
    BY <1>2, <1>3 DEF Cells, Executed, Unseen, Failing
  <2>2. CASE p = <<"use", x>>
    <3>1. Unseen(x)' = 1 /\ asked'[x] = asked[x] + 1
      BY <1>1, <1>4, <1>7, <2>2 DEF Unseen
    <3>2. asked'[x] - Unseen(x)' = asked[x] /\ Unseen(x)' <= asked'[x]
      BY <2>1, <3>1
    <3> QED BY <2>1, <3>2
  <2>3. CASE p # <<"use", x>>
    <3>1. Unseen(x)' = 0 /\ asked'[x] = asked[x]
      BY <1>1, <1>4, <1>7, <2>3 DEF Unseen
    <3>2. asked'[x] - Unseen(x)' = asked[x] /\ Unseen(x)' <= asked'[x]
      BY <2>1, <3>1
    <3> QED BY <2>1, <3>2
  <2> QED BY <2>2, <2>3
<1>14. ~Lost => Kept'
  <2>1. \A x \in Tasks : pc[<<"close", x>>] # "idle" => pc'[<<"close", x>>] # "idle"
    BY <1>4, ProcFacts
  <2> QED BY <1>1, <1>2, <1>4, <2>1 DEF Kept
<1> QED BY <1>1, <1>4, <1>8, <1>9, <1>10, <1>11, <1>12, <1>13, <1>14 DEF Own

\* The holder of io takes its reply.
LEMMA ReceiveOwn ==
  ASSUME IInv, Own, dropped = 0, NEW p \in Procs, Receive(p), down # <<>>
  PROVE  Own'
<1> USE DEF serverVars, ends
<1>1. client # "opening" /\ lock = p /\ pc[p] = "reply"
  BY DEF Receive, IInv, Opening, LockHeld
<1>2. /\ Cells /\ Held /\ Asks /\ InStep
      /\ ~Lost => Seen /\ Kept /\ (Failing \/ Executed)
  BY <1>1 DEF Own
<1>3. Tail(down) = <<>> /\ (~Lost => up = <<>> /\ server # "reply")
  BY <1>1, <1>2, Alone DEF InStep
<1>0. PICK a : a = Head(down)
  OBVIOUS
<1>4. Waits /\ IsAnswer(a)
  BY <1>0, <1>2 DEF InStep
<1>5. /\ down' = <<>> /\ lock' = Nobody
      /\ \A q \in Procs : pc'[q] = IF q = p THEN "idle" ELSE pc[q]
      /\ handle' = (IF p[1] = "use" /\ request[p].op = "Open"
                    THEN [handle EXCEPT ![p[2]] = a.cursor] ELSE handle)
      /\ got' = (IF p[1] = "use" /\ request[p].op = "Move"
                 THEN [got EXCEPT ![p[2]] = a] ELSE got)
      /\ UNCHANGED <<client, request, up, server, reply, cursors, asked, dropped>>
      /\ (Lost' <=> Lost)
  BY <1>0, <1>1, <1>3 DEF Receive, Unlock, IInv, Shape, Lost
<1>6. InStep'
  BY <1>3, <1>5 DEF InStep
<1>7. ~Lost => Executed /\ \A x \in Tasks : Unseen(x)' = 0 /\ Unseen(x) = 0
  BY <1>2, <1>3, <1>5 DEF Unseen, Failing
<1>8. \A q \in Procs : pc'[q] # "idle" => pc[q] # "idle" /\ q # p
  BY <1>5
<1>9. ASSUME NEW t \in Tasks, p = <<"use", t>>, handle[t] = None PROVE Own'
  <2>0. PICK c : c = a.cursor
    OBVIOUS
  <2>1. /\ c \in DOMAIN cursors /\ Unheld(c) /\ (~Lost => cursors[c] = <<>>)
        /\ request[p].op = "Open" /\ p[1] = "use" /\ p[2] = t
    BY <1>1, <1>2, <1>4, <1>9, <2>0, HolderAsks, ProcFacts DEF IsAnswer
  <2>2. got' = got /\ handle' = [handle EXCEPT ![t] = c] /\ c \in Nat /\ c # None
    BY <1>2, <1>5, <2>0, <2>1, CursorIds
  <2>3. \A x \in Tasks : handle'[x] = IF x = t THEN c ELSE handle[x]
    BY <1>2, <2>2 DEF Cells
  <2>4. Cells'
    BY <1>2, <1>5, <2>2 DEF Cells
  <2>5. Held'
    <3>1. \A x \in Tasks : handle[x] # c
      BY <2>1 DEF Unheld
    <3> QED BY <1>2, <1>5, <2>1, <2>2, <2>3, <3>1 DEF Held
  <2>6. Asks'
    <3>1. ASSUME NEW x \in Tasks, pc'[<<"use", x>>] # "idle"
          PROVE  request'[<<"use", x>>] = UseRequest(x)'
      <4>1. x # t /\ pc[<<"use", x>>] # "idle"
        BY <1>8, <1>9, <3>1, ProcFacts
      <4>2. UseRequest(x)' = UseRequest(x)
        BY <2>3, <4>1 DEF UseRequest
      <4> QED BY <1>2, <1>5, <4>1, <4>2 DEF Asks
    <3>2. ASSUME NEW x \in Tasks, pc'[<<"close", x>>] # "idle"
          PROVE  \E j : request'[<<"close", x>>] = CloseRequest(j, x) /\ Dropped(j)'
      <4>1. pc[<<"close", x>>] # "idle"
        BY <1>8, <3>2, ProcFacts
      <4>2. PICK j : request[<<"close", x>>] = CloseRequest(j, x) /\ Dropped(j)
        BY <1>2, <4>1 DEF Asks
      <4>3. j # c
        BY <2>1, <4>1, <4>2 DEF Unheld, CloseRequest
      <4>4. Dropped(j)'
        BY <1>5, <2>3, <4>2, <4>3 DEF Dropped
      <4> QED BY <1>5, <4>2, <4>4
    <3> QED BY <3>1, <3>2 DEF Asks, CloseRequest
  <2>7. ~Lost => Seen'
    <3> SUFFICES ASSUME ~Lost, NEW x \in Tasks, pc'[<<"use", x>>] # "reply"
                 PROVE  got[x] \in {None, [cursor |-> handle'[x], moves |-> Moves(x, asked[x])]}
      BY <1>5, <2>2 DEF Seen, Moves
    <3>1. CASE x = t
      BY <1>2, <1>9, <3>1 DEF Held
    <3>2. CASE x # t
      <4>1. pc[<<"use", x>>] # "reply"
        BY <1>5, <1>9, <3>2, ProcFacts
      <4> QED BY <1>2, <2>3, <3>2, <4>1 DEF Seen
    <3> QED BY <3>1, <3>2
  <2>8. ~Lost => Executed'
    <3> SUFFICES ASSUME ~Lost, NEW x \in Tasks, handle'[x] # None
                 PROVE  0 <= asked[x] /\ cursors[handle'[x]] = Moves(x, asked[x] - 0)
      BY <1>5, <1>7 DEF Executed, Moves
    <3>0. asked[x] \in Nat /\ asked[x] - 0 = asked[x]
      BY <1>2 DEF Cells
    <3>1. CASE x = t
      <4>1. asked[x] = 0
        BY <1>2, <1>9, <3>1 DEF Held
      <4>2. Moves(x, 0) = <<>>
        BY DEF Moves
      <4> QED BY <2>1, <2>3, <3>0, <3>1, <4>1, <4>2
    <3>2. CASE x # t
      BY <1>2, <1>7, <2>3, <3>0, <3>2 DEF Executed
    <3> QED BY <3>1, <3>2
  <2>9. ~Lost => Kept'
    <3> SUFFICES ASSUME ~Lost, NEW j \in DOMAIN cursors, cursors[j] # None
                 PROVE  \/ \E x \in Tasks : handle'[x] = j
                        \/ \E x \in Tasks : pc'[<<"close", x>>] # "idle" /\ request[<<"close", x>>].cursor = j
      BY <1>5 DEF Kept
    <3>1. CASE \E x \in Tasks : handle[x] = j
      <4>1. PICK x \in Tasks : handle[x] = j
        BY <3>1
      <4>2. x # t
        BY <1>2, <1>9, <4>1, CursorIds
      <4> QED BY <2>3, <4>1, <4>2
    <3>2. CASE \E x \in Tasks : pc[<<"close", x>>] # "idle" /\ request[<<"close", x>>].cursor = j
      BY <1>5, <1>9, <3>2, ProcFacts
    <3>3. CASE a.cursor = j
      BY <2>0, <2>3, <3>3
    <3> QED BY <1>0, <1>2, <1>3, <3>1, <3>2, <3>3 DEF Kept
  <2> QED BY <1>1, <1>5, <1>6, <2>4, <2>5, <2>6, <2>7, <2>8, <2>9 DEF Own
<1>10. ASSUME handle' = handle, DOMAIN got' = Tasks,
              \A x \in Tasks : handle[x] = None => got'[x] = got[x],
              ~Lost => Seen', ~Lost => Kept'
       PROVE  Own'
  <2>1. Cells'
    BY <1>2, <1>5, <1>10 DEF Cells
  <2>2. Held'
    BY <1>2, <1>5, <1>10 DEF Held
  <2>3. Asks'
    <3>1. /\ \A x : UseRequest(x)' = UseRequest(x)
          /\ \A j : Dropped(j)' <=> Dropped(j)
      BY <1>5, <1>10 DEF UseRequest, Dropped
    <3> QED BY <1>2, <1>5, <1>8, <3>1, ProcFacts DEF Asks, CloseRequest
  <2>4. ~Lost => Executed'
    BY <1>2, <1>5, <1>7, <1>10 DEF Executed, Moves
  <2> QED BY <1>1, <1>5, <1>6, <1>10, <2>1, <2>2, <2>3, <2>4 DEF Own
<1>11. ASSUME NEW t \in Tasks, p = <<"use", t>>, handle[t] # None PROVE Own'
  <2>1. request[p].op = "Move" /\ p[1] = "use" /\ p[2] = t
        /\ a = [cursor |-> handle[t], moves |-> Moves(t, asked[t])]
    BY <1>1, <1>2, <1>4, <1>11, HolderAsks, ProcFacts DEF IsAnswer
  <2>2. handle' = handle /\ got' = [got EXCEPT ![t] = a] /\ DOMAIN got' = Tasks
    BY <1>2, <1>5, <2>1 DEF Cells
  <2>3. \A x \in Tasks : got'[x] = IF x = t THEN a ELSE got[x]
    BY <1>2, <2>2 DEF Cells
  <2>4. ~Lost => Seen'
    <3> SUFFICES ASSUME ~Lost, NEW x \in Tasks, pc'[<<"use", x>>] # "reply"
                 PROVE  got'[x] \in {None, [cursor |-> handle[x], moves |-> Moves(x, asked[x])]}
      BY <1>5, <2>2 DEF Seen, Moves
    <3>1. CASE x = t
      BY <2>1, <2>3, <3>1
    <3>2. CASE x # t
      <4>1. pc[<<"use", x>>] # "reply"
        BY <1>5, <1>11, <3>2, ProcFacts
      <4> QED BY <1>2, <2>3, <3>2, <4>1 DEF Seen
    <3> QED BY <3>1, <3>2
  <2>5. ~Lost => Kept'
    <3> SUFFICES ASSUME ~Lost, NEW j \in DOMAIN cursors, cursors[j] # None
                 PROVE  \/ \E x \in Tasks : handle[x] = j
                        \/ \E x \in Tasks : pc'[<<"close", x>>] # "idle" /\ request[<<"close", x>>].cursor = j
      BY <1>5, <2>2 DEF Kept
    <3>1. \A x \in Tasks : pc'[<<"close", x>>] = pc[<<"close", x>>]
      BY <1>5, <1>11, ProcFacts
    <3>2. request[lock].op # "Open"
      BY <1>1, <2>1
    <3>3. \/ \E x \in Tasks : handle[x] = j
          \/ \E x \in Tasks : pc[<<"close", x>>] # "idle" /\ request[<<"close", x>>].cursor = j
      BY <1>2, <3>2 DEF Kept
    <3> QED BY <3>1, <3>3
  <2> QED BY <1>10, <1>11, <2>2, <2>3, <2>4, <2>5
<1>12. ASSUME NEW t \in Tasks, p = <<"close", t>> PROVE Own'
  <2>1. request[p].op = "Close" /\ (~Lost => cursors[request[p].cursor] = None)
    BY <1>1, <1>2, <1>4, <1>12, HolderAsks, ProcFacts DEF IsAnswer
  <2>2. handle' = handle /\ got' = got
    BY <1>5, <2>1
  <2>3. ~Lost => Seen'
    <3>1. \A x \in Tasks : pc'[<<"use", x>>] = pc[<<"use", x>>]
      BY <1>5, <1>12, ProcFacts
    <3> QED BY <1>2, <1>5, <2>2, <3>1 DEF Seen, Moves
  <2>4. ~Lost => Kept'
    <3> SUFFICES ASSUME ~Lost, NEW j \in DOMAIN cursors, cursors[j] # None
                 PROVE  \/ \E x \in Tasks : handle[x] = j
                        \/ \E x \in Tasks : pc'[<<"close", x>>] # "idle" /\ request[<<"close", x>>].cursor = j
      BY <1>5, <2>2 DEF Kept
    <3>1. CASE \E x \in Tasks : pc[<<"close", x>>] # "idle" /\ request[<<"close", x>>].cursor = j
      <4>1. PICK x \in Tasks : pc[<<"close", x>>] # "idle" /\ request[<<"close", x>>].cursor = j
        BY <3>1
      <4>2. <<"close", x>> # p
        BY <2>1, <4>1
      <4> QED BY <1>5, <4>1, <4>2, ProcFacts
    <3> QED BY <1>1, <1>2, <2>1, <3>1 DEF Kept
  <2> QED BY <1>2, <1>10, <2>2, <2>3, <2>4 DEF Cells
<1> QED BY <1>9, <1>11, <1>12, ProcFacts

\* A function on 1 .. n is a sequence.
LEMMA FunSeq ==
  ASSUME NEW n \in Nat, NEW f, f = [i \in 1 .. n |-> f[i]]
  PROVE  IsSeq(f)
<1> DEFINE S == {f[i] : i \in 1 .. n}
<1>1. f \in [1 .. n -> S]
  OBVIOUS
<1>2. [1 .. n -> S] \subseteq Seq(S)
  OBVIOUS
<1> QED BY <1>1, <1>2 DEF IsSeq

\* One more operation of a cursor.
LEMMA OneMove ==
  ASSUME NEW t, NEW n \in Nat
  PROVE  Append(Moves(t, n), t) = Moves(t, n + 1)
<1> DEFINE s == Moves(t, n)
           r == Moves(t, n + 1)
<1>1. s \in Seq({t}) /\ Len(s) = n /\ \A i \in 1 .. n : s[i] = t
  BY DEF Moves
<1>2. r \in Seq({t}) /\ Len(r) = n + 1 /\ \A i \in 1 .. (n + 1) : r[i] = t
  BY DEF Moves
<1>3. /\ Append(s, t) \in Seq({t}) /\ Len(Append(s, t)) = n + 1
      /\ \A i \in 1 .. (n + 1) : Append(s, t)[i] = t
  <2> HIDE DEF s
  <2> QED BY <1>1
<1> HIDE DEF s, r
<1>4. Append(s, t) = r
  BY <1>2, <1>3
<1> QED BY <1>4 DEF s, r

\* What serving a request does to the cursors: a new one is the last one.
LEMMA ServeCursors ==
  ASSUME IInv, Own, dropped = 0, Serve
  PROVE  /\ IsSeq(cursors') /\ DOMAIN cursors \subseteq DOMAIN cursors'
         /\ server' = "reply" /\ (Lost' <=> Lost)
<1>0. Lost' <=> Lost
  BY DEF Serve, ends, Lost
<1>1. IsSeq(cursors)
  BY DEF Own, Cells
<1>2. DOMAIN cursors = 1 .. Len(cursors) /\ Len(cursors) \in Nat
  BY Zenon, <1>1, ShortSeq, LenNat
<1>3. PICK n \in Nat : n = Len(cursors)
  BY <1>2
<1>4. PICK r : r = Head(up)
  OBVIOUS
<1>5. CASE /\ r.op = "Open"
           /\ Reply([cursor |-> NewCursor, moves |-> <<>>],
                    [i \in DOMAIN cursors \cup {NewCursor} |->
                       IF i = NewCursor THEN <<>> ELSE cursors[i]])
  <2>1. DOMAIN cursors \cup {NewCursor} = 1 .. (n + 1)
    BY <1>2, <1>3 DEF NewCursor
  <2>2. cursors' = [i \in 1 .. (n + 1) |-> cursors'[i]] /\ DOMAIN cursors' = 1 .. (n + 1)
    BY <1>5, <2>1 DEF Reply
  <2>3. IsSeq(cursors')
    <3>1. PICK f : f = cursors'
      OBVIOUS
    <3>2. f = [i \in 1 .. (n + 1) |-> f[i]]
      BY <2>2, <3>1
    <3> QED BY <3>1, <3>2, FunSeq
  <2>4. DOMAIN cursors \subseteq DOMAIN cursors'
    BY <1>2, <1>3, <2>2
  <2> QED BY <1>0, <1>5, <2>3, <2>4 DEF Reply
<1>6. ASSUME DOMAIN cursors' = DOMAIN cursors, cursors' = [i \in DOMAIN cursors |-> cursors'[i]]
      PROVE  IsSeq(cursors') /\ DOMAIN cursors \subseteq DOMAIN cursors'
  <2>1. PICK f : f = cursors'
    OBVIOUS
  <2>2. f = [i \in 1 .. n |-> f[i]]
    BY <1>2, <1>3, <1>6, <2>1
  <2> QED BY <1>6, <2>1, <2>2, FunSeq
<1>7. CASE \/ /\ r.op = "Move" /\ IsOpen(r.cursor)
              /\ LET moves == Append(cursors[r.cursor], r.by)
                 IN Reply([cursor |-> r.cursor, moves |-> moves],
                          [cursors EXCEPT ![r.cursor] = moves])
           \/ /\ r.op = "Close"
              /\ Reply([cursor |-> r.cursor, moves |-> <<>>],
                       [i \in DOMAIN cursors |-> IF i = r.cursor THEN None ELSE cursors[i]])
  <2>1. server' = "reply" /\ DOMAIN cursors' = DOMAIN cursors
        /\ cursors' = [i \in DOMAIN cursors |-> cursors'[i]]
    BY <1>7 DEF Reply
  <2> QED BY <1>0, <1>6, <2>1
<1>8. CASE FailReply
  BY <1>0, <1>1, <1>8 DEF FailReply
<1> QED BY <1>4, <1>5, <1>7, <1>8 DEF Serve

\* The server takes a request: that of the holder of io.
LEMMA ServeOwn ==
  ASSUME IInv, Own, dropped = 0, Serve
  PROVE  Own'
<1> USE DEF history
<1>1. client # "opening" /\ server = "loop" /\ up # <<>>
  BY DEF Serve, IInv, Opening
<1>2. /\ Cells /\ Held /\ Asks /\ InStep
      /\ ~Lost => Seen /\ Kept /\ (Failing \/ Executed)
  BY <1>1 DEF Own
<1>3. UNCHANGED <<client, lock, pc, handle, request, down, got, asked, dropped>>
      /\ (~Lost => up' = <<>> /\ down = <<>>)
  BY <1>1, Alone DEF Serve
<1>4. /\ IsSeq(cursors') /\ DOMAIN cursors \subseteq DOMAIN cursors'
      /\ server' = "reply" /\ (Lost' <=> Lost)
  BY ServeCursors
<1>5. Cells'
  BY <1>2, <1>3, <1>4 DEF Cells
<1>6. Held'
  BY <1>2, <1>3, <1>4 DEF Held
<1>7. Asks'
  <2>1. \A x : UseRequest(x)' = UseRequest(x)
    BY <1>3 DEF UseRequest
  <2>2. \A i : Dropped(i) => Dropped(i)'
    BY <1>3, <1>4 DEF Dropped
  <2> QED BY <1>2, <1>3, <2>1, <2>2 DEF Asks, CloseRequest
<1>8. CASE Lost
  <2>1. ASSUME NEW a, Waits, IsAnswer(a) PROVE Waits' /\ IsAnswer(a)'
    BY <1>3, <1>4, <1>8, <2>1 DEF IsAnswer, Waits, Unheld, Moves
  <2>2. InStep'
    BY <1>2, <1>3, <1>4, <1>8, <2>1 DEF InStep
  <2> QED BY <1>1, <1>3, <1>4, <1>5, <1>6, <1>7, <1>8, <2>2 DEF Own
<1>9. CASE ~Lost
  <2>0. PICK r : r = Head(up)
    OBVIOUS
  <2>1. ~Lost /\ Waits /\ r = request[lock] /\ Seen /\ Executed /\ Kept
    BY <1>1, <1>2, <1>4, <1>9, <2>0 DEF InStep, Failing
  <2>2. Seen'
    BY <1>3, <2>1 DEF Seen, Moves
  <2>3. \A x \in Tasks : Unseen(x)' = 0
    BY <1>3, <1>9 DEF Unseen
  <2>4. Waits'
    BY <1>3, <2>1 DEF Waits
  <2>5. DOMAIN cursors \subseteq Nat /\ None \notin DOMAIN cursors
        /\ DOMAIN cursors = 1 .. Len(cursors) /\ Len(cursors) \in Nat
    BY <1>2, CursorIds
  <2>6. \A j \in DOMAIN cursors :
          cursors[j] # None =>
            \/ \E t \in Tasks : handle[t] = j
            \/ \E t \in Tasks : pc[<<"close", t>>] # "idle" /\ request[<<"close", t>>].cursor = j
    BY <1>1, <1>3, <1>9, <2>1 DEF Kept
  <2>7. ASSUME reply' = ErrorStatus \/ IsAnswer(reply)', Failing' \/ Executed', Kept' PROVE Own'
    <3>1. InStep'
      BY <1>3, <1>9, <2>4, <2>7 DEF InStep
    <3> QED BY <1>1, <1>3, <1>5, <1>6, <1>7, <2>2, <2>7, <3>1 DEF Own
  <2>11. CASE FailReply
    <3>1. reply' = ErrorStatus /\ Failing' /\ cursors' = cursors
      BY <1>4, <2>11 DEF FailReply, Failing
    <3>2. Kept'
      BY <1>3, <2>6, <3>1 DEF Kept
    <3> QED BY <2>7, <3>1, <3>2
  <2>8. CASE r.op = "Open" /\ ~FailReply
    <3>1. PICK t \in Tasks : lock = <<"use", t>> /\ handle[t] = None
      BY <1>2, <2>1, <2>8, HolderAsks
    <3>2. PICK n \in Nat : n = NewCursor /\ n \notin DOMAIN cursors
      BY <2>5 DEF NewCursor
    <3>3. /\ server' = "reply" /\ reply' = [cursor |-> n, moves |-> <<>>]
          /\ cursors' = [i \in DOMAIN cursors \cup {n} |-> IF i = n THEN <<>> ELSE cursors[i]]
      BY <1>9, <2>0, <2>8, <3>2 DEF Serve, Reply
    <3>4. DOMAIN cursors' = DOMAIN cursors \cup {n} /\ cursors'[n] = <<>>
          /\ \A i \in DOMAIN cursors : cursors'[i] = cursors[i]
      BY <3>2, <3>3
    <3>5. \A x \in Tasks : handle[x] # n
      BY <1>2, <3>2, NoneAssumption DEF Held
    <3>6. Unheld(n)'
      <4>1. ASSUME NEW x \in Tasks, pc[<<"close", x>>] # "idle" PROVE request[<<"close", x>>].cursor # n
        <5>1. PICK i : request[<<"close", x>>] = CloseRequest(i, x) /\ Dropped(i)
          BY <1>2, <4>1 DEF Asks
        <5> QED BY <3>2, <5>1 DEF CloseRequest, Dropped
      <4> QED BY <1>3, <3>5, <4>1 DEF Unheld
    <3>7. IsAnswer(reply)'
      BY <1>3, <2>1, <2>8, <3>3, <3>4, <3>6 DEF IsAnswer
    <3>8. Executed'
      <4> SUFFICES ASSUME NEW x \in Tasks, handle[x] # None
                   PROVE  0 <= asked[x] /\ cursors'[handle[x]] = Moves(x, asked[x] - 0)
        BY <1>3, <2>3 DEF Executed, Moves
      <4>1. asked[x] \in Nat /\ handle[x] \in DOMAIN cursors
        BY <1>2 DEF Cells, Held
      <4>2. lock # <<"use", x>>
        BY <3>1, ProcFacts
      <4>3. Unseen(x) = 0
        BY <4>2 DEF Unseen
      <4> QED BY <2>1, <3>4, <4>1, <4>3 DEF Executed
    <3>9. Kept'
      <4>1. request'[lock'].op = "Open" /\ reply'.cursor = n
        BY <1>3, <2>1, <2>8, <3>3
      <4> QED BY <1>3, <2>4, <2>6, <3>3, <3>4, <4>1 DEF Kept
    <3> QED BY <2>7, <3>3, <3>7, <3>8, <3>9
  <2>9. CASE r.op = "Move" /\ ~FailReply
    <3>1. PICK t \in Tasks : /\ lock = <<"use", t>> /\ lock[2] = t /\ handle[t] # None
                             /\ r = UseRequest(t)
      BY <1>2, <2>1, <2>9, HolderAsks
    <3>2. PICK h : h = handle[t]
      OBVIOUS
    <3>3. r.cursor = h /\ r.by = t /\ h \in DOMAIN cursors /\ \A x \in Tasks \ {t} : handle[x] # h
      BY <1>2, <3>1, <3>2 DEF UseRequest, Held
    <3>4. PICK m \in Nat : m + 1 = asked[t] /\ cursors[h] = Moves(t, m)
      <4>1. Unseen(t) = 1 /\ asked[t] \in Nat
        BY <1>1, <1>2, <3>1 DEF Unseen, Cells
      <4>2. 1 <= asked[t] /\ cursors[h] = Moves(t, asked[t] - 1)
        BY <2>1, <3>1, <3>2, <4>1 DEF Executed
      <4>3. asked[t] - 1 \in Nat /\ (asked[t] - 1) + 1 = asked[t]
        BY <4>1, <4>2
      <4> QED BY <4>2, <4>3
    <3>5. Append(cursors[h], t) = Moves(t, asked[t])
      BY <3>4, OneMove
    <3>6. /\ server' = "reply" /\ reply' = [cursor |-> h, moves |-> Moves(t, asked[t])]
          /\ cursors' = [cursors EXCEPT ![h] = Moves(t, asked[t])]
      <4>1. LET moves == Append(cursors[r.cursor], r.by)
            IN Reply([cursor |-> r.cursor, moves |-> moves], [cursors EXCEPT ![r.cursor] = moves])
        BY <1>9, <2>0, <2>9 DEF Serve
      <4> QED BY <3>3, <3>5, <4>1 DEF Reply
    <3>7. DOMAIN cursors' = DOMAIN cursors /\ cursors'[h] = Moves(t, asked[t])
          /\ \A i \in DOMAIN cursors \ {h} : cursors'[i] = cursors[i]
      BY <3>3, <3>6
    <3>8. IsAnswer(reply)'
      BY <1>3, <2>1, <2>9, <3>1, <3>2, <3>6 DEF IsAnswer, Moves
    <3>9. Executed'
      <4> SUFFICES ASSUME NEW x \in Tasks, handle[x] # None
                   PROVE  0 <= asked[x] /\ cursors'[handle[x]] = Moves(x, asked[x] - 0)
        BY <1>3, <2>3 DEF Executed, Moves
      <4>1. asked[x] \in Nat /\ handle[x] \in DOMAIN cursors /\ asked[x] - 0 = asked[x] /\ 0 <= asked[x]
        BY <1>2 DEF Cells, Held
      <4>2. CASE x = t
        BY <3>2, <3>7, <4>1, <4>2
      <4>3. CASE x # t
        <5>1. lock # <<"use", x>>
          BY <3>1, <4>3, ProcFacts
        <5>2. Unseen(x) = 0
          BY <5>1 DEF Unseen
        <5> QED BY <2>1, <3>3, <3>7, <4>1, <4>3, <5>2 DEF Executed
      <4> QED BY <4>2, <4>3
    <3>10. Kept'
      <4> SUFFICES ASSUME NEW j \in DOMAIN cursors, cursors'[j] # None
                   PROVE  \/ \E x \in Tasks : handle[x] = j
                          \/ \E x \in Tasks : pc[<<"close", x>>] # "idle" /\ request[<<"close", x>>].cursor = j
        BY <1>3, <3>7 DEF Kept
      <4> QED BY <2>6, <3>2, <3>7
    <3> QED BY <2>7, <3>6, <3>8, <3>9, <3>10
  <2>10. CASE r.op = "Close"
    <3>1. PICK c : r.cursor = c /\ Dropped(c)
      BY <1>2, <2>1, <2>10, HolderAsks
    <3>2. /\ server' = "reply"
          /\ cursors' = [i \in DOMAIN cursors |-> IF i = c THEN None ELSE cursors[i]]
      BY <1>9, <2>0, <2>10, <3>1 DEF Serve, Reply
    <3>3. DOMAIN cursors' = DOMAIN cursors /\ cursors'[c] = None /\ \A x \in Tasks : handle[x] # c
      BY <3>1, <3>2 DEF Dropped
    <3>4. IsAnswer(reply)'
      BY <1>3, <2>1, <2>10, <3>1, <3>3 DEF IsAnswer
    <3>5. Executed'
      <4> SUFFICES ASSUME NEW x \in Tasks, handle[x] # None
                   PROVE  0 <= asked[x] /\ cursors'[handle[x]] = Moves(x, asked[x] - 0)
        BY <1>3, <2>3 DEF Executed, Moves
      <4>1. asked[x] \in Nat /\ handle[x] \in DOMAIN cursors /\ handle[x] # c
        BY <1>2, <3>3 DEF Cells, Held
      <4>2. lock # <<"use", x>>
        BY <1>2, <2>1, <2>10, HolderAsks, ProcFacts
      <4>3. Unseen(x) = 0
        BY <4>2 DEF Unseen
      <4> QED BY <2>1, <3>2, <4>1, <4>3 DEF Executed
    <3>6. Kept'
      <4> SUFFICES ASSUME NEW j \in DOMAIN cursors, cursors'[j] # None
                   PROVE  \/ \E x \in Tasks : handle[x] = j
                          \/ \E x \in Tasks : pc[<<"close", x>>] # "idle" /\ request[<<"close", x>>].cursor = j
        BY <1>3, <3>3 DEF Kept
      <4> QED BY <2>6, <3>2
    <3> QED BY <2>7, <3>2, <3>4, <3>5, <3>6
  <2> QED BY <1>2, <2>1, <2>8, <2>9, <2>10, <2>11, HolderAsks
<1> QED BY <1>8, <1>9

\* The server puts its reply into the channel.
LEMMA SendReplyOwn ==
  ASSUME IInv, Own, dropped = 0, SendReply
  PROVE  Own'
<1> USE DEF history
<1>1. client # "opening" /\ server = "reply"
  BY DEF SendReply, IInv, Opening
<1>2. /\ UNCHANGED <<client, lock, pc, handle, request, up, cursors, got, asked, dropped>>
      /\ server' = "loop"
      /\ down' = IF Unread \/ reply = ErrorStatus THEN down ELSE Append(down, reply)
      /\ (Lost => Lost') /\ (reply = ErrorStatus => Lost') /\ (Lost' => Lost \/ reply = ErrorStatus)
  BY DEF SendReply, Lost
<1>3. \A a : IsAnswer(a) => IsAnswer(a)'
  BY <1>2, AnswerStays
<1>4. CASE Lost'
  <2>1. down' = down
    BY <1>2, <1>4 DEF Unread
  <2>2. InStep'
    BY <1>1, <1>2, <1>3, <1>4, <2>1 DEF Own, InStep, Waits
  <2> QED BY <1>2, <1>4, <2>2, CellsStay
<1>5. CASE ~Lost'
  <2>1. ~Lost /\ reply # ErrorStatus
    BY <1>2, <1>5
  <2>2. Waits /\ IsAnswer(reply) /\ Kept
    BY <1>1, <2>1 DEF Own, InStep
  <2>3. ~Abandoned
    <3>1. PICK t \in Tasks : lock = <<"use", t>> \/ lock = <<"close", t>>
      BY <2>2, ProcFacts DEF Waits
    <3> QED BY <2>2, <3>1 DEF Abandoned, Waits, IInv, Gone
  <2>4. down = <<>> /\ up = <<>>
    BY <1>1, <2>1, Alone
  <2>5. down' # <<>> /\ Head(down') = reply /\ Tail(down') = <<>>
    BY <1>2, <2>1, <2>3, <2>4, OneMessage DEF Unread
  <2>6. InStep'
    BY <1>2, <1>3, <2>2, <2>4, <2>5 DEF InStep, Waits
  <2>7. ASSUME NEW i \in DOMAIN cursors, cursors[i] # None
        PROVE  \/ \E t \in Tasks : handle[t] = i
               \/ \E t \in Tasks : pc[<<"close", t>>] # "idle" /\ request[<<"close", t>>].cursor = i
               \/ Waits /\ request[lock].op = "Open" /\ Head(down').cursor = i
    BY <2>2, <2>4, <2>5, <2>7 DEF Kept
  <2>8. Kept'
    BY <1>2, <2>5, <2>7 DEF Kept, Waits
  <2>9. ~Failing
    BY <2>1 DEF Failing
  <2> QED BY <1>2, <2>6, <2>8, <2>9, CellsStay
<1> QED BY <1>4, <1>5

\* Once an operation has been dropped half-way nothing more is claimed.
LEMMA DroppedOwn ==
  ASSUME dropped # 0, dropped \in Nat, client # "opening", [Next]_vars
  PROVE  Own'
<1> USE DEF history, serverVars
<1>1. dropped' \in {dropped, dropped + 1}
  BY DEF Next, vars, Open, DropTransaction, Break, Start, Cancel, DropCursor, Lock, Send,
         Receive, Begin, Serve, SendReply, EndServer
<1>2. client' # "opening"
  BY DEF Next, vars, Open, DropTransaction, Break, Start, Cancel, DropCursor, Lock, Send,
         Receive, Begin, Serve, SendReply, EndServer
<1>3. dropped' # 0
  BY <1>1
<1> QED BY <1>2, <1>3 DEF Own

\* Every step keeps it.
LEMMA OwnStep == IInv /\ Own /\ [Next]_vars => Own'
<1> SUFFICES ASSUME IInv, Own, [Next]_vars PROVE Own'
  OBVIOUS
<1>1. CASE dropped # 0
  <2>1. dropped \in Nat /\ client # "opening"
    BY <1>1 DEF Own, IInv, Shape
  <2> QED BY <1>1, <2>1, DroppedOwn
<1>2. CASE dropped = 0
  <2>1. CASE UNCHANGED vars
    <3>1. UNCHANGED <<client, lock, pc, handle, request, up, down, server, reply, cursors,
                      got, asked, dropped>>
          /\ (Lost' <=> Lost) /\ (Failing' <=> Failing)
      BY <2>1 DEF vars, Lost, Failing
    <3>2. client # "opening" => InStep'
      BY <1>2, <3>1, AnswerStays DEF InStep, Waits, Own
    <3>3. ~Lost => Kept'
      BY <1>2, <3>1 DEF Own, Kept, Waits
    <3> QED BY <1>2, <3>1, <3>2, <3>3, CellsStay
  <2>2. ASSUME NEW t \in Tasks, Start(t) \/ Cancel(t) \/ DropCursor(t) PROVE Own'
    BY <1>2, <2>2, PlaceOwn, DropCursorOwn
  <2>3. ASSUME NEW p \in Procs, Lock(p) \/ Send(p) \/ Receive(p) PROVE Own'
    BY <1>2, <2>3, PlaceOwn, SendOwn, ReceiveOwn
  <2>4. CASE Serve \/ SendReply
    BY <1>2, <2>4, ServeOwn, SendReplyOwn
  <2> QED BY <1>2, <2>1, <2>2, <2>3, <2>4, OuterOwn DEF Next
<1> QED BY <1>1, <1>2

\* RemoteCursor: for any number of tasks, operations and places in the
\* channels, a task has a cursor of its own and gets the answers of that cursor
\* to what it has asked for, and no cursor stays open at the server without
\* somebody who holds it, closes it or awaits it, until an operation is dropped
\* half-way.
THEOREM AnswersAreOwn == Spec => []OwnAnswers
<1>1. IInv /\ Own => OwnAnswers
  <2> SUFFICES ASSUME IInv, Own, dropped = 0 PROVE OwnAnswers
    BY DEF OwnAnswers, CursorsOwned
  <2>1. Held /\ Asks /\ (~Lost => Seen /\ Kept)
    BY DEF Own
  <2>2. CursorsOwned
    <3> SUFFICES ASSUME ~Lost, NEW i \in DOMAIN cursors, cursors[i] # None,
                        Waits, request[lock].op = "Open"
                 PROVE  \E t \in Tasks : pc[<<"use", t>>] = "reply" /\ request[<<"use", t>>].op = "Open"
      BY <2>1 DEF CursorsOwned, Kept
    <3>1. PICK t \in Tasks : lock = <<"use", t>>
      BY <2>1, HolderAsks
    <3> QED BY <3>1 DEF Waits
  <2>3. ASSUME NEW t \in Tasks, got[t] # None, pc[<<"use", t>>] = "idle", ~Lost
        PROVE  got[t] = [cursor |-> handle[t], moves |-> Moves(t, asked[t])]
    BY <2>1, <2>3 DEF Seen
  <2>4. \A t \in Tasks : \A u \in Tasks \ {t} : handle[t] = None \/ handle[u] # handle[t]
    BY <2>1 DEF Held
  <2> QED BY <2>2, <2>3, <2>4 DEF OwnAnswers, Moves
<1> QED BY <1>1, InitInv, StepInv, InitOwn, OwnStep, PTL DEF Spec
=============================================================================
