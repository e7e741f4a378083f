------------------------- MODULE SentryReactorProofs -------------------------
(***************************************************************************)
(* What SentryReactor's safety properties rest on, for any number of       *)
(* subscribers, message ids, commands, failures and updates of the status. *)
(***************************************************************************)
EXTENDS SentryReactor, FiniteSetTheorems, TLAPS

-----------------------------------------------------------------------------
(* Why the loop dies *)

\* The queue is closed before anything else is dropped, so that a caller that
\* finds no sender can tell whether the loop still runs; and while it does,
\* only the end of the message stream has taken the senders away.
LoopInv ==
  /\ subs \in [Subscribers -> [state : {"none", "open", "refused", "empty", "ended"},
                               id : Ids, pos : Nat]]
  /\ arrived \in [Ids -> Nat]
  /\ ~Running => closed
  /\ Running /\ ~senders => receiveEnded
  /\ DiesKnown

LEMMA LoopInit == Init => LoopInv
BY DEF Init, LoopInv, DiesKnown, Running

LEMMA LoopStep == LoopInv /\ [Next]_vars => LoopInv'
<1> SUFFICES ASSUME LoopInv, [Next]_vars PROVE LoopInv'
  OBVIOUS
<1> USE DEF LoopInv, DiesKnown, Running, wire, commands, bus, rest
<1>1. CASE Start \/ Accept \/ Stop \/ UpdateStatus \/ Break
  BY <1>1 DEF Start, Accept, Stop, UpdateStatus, Break
<1>2. ASSUME NEW s \in Subscribers, Subscribe(s) PROVE LoopInv'
  <2> DEFINE new == IF senders THEN "open" ELSE IF closed THEN "refused" ELSE "empty"
  <2>1. subs' = [subs EXCEPT ![s] = [state |-> new, id |-> subs[s].id,
                                     pos |-> arrived[subs[s].id]]]
    BY <1>2 DEF Subscribe
  <2>2. new \in {"open", "refused", "empty"} /\ (new = "empty" => ~senders /\ ~closed)
    OBVIOUS
  <2>3. subs' \in [Subscribers -> [state : {"none", "open", "refused", "empty", "ended"},
                                   id : Ids, pos : Nat]]
    BY <2>1, <2>2
  <2>4. \A u \in Subscribers : subs'[u].state = "empty" =>
          subs[u].state = "empty" \/ (~senders /\ ~closed)
    BY <2>1, <2>2
  <2>5. UNCHANGED <<loop, closed, senders, receiveEnded, subscribeFailed, stopping,
                    stageFailed, connector, arrived>>
    BY <1>2 DEF Subscribe
  <2> QED BY <2>3, <2>4, <2>5
<1>3. ASSUME NEW s \in Subscribers, Read(s) \/ ReadEnd(s) PROVE LoopInv'
  <2>1. PICK state \in {"open", "ended"}, pos \in Nat :
          subs' = [subs EXCEPT ![s] = [@ EXCEPT !.state = state, !.pos = pos]]
    <3>1. subs[s] \in [state : {"none", "open", "refused", "empty", "ended"},
                       id : Ids, pos : Nat] /\ arrived[subs[s].id] \in Nat
      OBVIOUS
    <3>2. CASE Read(s)
      <4> DEFINE pos == IF arrived[subs[s].id] - subs[s].pos > Capacity
                        THEN arrived[subs[s].id] - Capacity + 1 ELSE subs[s].pos + 1
      <4>1. pos \in Nat
        BY <3>1, ReactorAssumption
      <4>2. subs[s].state = "open" /\ subs' = [subs EXCEPT ![s].pos = pos]
        BY <3>2 DEF Read
      <4>3. [subs[s] EXCEPT !.pos = pos] = [subs[s] EXCEPT !.state = "open", !.pos = pos]
        BY <3>1, <4>2
      <4> QED BY <4>1, <4>2, <4>3
    <3>3. CASE ReadEnd(s)
      <4>1. subs' = [subs EXCEPT ![s].state = "ended"]
        BY <3>3 DEF ReadEnd
      <4>2. [subs[s] EXCEPT !.state = "ended"]
              = [subs[s] EXCEPT !.state = "ended", !.pos = subs[s].pos]
        BY <3>1
      <4> QED BY <3>1, <4>1, <4>2
    <3> QED BY <1>3, <3>2, <3>3
  <2>2. subs' \in [Subscribers -> [state : {"none", "open", "refused", "empty", "ended"},
                                   id : Ids, pos : Nat]]
    BY <2>1
  <2>3. \A u \in Subscribers : subs'[u].state = "empty" => subs[u].state = "empty"
    BY <2>1
  <2>4. UNCHANGED <<loop, closed, senders, receiveEnded, subscribeFailed, stopping,
                    stageFailed, connector, arrived>>
    BY <1>3 DEF Read, ReadEnd
  <2> QED BY <2>2, <2>3, <2>4
<1>4. CASE \E id \in Ids : Receive(id)
  BY <1>4 DEF Receive, Return, Close, Polled
<1>5. CASE (\E id \in Ids : ReceiveUndecoded(id)) \/ UNCHANGED vars
  BY <1>5 DEF ReceiveUndecoded, vars
<1>6. CASE Connector
  BY <1>6 DEF Connector, ReadStatus, Connect, ConnectFails
<1>7. CASE LoopSentry \/ LoopSentryFails \/ MakeStreams
  BY <1>7 DEF LoopSentry, LoopSentryFails, MakeStreams, Polled
<1>8. CASE MakeStreamsFails
  BY <1>8 DEF MakeStreamsFails
<1>9. CASE SendTake \/ Sent \/ SendFails \/ SendDisconnected \/ ReceiveDisconnected
  BY <1>9 DEF SendTake, Sent, SendFails, SendDisconnected, ReceiveDisconnected,
              LoseSending, Reconnect
<1>10. CASE ReceiveEnds
  BY <1>10 DEF ReceiveEnds
<1>11. CASE LoopStop \/ DropSenders
  BY <1>11 DEF LoopStop, DropSenders, Return, Close
<1> QED
  BY <1>1, <1>2, <1>3, <1>4, <1>5, <1>6, <1>7, <1>8, <1>9, <1>10, <1>11
  DEF Next, Loop

\* SentryClientReactorEventLoop::run ends, HeaderDownload::execute fails on the
\* status and receive_messages gives an empty stream for the known reasons only.
THEOREM DiesAsKnown == Spec => []DiesKnown
<1>1. LoopInv => DiesKnown
  BY DEF LoopInv
<1> QED BY <1>1, LoopInit, LoopStep, PTL DEF Spec

-----------------------------------------------------------------------------
(* The status *)

\* The connector stream does not move while a connection made by it is used;
\* what it holds is not older than the end of the connection before.
StatusInv ==
  /\ status \in Nat /\ since \in Nat /\ attempt \in Nat /\ announced \in Nat
  /\ since <= status
  /\ connector = "connecting" => attempt >= since
  /\ connector = "ready" => announced >= since
  /\ loop = "subscribing" \/ "Send" \in streams \/ "Receive" \in streams =>
       /\ announced >= since
       /\ "Sentry" \notin streams
       /\ connector = "idle"

LEMMA StatusInit == Init => StatusInv
BY DEF Init, StatusInv

LEMMA StatusStep == StatusInv /\ [Next]_vars => StatusInv'
<1> SUFFICES ASSUME StatusInv, [Next]_vars PROVE StatusInv'
  OBVIOUS
<1> USE DEF StatusInv, Polled, wire, commands, bus, rest
<1>1. CASE Start \/ Accept \/ Stop \/ UpdateStatus \/ Break
  BY <1>1 DEF Start, Accept, Stop, UpdateStatus, Break
<1>2. CASE \E s \in Subscribers : Subscribe(s) \/ Read(s) \/ ReadEnd(s)
  BY <1>2 DEF Subscribe, Read, ReadEnd
<1>3. CASE \E id \in Ids : Receive(id)
  BY <1>3 DEF Receive, Return, Close
<1>4. CASE (\E id \in Ids : ReceiveUndecoded(id)) \/ UNCHANGED vars
  BY <1>4 DEF ReceiveUndecoded, vars
<1>5. CASE Connector
  BY <1>5 DEF Connector, ReadStatus, Connect, ConnectFails
<1>6. CASE LoopSentry \/ LoopSentryFails \/ MakeStreams
  BY <1>6 DEF LoopSentry, LoopSentryFails, MakeStreams
<1>7. CASE MakeStreamsFails \/ LoopStop \/ DropSenders
  BY <1>7 DEF MakeStreamsFails, LoopStop, DropSenders, Return, Close
<1>8. CASE SendTake \/ Sent \/ SendFails
  BY <1>8 DEF SendTake, Sent, SendFails, LoseSending
<1>9. CASE SendDisconnected \/ ReceiveDisconnected
  BY <1>9 DEF SendDisconnected, ReceiveDisconnected, LoseSending, Reconnect
<1>10. CASE ReceiveEnds
  BY <1>10 DEF ReceiveEnds
<1> QED
  BY <1>1, <1>2, <1>3, <1>4, <1>5, <1>6, <1>7, <1>8, <1>9, <1>10 DEF Next, Loop

\* Although connect() retries with the status it was called with, no connection
\* is used whose status is older than the end of the one before.
THEOREM StatusNeverOlder == Spec => []StatusFresh
<1>1. StatusInv => StatusFresh
  BY DEF StatusInv, StatusFresh
<1> QED BY <1>1, StatusInit, StatusStep, PTL DEF Spec

-----------------------------------------------------------------------------
(* The commands *)

LEMMA AppendedSet ==
  ASSUME NEW q \in Seq(Nat), NEW x \in Nat
  PROVE  ToSet(Append(q, x)) = ToSet(q) \cup {x}
<1> DEFINE r == Append(q, x)
<1>1. /\ DOMAIN r = (DOMAIN q) \cup {Len(q) + 1} /\ r[Len(q) + 1] = x
      /\ \A i \in DOMAIN q : r[i] = q[i]
  OBVIOUS
<1> HIDE DEF r
<1>2. ToSet(r) = ToSet(q) \cup {x}
  BY <1>1 DEF ToSet
<1> QED BY <1>2 DEF r

\* The queue has one place, so that what waits in it is the command accepted
\* last; what is being sent was accepted before it, and what has been sent
\* before both.  A failure loses one command.
CommandInv ==
  /\ accepted \in Nat /\ failures \in Nat /\ sending \in 0 .. accepted
  /\ sent \in Seq(Nat)
  /\ queue = <<>> \/ (queue = <<accepted>> /\ sending < accepted)
  /\ \A i \in DOMAIN sent : /\ sent[i] <= accepted
                            /\ queue # <<>> => sent[i] < accepted
                            /\ sending # 0 => sent[i] < sending
  /\ \A i, j \in DOMAIN sent : i < j => sent[i] < sent[j]
  /\ ~Running => closed
  /\ Running => /\ IsFiniteSet(lost) /\ Cardinality(lost) <= failures
                /\ 1 .. accepted = ToSet(sent) \cup lost \cup ToSet(queue)
                                     \cup ({sending} \ {0})

LEMMA CommandInit == Init => CommandInv
<1>1. IsFiniteSet({}) /\ Cardinality({}) = 0
  BY FS_EmptySet
<1>2. Init => /\ sent = <<>> /\ queue = <<>> /\ sending = 0 /\ lost = {}
              /\ accepted = 0 /\ failures = 0 /\ loop = "new"
  BY DEF Init
<1>3. /\ <<>> \in Seq(Nat) /\ DOMAIN <<>> = {} /\ 1 .. 0 = {}
      /\ 0 \in 0 .. 0 /\ 0 <= 0 /\ {0} \ {0} = {}
  OBVIOUS
<1>4. ToSet(<<>>) = {}
  BY <1>3 DEF ToSet
<1>5. ASSUME Init PROVE CommandInv
  <2>1. Running
    BY <1>2, <1>5 DEF Running
  <2>2. 1 .. accepted = ToSet(sent) \cup lost \cup ToSet(queue) \cup ({sending} \ {0})
    BY <1>2, <1>3, <1>4, <1>5
  <2>3. IsFiniteSet(lost) /\ Cardinality(lost) <= failures
    BY <1>1, <1>2, <1>3, <1>5
  <2>4. /\ accepted \in Nat /\ failures \in Nat /\ sending \in 0 .. accepted
        /\ queue = <<>> /\ sent \in Seq(Nat) /\ DOMAIN sent = {}
    BY <1>2, <1>3, <1>5
  <2> QED BY <2>1, <2>2, <2>3, <2>4 DEF CommandInv
<1> QED BY <1>5

\* Losing the command that is being sent keeps the account of commands.
LEMMA LossCounted ==
  ASSUME CommandInv, Running, LoseSending, failures' = failures + 1,
         UNCHANGED <<accepted, sent, closed, loop>>
  PROVE  CommandInv'
<1>0. IsFiniteSet(lost) /\ Cardinality(lost) <= failures /\ failures \in Nat
  BY DEF CommandInv
<1>1. Cardinality(lost) \in Nat
  BY <1>0, FS_CardinalityType
<1>2. /\ IsFiniteSet(lost \cup {sending})
      /\ Cardinality(lost \cup {sending}) \in {Cardinality(lost), Cardinality(lost) + 1}
  BY <1>0, FS_AddElement
<1>3. lost' = lost \/ lost' = lost \cup {sending}
  BY DEF LoseSending
<1>4. IsFiniteSet(lost') /\ Cardinality(lost') <= failures'
  <2>1. CASE lost' = lost
    BY <1>0, <1>1, <2>1
  <2>2. CASE lost' = lost \cup {sending}
    <3>1. IsFiniteSet(lost') /\ Cardinality(lost') \in {Cardinality(lost), Cardinality(lost) + 1}
      BY <1>2, <2>2
    <3> QED BY <1>0, <1>1, <3>1
  <2> QED BY <1>3, <2>1, <2>2
<1>5. sending' = 0 /\ queue' = queue /\ lost' = lost \cup ({sending} \ {0})
  BY DEF LoseSending
<1>6. 1 .. accepted' = ToSet(sent') \cup lost' \cup ToSet(queue') \cup ({sending'} \ {0})
  BY <1>5 DEF CommandInv
<1> QED BY <1>4, <1>5, <1>6 DEF CommandInv, Running

\* When run returns, what it had of commands goes with it.
LEMMA ReturnKeepsOrder ==
  ASSUME CommandInv, loop' = "closing", closed' = TRUE, sending' = 0, queue' = <<>>,
         UNCHANGED <<accepted, sent>>, failures' \in Nat
  PROVE  CommandInv'
BY DEF CommandInv, Running

LEMMA CommandStep == CommandInv /\ [Next]_vars => CommandInv'
<1> SUFFICES ASSUME CommandInv, [Next]_vars PROVE CommandInv'
  OBVIOUS
<1>1. ASSUME UNCHANGED <<queue, sending, accepted, sent, lost>>,
             failures' \in {failures, failures + 1},
             closed' = closed, Running' = Running
      PROVE  CommandInv'
  BY <1>1, FS_CardinalityType DEF CommandInv
<1>2. CASE Start \/ Stop \/ UpdateStatus \/ Break
  BY <1>1, <1>2 DEF Start, Stop, UpdateStatus, Break, Running, commands
<1>3. CASE Accept
  <2>1. /\ ~closed /\ queue = <<>> /\ accepted' = accepted + 1
        /\ queue' = <<accepted + 1>>
        /\ UNCHANGED <<loop, closed, sending, sent, lost, failures>>
    BY <1>3 DEF Accept
  <2>2. ToSet(queue) = {} /\ ToSet(queue') = {accepted + 1}
    BY <2>1 DEF ToSet
  <2>3. 1 .. accepted' = (1 .. accepted) \cup {accepted + 1}
    BY <2>1 DEF CommandInv
  <2>4. Running => 1 .. accepted' = ToSet(sent') \cup lost' \cup ToSet(queue')
                                      \cup ({sending'} \ {0})
    BY <2>1, <2>2, <2>3 DEF CommandInv
  <2> QED BY <2>1, <2>4 DEF CommandInv, Running
<1>4. CASE \E s \in Subscribers : Subscribe(s) \/ Read(s) \/ ReadEnd(s)
  BY <1>1, <1>4 DEF Subscribe, Read, ReadEnd, Running, commands
<1>5. ASSUME NEW id \in Ids, Receive(id) PROVE CommandInv'
  <2>1. CASE senders
    BY <1>1, <1>5, <2>1 DEF Receive, Running
  <2>2. CASE ~senders
    BY <1>5, <2>2, ReturnKeepsOrder DEF Receive, Return, Close, CommandInv
  <2> QED BY <2>1, <2>2
<1>6. CASE (\E id \in Ids : ReceiveUndecoded(id)) \/ UNCHANGED vars
  BY <1>1, <1>6 DEF ReceiveUndecoded, vars, commands, Running
<1>7. CASE Connector
  BY <1>1, <1>7 DEF Connector, ReadStatus, Connect, ConnectFails, commands, Running
<1>8. CASE LoopSentry \/ LoopSentryFails \/ MakeStreams \/ ReceiveEnds
  BY <1>1, <1>8 DEF LoopSentry, LoopSentryFails, MakeStreams, ReceiveEnds, Polled,
                    commands, Running
<1>9. CASE MakeStreamsFails \/ LoopStop
  <2>1. /\ loop' = "closing" /\ closed' = TRUE /\ sending' = 0 /\ queue' = <<>>
        /\ UNCHANGED <<accepted, sent>> /\ failures' \in {failures, failures + 1}
    BY <1>9 DEF MakeStreamsFails, LoopStop, Return, Close
  <2>2. failures' \in Nat
    BY <2>1 DEF CommandInv
  <2> QED BY <2>1, <2>2, ReturnKeepsOrder
<1>10. CASE DropSenders
  BY <1>1, <1>10 DEF DropSenders, Running, CommandInv
<1>11. CASE SendTake
  <2>1. /\ Running /\ sending = 0 /\ queue = <<accepted>>
        /\ sending' = accepted /\ queue' = <<>>
        /\ UNCHANGED <<loop, closed, accepted, sent, lost, failures>>
    <3>1. /\ loop = "run" /\ sending = 0 /\ queue # <<>>
          /\ sending' = Head(queue) /\ queue' = Tail(queue)
          /\ UNCHANGED <<loop, closed, accepted, sent, lost, failures>>
      BY <1>11 DEF SendTake, Polled
    <3>2. queue = <<accepted>>
      BY <3>1 DEF CommandInv
    <3>3. Head(<<accepted>>) = accepted /\ Tail(<<accepted>>) = <<>>
      OBVIOUS
    <3> QED BY <3>1, <3>2, <3>3 DEF Running
  <2>2. ToSet(queue) = {accepted} /\ ToSet(queue') = {} /\ accepted # 0
    BY <2>1 DEF ToSet, CommandInv
  <2> QED BY <2>1, <2>2 DEF CommandInv, Running
<1>12. CASE Sent
  <2>1. /\ Running /\ sending # 0 /\ sent' = Append(sent, sending) /\ sending' = 0
        /\ UNCHANGED <<loop, closed, accepted, queue, lost, failures>>
    BY <1>12 DEF Sent, Polled, Running
  <2>2. ToSet(sent') = ToSet(sent) \cup {sending}
    BY <2>1, AppendedSet DEF CommandInv
  <2>3. /\ sent' \in Seq(Nat) /\ DOMAIN sent' = 1 .. Len(sent) + 1
        /\ \A i \in DOMAIN sent' :
             sent'[i] = IF i = Len(sent) + 1 THEN sending ELSE sent[i]
        /\ DOMAIN sent = 1 .. Len(sent) /\ Len(sent) \in Nat
    BY <2>1 DEF CommandInv
  <2>4. \A i, j \in DOMAIN sent' : i < j => sent'[i] < sent'[j]
    BY <2>1, <2>3 DEF CommandInv
  <2>5. \A i \in DOMAIN sent' : /\ sent'[i] <= accepted
                                /\ queue # <<>> => sent'[i] < accepted
    BY <2>1, <2>3 DEF CommandInv
  <2> QED BY <2>1, <2>2, <2>3, <2>4, <2>5 DEF CommandInv, Running
<1>13. CASE SendFails \/ SendDisconnected \/ ReceiveDisconnected
  BY <1>13, LossCounted
  DEF SendFails, SendDisconnected, ReceiveDisconnected, Polled, Running
<1> QED
  BY <1>2, <1>3, <1>4, <1>5, <1>6, <1>7, <1>8, <1>9, <1>10, <1>11, <1>12, <1>13
  DEF Next, Loop

\* While the event loop runs, no command is sent twice or out of order, and a
\* failed send or a disconnect costs at most the one command being sent.
THEOREM CommandsAccounted == Spec => []CommandsSurvive
<1>1. CommandInv => CommandsSurvive
  BY DEF CommandInv, CommandsSurvive
<1> QED BY <1>1, CommandInit, CommandStep, PTL DEF Spec
=============================================================================
