---------------------------- MODULE SentryReactor ----------------------------
(***************************************************************************)
(* SentryClientReactor, its event loop, the connector stream that gives it *)
(* connections to the sentry, and the status the connector announces.      *)
(*                                                                         *)
(* Callers put commands in a queue of one place and subscribe to incoming  *)
(* messages; the loop sends the commands, broadcasts what arrives and      *)
(* connects again when a stream reports a disconnect.  A command is known  *)
(* by the order in which the queue accepted it, a message by its place in  *)
(* the broadcast channel of its id.  gRPC, the queue and the channels are  *)
(* external and are modelled by what the code relies on.                   *)
(***************************************************************************)
EXTENDS Integers, Sequences, SequencesExt, FiniteSets

CONSTANTS
  Subscribers,    \* streams returned by receive_messages
  Ids,            \* the EthMessageIds that arrive
  Capacity,       \* of a broadcast channel, 1024 in the code
  MaxCommands,    \* bounds: commands accepted,
  MaxMessages,    \*   messages received for each id,
  MaxBreaks,      \*   connections that break or fail,
  MaxStatus       \*   updates of the status

ASSUME ReactorAssumption ==
  /\ Capacity \in Nat \ {0}
  /\ {MaxCommands, MaxMessages, MaxBreaks, MaxStatus} \subseteq Nat

VARIABLES
  loop,        \* "new", "run", "subscribing" (awaiting the sentry's stream),
               \* "closing" (its variables are being dropped) or "ended"
  streams,     \* the StreamMap, without the stop signal's stream
  held,        \* sentry_stream_holder is Some
  connector,   \* the connector stream: "idle", "connecting", "ready" or
               \* "failed" (its next item), or "over"
  attempt,     \* the status the connector is connecting with
  broken,      \* the current connection is broken
  queue,       \* send_message_sender
  closed,      \* its receiver has been dropped
  sending,     \* the command that the Send stream is sending, 0 if none
  senders,     \* receive_messages_senders is not empty
  arrived,     \* messages broadcast, for each id
  subs,        \* state and position of each subscriber's stream
  status,      \* the watch channel of SentryStatusProvider, as a version
  announced,   \* the status given to the sentry by set_status
  stopping,    \* stop() or drop has sent the stop signal
  stageFailed, \* SentryStatusProvider::update has returned an error
  accepted, sent, lost, failures, receiveEnded, subscribeFailed, since
               \* history: commands accepted, sent and lost; failed sends and
               \* disconnects; how streams ended; the status when the last
               \* connection was given up

wire == <<connector, attempt, broken, announced, since>>
commands == <<queue, closed, sending, accepted, sent, lost, failures>>
bus == <<senders, arrived, subs, receiveEnded>>
rest == <<status, stopping, stageFailed>>
vars == <<loop, streams, held, subscribeFailed, wire, commands, bus, rest>>

Running == loop \notin {"closing", "ended"}

\* The commands that were accepted and not sent.
Unsent == (1 .. accepted) \ ToSet(sent)

-----------------------------------------------------------------------------
(* Callers of the reactor *)

\* SentryClientReactor::start
Start ==
  /\ loop = "new"
  /\ loop' = "run" /\ streams' = {"Sentry"}
  /\ UNCHANGED <<held, subscribeFailed, wire, commands, bus, rest>>

\* send_message and penalize_peer, which wait for room, and try_send_message
\* when there is some; a closed queue refuses them all.
Accept ==
  /\ ~closed
  /\ queue = <<>> /\ accepted < MaxCommands
  /\ accepted' = accepted + 1
  /\ queue' = <<accepted + 1>>
  /\ UNCHANGED <<loop, streams, held, subscribeFailed, wire, closed, sending, sent,
                 lost, failures, bus, rest>>

\* receive_messages; is_stopped looks at the queue.
Subscribe(s) ==
  /\ subs[s].state = "none" /\ loop # "new"
  /\ subs' = [subs EXCEPT ![s].pos = arrived[subs[s].id],
                          ![s].state = IF senders THEN "open"
                                       ELSE IF closed THEN "refused" ELSE "empty"]
  /\ UNCHANGED <<loop, streams, held, subscribeFailed, wire, commands, senders,
                 arrived, receiveEnded, rest>>

\* A subscriber's stream gives its next message, the oldest one that the
\* channel still holds.
Read(s) ==
  /\ subs[s].state = "open" /\ subs[s].pos < arrived[subs[s].id]
  /\ subs' = [subs EXCEPT ![s].pos = IF arrived[subs[s].id] - @ > Capacity
                                     THEN arrived[subs[s].id] - Capacity + 1 ELSE @ + 1]
  /\ UNCHANGED <<loop, streams, held, subscribeFailed, wire, commands, senders,
                 arrived, receiveEnded, rest>>

\* It ends when the sender is gone and everything has been read.
ReadEnd(s) ==
  /\ subs[s].state = "open" /\ subs[s].pos = arrived[subs[s].id] /\ ~senders
  /\ subs' = [subs EXCEPT ![s].state = "ended"]
  /\ UNCHANGED <<loop, streams, held, subscribeFailed, wire, commands, senders,
                 arrived, receiveEnded, rest>>

\* stop() and Drop
Stop ==
  /\ loop # "new" /\ ~stopping
  /\ stopping' = TRUE
  /\ UNCHANGED <<loop, streams, held, subscribeFailed, wire, commands, bus, status,
                 stageFailed>>

\* SentryStatusProvider::update, at the start of HeaderDownload::execute.
\* The watch channel refuses a value when its receiver, which the connector
\* stream owns, is gone.
UpdateStatus ==
  /\ status < MaxStatus /\ ~stageFailed
  /\ IF Running /\ connector # "over"
     THEN status' = status + 1 /\ UNCHANGED stageFailed
     ELSE stageFailed' = TRUE /\ UNCHANGED status
  /\ UNCHANGED <<loop, streams, held, subscribeFailed, wire, commands, bus, stopping>>

-----------------------------------------------------------------------------
(* The connector stream, polled while it is in the StreamMap *)

Polled(stream) == loop = "run" /\ stream \in streams

\* Mutant: the connector keeps the status of its first connection.
ReadStatusKept ==
  /\ Polled("Sentry") /\ connector = "idle"
  /\ connector' = "connecting"
  /\ UNCHANGED <<attempt, loop, streams, held, subscribeFailed, broken, announced, since,
                 commands, bus, rest>>

\* current_status_stream gives the status of now.
ReadStatus ==
  /\ Polled("Sentry") /\ connector = "idle"
  /\ connector' = "connecting" /\ attempt' = status
  /\ UNCHANGED <<loop, streams, held, subscribeFailed, broken, announced, since,
                 commands, bus, rest>>

\* connect() tries again every RECONNECT_TIMEOUT while the sentry cannot be
\* reached, and returns any other error.
Connect ==
  /\ Polled("Sentry") /\ connector = "connecting"
  /\ connector' = "ready" /\ announced' = attempt /\ broken' = FALSE
  /\ UNCHANGED <<attempt, since, loop, streams, held, subscribeFailed, commands, bus, rest>>

ConnectFails ==
  /\ Polled("Sentry") /\ connector = "connecting" /\ failures < MaxBreaks
  /\ connector' = "failed" /\ failures' = failures + 1
  /\ UNCHANGED <<attempt, broken, announced, since, loop, streams, held, subscribeFailed,
                 queue, closed, sending, accepted, sent, lost, bus, rest>>

-----------------------------------------------------------------------------
(* SentryClientReactorEventLoop::run *)

\* run returns.  Its variables are dropped in reverse order: the streams and
\* the queue's receiver, then EventLoopReceiveMessagesSendersDropper.
Close == /\ loop' = "closing" /\ closed' = TRUE
         /\ UNCHANGED senders

\* What the loop had of commands when it returned is lost.
Return ==
  /\ Close
  /\ streams' = {} /\ held' = FALSE /\ sending' = 0 /\ queue' = <<>>
  /\ lost' = Unsent

\* Mutant: nothing drops the senders.
DropSendersNever ==
  /\ loop = "closing"
  /\ loop' = "ended" /\ closed' = TRUE
  /\ UNCHANGED <<senders, streams, held, subscribeFailed, wire, queue, sending, accepted,
                 sent, lost, failures, arrived, subs, receiveEnded, rest>>

DropSenders ==
  /\ loop = "closing"
  /\ loop' = "ended" /\ closed' = TRUE /\ senders' = FALSE
  /\ UNCHANGED <<streams, held, subscribeFailed, wire, queue, sending, accepted, sent, lost,
                 failures, arrived, subs, receiveEnded, rest>>

\* EventLoopStreamId::Stop
LoopStop ==
  /\ loop = "run" /\ stopping
  /\ Return
  /\ UNCHANGED <<subscribeFailed, wire, accepted, sent, failures, arrived, subs,
                 receiveEnded, rest>>

\* EventLoopStreamId::Sentry with a client: the connector stream is held back
\* and the loop itself awaits the sentry's message stream.
LoopSentry ==
  /\ Polled("Sentry") /\ connector = "ready"
  /\ connector' = "idle"
  /\ streams' = streams \ {"Sentry"} /\ held' = TRUE
  /\ loop' = "subscribing"
  /\ UNCHANGED <<subscribeFailed, attempt, broken, announced, since, commands, bus, rest>>

\* make_sentry_streams
MakeStreams ==
  /\ loop = "subscribing"
  /\ loop' = "run" /\ streams' = streams \cup {"Send", "Receive"}
  /\ UNCHANGED <<held, subscribeFailed, wire, commands, bus, rest>>

\* An error of it ends the loop; the clone of the dropper that it was given
\* clears the senders at once.
MakeStreamsFails ==
  /\ loop = "subscribing" /\ failures < MaxBreaks
  /\ failures' = failures + 1 /\ subscribeFailed' = TRUE
  /\ senders' = FALSE
  /\ loop' = "closing" /\ closed' = TRUE
  /\ streams' = {} /\ held' = FALSE /\ sending' = 0 /\ queue' = <<>>
  /\ lost' = Unsent
  /\ UNCHANGED <<wire, accepted, sent, arrived, subs, receiveEnded, rest>>

\* EventLoopStreamId::Sentry with an error, after which the stream ends.
LoopSentryFails ==
  /\ Polled("Sentry") /\ connector = "failed"
  /\ connector' = "over" /\ streams' = streams \ {"Sentry"}
  /\ UNCHANGED <<loop, held, subscribeFailed, attempt, broken, announced, since, commands,
                 bus, rest>>

\* Mutant: a new queue is made for the next connection.
LoseQueue == /\ sending' = 0
             /\ lost' = lost \cup ({sending} \ {0}) \cup ToSet(queue)
             /\ queue' = <<>>

\* A Send stream that is dropped takes the command it was sending with it.
LoseSending == /\ sending' = 0
               /\ lost' = lost \cup ({sending} \ {0})
               /\ UNCHANGED queue

\* Mutant: the holder is emptied and the stream not put back.
ReconnectEmpty ==
  /\ streams' = streams \ {"Send", "Receive"}
  /\ held' = FALSE /\ since' = status

\* The two streams are removed and the connector stream is put back.
Reconnect ==
  /\ streams' = (streams \ {"Send", "Receive"}) \cup (IF held THEN {"Sentry"} ELSE {})
  /\ held' = FALSE /\ since' = status

\* make_send_stream takes the next command.
SendTake ==
  /\ Polled("Send") /\ sending = 0 /\ queue # <<>>
  /\ sending' = Head(queue) /\ queue' = Tail(queue)
  /\ UNCHANGED <<loop, streams, held, subscribeFailed, wire, closed, accepted, sent, lost,
                 failures, bus, rest>>

Sent ==
  /\ Polled("Send") /\ sending # 0 /\ ~broken
  /\ sent' = Append(sent, sending) /\ sending' = 0
  /\ UNCHANGED <<loop, streams, held, subscribeFailed, wire, queue, closed, accepted,
                 lost, failures, bus, rest>>

\* EventLoopStreamId::Send with an error that is not a disconnect.
SendFails ==
  /\ Polled("Send") /\ sending # 0
  /\ broken \/ failures < MaxBreaks
  /\ LoseSending
  /\ failures' = failures + 1
  /\ UNCHANGED <<loop, streams, held, subscribeFailed, wire, closed, accepted, sent,
                 bus, rest>>

SendDisconnected ==
  /\ Polled("Send") /\ sending # 0 /\ broken
  /\ LoseSending
  /\ Reconnect
  /\ failures' = failures + 1
  /\ UNCHANGED <<loop, subscribeFailed, connector, attempt, broken, announced, closed,
                 accepted, sent, bus, rest>>

\* message_decoder has no decoder for these ids.
Decodes(id) == id \notin {"Status", "Transactions"}

\* EventLoopStreamId::Receive with a message.  Without a sender for its id
\* the loop returns an error.
Receive(id) ==
  /\ Polled("Receive") /\ ~broken /\ arrived[id] < MaxMessages /\ Decodes(id)
  /\ IF senders
     THEN /\ arrived' = [arrived EXCEPT ![id] = @ + 1]
          /\ UNCHANGED <<loop, closed, streams, held, queue, sending, lost, senders>>
     ELSE Return /\ UNCHANGED arrived
  /\ UNCHANGED <<subscribeFailed, wire, accepted, sent, failures, subs, receiveEnded, rest>>

\* Mutant: an error of the stream ends the loop.
ReceiveUndecodedReturns(id) ==
  /\ Polled("Receive") /\ ~broken /\ ~Decodes(id)
  /\ Return
  /\ UNCHANGED <<subscribeFailed, wire, accepted, sent, failures, arrived, subs,
                 receiveEnded, rest>>

\* A message that cannot be decoded is an error of the stream, which goes on.
ReceiveUndecoded(id) ==
  /\ Polled("Receive") /\ ~broken /\ ~Decodes(id)
  /\ UNCHANGED vars

\* EventLoopStreamId::Receive with a disconnect error: the stream is removed
\* before it can end.
ReceiveDisconnected ==
  /\ Polled("Receive") /\ broken
  /\ LoseSending
  /\ Reconnect
  /\ failures' = failures + 1
  /\ UNCHANGED <<loop, subscribeFailed, connector, attempt, broken, announced, closed,
                 accepted, sent, bus, rest>>

\* The sentry's stream ends, by itself or after an error that is not taken
\* for a disconnect: make_receive_stream clears the senders.
ReceiveEnds ==
  /\ Polled("Receive") /\ broken
  /\ streams' = streams \ {"Receive"}
  /\ senders' = FALSE /\ receiveEnded' = TRUE
  /\ UNCHANGED <<loop, held, subscribeFailed, wire, commands, arrived, subs, rest>>

\* The connection to the sentry breaks, or the sentry closes it.
Break ==
  /\ {"Send", "Receive"} \cap streams # {} /\ ~broken /\ failures < MaxBreaks
  /\ broken' = TRUE
  /\ UNCHANGED <<loop, streams, held, subscribeFailed, connector, attempt, announced, since,
                 commands, bus, rest>>

-----------------------------------------------------------------------------

Init ==
  /\ loop = "new" /\ streams = {} /\ held = FALSE /\ subscribeFailed = FALSE
  /\ connector = "idle" /\ attempt = 0 /\ broken = FALSE /\ announced = 0 /\ since = 0
  /\ queue = <<>> /\ closed = FALSE /\ sending = 0 /\ accepted = 0 /\ sent = <<>> /\ lost = {} /\ failures = 0
  /\ senders = TRUE /\ arrived = [id \in Ids |-> 0] /\ receiveEnded = FALSE
  /\ subs \in [Subscribers -> [state : {"none"}, id : {i \in Ids : Decodes(i)}, pos : {0}]]
  /\ status = 0 /\ stopping = FALSE /\ stageFailed = FALSE

Connector == ReadStatus \/ Connect \/ ConnectFails
Loop == \/ LoopSentry \/ LoopSentryFails \/ MakeStreams \/ MakeStreamsFails
        \/ SendTake \/ Sent \/ SendFails \/ SendDisconnected
        \/ ReceiveDisconnected \/ ReceiveEnds

Next ==
  \/ Start \/ Accept \/ Stop \/ UpdateStatus \/ Break
  \/ \E s \in Subscribers : Subscribe(s) \/ Read(s) \/ ReadEnd(s)
  \/ \E id \in Ids : Receive(id) \/ ReceiveUndecoded(id)
  \/ Connector \/ Loop \/ LoopStop \/ DropSenders

\* The loop is a task that tokio polls, as are the tasks of the subscribers;
\* the sentry can be reached again and answers, so that connecting ends.
Fairness ==
  /\ WF_vars(Loop) /\ WF_vars(ReadStatus) /\ WF_vars(Connect)
  /\ WF_vars(LoopStop) /\ WF_vars(DropSenders)
  /\ \A s \in Subscribers : WF_vars(Read(s) \/ ReadEnd(s))

Spec == Init /\ [][Next]_vars /\ Fairness

-----------------------------------------------------------------------------
(* Properties *)

\* The loop of sentry_client_reactor.rs returns because it was told to, unless
\* subscribing to the sentry failed or a message arrived on a connection made
\* after an earlier message stream had ended: a disconnect, whichever stream
\* notices it, never ends it.  Nor does HeaderDownload::execute fail on updating
\* the status, except then and after the connector gave up; nor is the empty
\* stream, which looks to the caller of receive_messages like an orderly end,
\* given to one that merely races with stop().
DiesKnown ==
  /\ ~Running => stopping \/ subscribeFailed \/ receiveEnded
  /\ stageFailed => stopping \/ subscribeFailed \/ receiveEnded \/ connector = "over"
  /\ (\E s \in Subscribers : subs[s].state = "empty") => receiveEnded \/ subscribeFailed

\* While the loop runs, a failure costs at most the one command that was being
\* sent: the command waiting in the queue is sent over the next connection,
\* and no command is sent twice or out of order.
CommandsSurvive ==
  /\ \A i, j \in DOMAIN sent : i < j => sent[i] < sent[j]
  /\ Running => /\ Cardinality(lost) <= failures
              /\ 1 .. accepted = ToSet(sent) \cup lost \cup ToSet(queue) \cup ({sending} \ {0})

\* The status that set_status gave the sentry of this connection is not older
\* than the status at the time the previous connection was given up.
StatusFresh == {"Send", "Receive"} \cap streams # {} => announced >= since

\* stop() returns: the loop ends after the signal whatever its streams wait
\* for, a sentry that cannot be reached included.  And the subscribers of a
\* reactor that has stopped, for whatever reason, are unblocked: their streams
\* end.
SubscribersUnblocked ==
  /\ stopping ~> loop = "ended"
  /\ \A s \in Subscribers : ~Running /\ subs[s].state = "open" ~> subs[s].state = "ended"

\* A broken connection is replaced, unless the loop ends, the connector has
\* given up, or the message stream ended in a way the loop does not take for a
\* disconnect.
Reconnects == broken ~> ~broken \/ ~Running \/ connector = "over" \/ receiveEnded
=============================================================================
