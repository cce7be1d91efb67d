------------------------------- MODULE EslClient -------------------------------
(***************************************************************************)
(* The event socket client of FreeSWITCH (integrations/freeswitch): one    *)
(* connection that carries commands, their replies and events, a read loop *)
(* per connection, a supervisor that reconnects, and the queue of events.  *)
(*                                                                         *)
(* A worker calls Connect and Subscribe; the API server leaves connecting  *)
(* to the supervisor. Other goroutines issue commands, one at a time.      *)
(***************************************************************************)
EXTENDS Naturals, Sequences, FiniteSets

CONSTANTS
    EslCallers,    \* goroutines that issue commands
    NoOne,
    MaxConns,      \* connections FreeSWITCH accepts (bound)
    MaxCommands,   \* commands of the callers (bound)
    EventDepth,    \* eventQueueDepth
    EslFaults      \* broken links, refused dials, refused commands (bound)

ASSUME EslAssumption ==
    /\ {NoOne, "main", "loop"} \cap EslCallers = {} /\ NoOne \notin {"main", "loop"}
    /\ MaxConns \in Nat \ {0} /\ MaxCommands \in Nat /\ EventDepth \in Nat \ {0}
    /\ EslFaults \in Nat

VARIABLES
    current,      \* Client.conn, 0 for nil
    made,         \* connections accepted so far
    link,         \* each connection's socket
    inbox,        \* commands FreeSWITCH has not answered, per connection
    wire,         \* frames the client has not read, per connection
    listening,    \* connections FreeSWITCH sends events on
    reader,       \* readLoop of each connection and the reply it holds
    doneCh,       \* connections whose done channel is closed
    ready, closed, canceled, reconnecting,
    subscription, \* Client.subscriptions is not empty
    subMu,        \* holder of subscriptionsMu for writing
    commandMu,    \* holder of commandMu
    cmd,          \* the command each goroutine waits for
    conner,       \* Connect (main) and reconnectLoop (loop)
    queue,        \* events in the queue
    closer,       \* Close
    issued,       \* commands written so far
    mispaired,    \* a command got another one's reply (history)
    eslFaults

eslVars == <<current, made, link, inbox, wire, listening, reader, doneCh, ready, closed,
             canceled, reconnecting, subscription, subMu, commandMu, cmd, conner, queue,
             closer, issued, mispaired, eslFaults>>
netVars == <<made, link, inbox, wire, listening>>
stateVars == <<current, doneCh, ready, closed, canceled, reconnecting>>
subVars == <<subscription, subMu>>
cmdVars == <<commandMu, cmd, issued, mispaired>>
restVars == <<queue, closer>>

Conns == 1..MaxConns
Connectors == {"main", "loop"}
Commanders == EslCallers \cup Connectors
NoCmd == [at |-> "none", conn |-> 0, id |-> 0]

EslTypeOK ==
    /\ current \in 0..MaxConns /\ made \in 0..MaxConns /\ current <= made
    /\ link \in [Conns -> {"none", "up", "down"}]
    /\ \A i \in Conns : inbox[i] \in Seq(Nat) /\ wire[i] \in Seq(Nat)
    /\ listening \subseteq Conns /\ doneCh \subseteq Conns
    /\ \A i \in Conns : reader[i].at \in {"none", "read", "offer", "failed", "restart", "gone"}
    /\ current # 0 => reader[current].at \in {"read", "offer", "failed"} /\ current \notin doneCh
    /\ ready => current # 0 /\ ~closed
    /\ commandMu \in Commanders \cup {NoOne} /\ subMu \in {"main", NoOne}
    /\ \A x \in Commanders : cmd[x].at \in {"none", "sent", "restart", "ok", "error"}
    /\ commandMu # NoOne <=> \E x \in Commanders : cmd[x].at \in {"sent", "restart"}
    /\ reconnecting <=> conner["loop"].at # "idle"
    /\ queue \in 0..EventDepth
    /\ eslFaults \in 0..EslFaults

\* New: the worker's main goroutine is about to call Connect, or the API server has called
\* StartReconnect.
EslInit ==
    /\ current = 0 /\ made = 0
    /\ link = [i \in Conns |-> "none"]
    /\ inbox = [i \in Conns |-> <<>>] /\ wire = [i \in Conns |-> <<>>]
    /\ listening = {} /\ doneCh = {}
    /\ reader = [i \in Conns |-> [at |-> "none", id |-> 0]]
    /\ ready = FALSE /\ closed = FALSE /\ canceled = FALSE
    /\ reconnecting \in BOOLEAN
    /\ conner = [x \in Connectors |->
                    [at |-> IF (x = "loop") = reconnecting THEN "dial" ELSE "idle", conn |-> 0]]
    /\ subscription = FALSE /\ subMu = NoOne /\ commandMu = NoOne
    /\ cmd = [x \in Commanders |-> NoCmd]
    /\ queue = 0 /\ closer = [at |-> "none", conn |-> 0]
    /\ issued = 0 /\ mispaired = FALSE /\ eslFaults = 0

EslFault == eslFaults < EslFaults /\ eslFaults' = eslFaults + 1

(***************************************************************************)
(* FreeSWITCH                                                              *)
(***************************************************************************)
EventFrame == 0

\* It answers the oldest command of a connection; a subscription starts the events.
Answers(i) ==
    /\ link[i] = "up" /\ inbox[i] # <<>>
    /\ inbox' = [inbox EXCEPT ![i] = Tail(@)]
    /\ wire' = [wire EXCEPT ![i] = Append(@, Head(inbox[i]))]
    /\ listening' = IF \E x \in Connectors : cmd[x].id = Head(inbox[i])
                    THEN listening \cup {i} ELSE listening
    /\ UNCHANGED <<made, link, stateVars, reader, subVars, cmdVars, conner, restVars, eslFaults>>

\* An event of a channel, at most one unread (bound).
Emits(i) ==
    /\ link[i] = "up" /\ i \in listening
    /\ \A k \in 1..Len(wire[i]) : wire[i][k] # EventFrame
    /\ wire' = [wire EXCEPT ![i] = Append(@, EventFrame)]
    /\ UNCHANGED <<made, link, inbox, listening, stateVars, reader, subVars, cmdVars, conner,
                   restVars, eslFaults>>

LinkFails(i) ==
    /\ link[i] = "up" /\ EslFault /\ link' = [link EXCEPT ![i] = "down"]
    /\ UNCHANGED <<made, inbox, wire, listening, stateVars, reader, subVars, cmdVars, conner,
                   restVars>>

(***************************************************************************)
(* disconnect and startReconnect, which take the mutex one after the other *)
(***************************************************************************)
Retire(i) ==
    IF current # i THEN UNCHANGED <<current, ready, doneCh, link, inbox, wire, listening>>
    ELSE /\ current' = 0 /\ ready' = FALSE /\ doneCh' = doneCh \cup {i}
         /\ link' = [link EXCEPT ![i] = "down"]
         /\ inbox' = [inbox EXCEPT ![i] = <<>>] /\ wire' = [wire EXCEPT ![i] = <<>>]
         /\ listening' = listening \ {i}

StartReconnect ==
    IF closed \/ reconnecting THEN UNCHANGED <<reconnecting, conner>>
    ELSE reconnecting' = TRUE /\ conner' = [conner EXCEPT !["loop"] = [at |-> "dial", conn |-> 0]]

(***************************************************************************)
(* command                                                                 *)
(***************************************************************************)
\* The connection is read and the command written under commandMu. A broken link that the
\* read loop has not noticed swallows it.
Write(x) ==
    /\ commandMu = NoOne /\ cmd[x].at = "none"
    /\ IF current = 0
       THEN cmd' = [cmd EXCEPT ![x].at = "error"] /\ UNCHANGED <<commandMu, issued, inbox>>
       ELSE /\ commandMu' = x /\ issued' = issued + 1
            /\ cmd' = [cmd EXCEPT ![x] = [at |-> "sent", conn |-> current, id |-> issued + 1]]
            /\ IF link[current] = "up"
               THEN inbox' = [inbox EXCEPT ![current] = Append(@, issued + 1)]
               ELSE UNCHANGED inbox
    /\ UNCHANGED <<made, link, wire, listening, stateVars, reader, subVars, conner, restVars,
                   mispaired, eslFaults>>

CallerCommands(x) ==
    x \in EslCallers /\ issued < MaxCommands /\ Write(x)

\* The reply the read loop offers; FreeSWITCH may refuse the command (-ERR).
GetsReply(x, refused) ==
    /\ cmd[x].at = "sent" /\ reader[cmd[x].conn].at = "offer" /\ cmd[x].conn \notin doneCh
    /\ IF refused THEN EslFault ELSE UNCHANGED eslFaults
    /\ mispaired' = (mispaired \/ reader[cmd[x].conn].id # cmd[x].id)
    /\ reader' = [reader EXCEPT ![cmd[x].conn] = [at |-> "read", id |-> 0]]
    /\ cmd' = [cmd EXCEPT ![x].at = IF refused THEN "error" ELSE "ok"]
    /\ commandMu' = NoOne
    /\ UNCHANGED <<netVars, stateVars, subVars, conner, restVars, issued>>

\* readErr or done.
SeesClosed(x) ==
    /\ cmd[x].at = "sent" /\ cmd[x].conn \in doneCh
    /\ cmd' = [cmd EXCEPT ![x].at = "error"] /\ commandMu' = NoOne
    /\ UNCHANGED <<netVars, stateVars, reader, subVars, conner, restVars, issued, mispaired,
                   eslFaults>>

\* Mutant: the caller gives up and leaves the connection in place.
TimesOutKept(x) ==
    /\ cmd[x].at = "sent"
    /\ cmd' = [cmd EXCEPT ![x].at = "error"] /\ commandMu' = NoOne
    /\ UNCHANGED <<netVars, stateVars, reader, subVars, conner, restVars, issued, mispaired,
                   eslFaults>>

\* commandTimeout or the caller's context: the connection is retired.
TimesOut(x) ==
    /\ cmd[x].at = "sent"
    /\ Retire(cmd[x].conn)
    /\ cmd' = [cmd EXCEPT ![x].at = IF current = cmd[x].conn /\ ~closed
                                       THEN "restart" ELSE "error"]
    /\ commandMu' = IF cmd'[x].at = "restart" THEN x ELSE NoOne
    /\ UNCHANGED <<made, closed, canceled, reconnecting, reader, subVars, conner, restVars, issued,
                   mispaired, eslFaults>>

TimeoutReconnects(x) ==
    /\ cmd[x].at = "restart" /\ StartReconnect
    /\ cmd' = [cmd EXCEPT ![x].at = "error"] /\ commandMu' = NoOne
    /\ UNCHANGED <<netVars, current, doneCh, ready, closed, canceled, reader, subVars, restVars,
                   issued, mispaired, eslFaults>>

\* A caller returns to its own business.
CallerReturns(x) ==
    /\ x \in EslCallers /\ cmd[x].at \in {"ok", "error"}
    /\ cmd' = [cmd EXCEPT ![x] = NoCmd]
    /\ UNCHANGED <<netVars, stateVars, reader, subVars, commandMu, conner, restVars, issued,
                   mispaired, eslFaults>>

(***************************************************************************)
(* readLoop and the event queue                                            *)
(***************************************************************************)
ReadReply(i) ==
    /\ reader[i].at = "read" /\ wire[i] # <<>> /\ Head(wire[i]) # EventFrame
    /\ reader' = [reader EXCEPT ![i] = [at |-> "offer", id |-> Head(wire[i])]]
    /\ wire' = [wire EXCEPT ![i] = Tail(@)]
    /\ UNCHANGED <<made, link, inbox, listening, stateVars, subVars, cmdVars, conner, restVars,
                   eslFaults>>

\* dispatchEvent: it waits for the subscriptions' lock; without a handler the event is dropped;
\* a full queue, like a canceled client, is an error.
ReadEvent(i) ==
    /\ reader[i].at = "read" /\ wire[i] # <<>> /\ Head(wire[i]) = EventFrame
    /\ subMu = NoOne
    /\ wire' = [wire EXCEPT ![i] = Tail(@)]
    /\ CASE ~subscription -> UNCHANGED <<reader, queue>>
         [] subscription /\ ~canceled /\ queue < EventDepth ->
                queue' = queue + 1 /\ UNCHANGED reader
         [] OTHER -> reader' = [reader EXCEPT ![i].at = "failed"] /\ UNCHANGED queue
    /\ UNCHANGED <<made, link, inbox, listening, stateVars, subVars, cmdVars, conner, closer,
                   eslFaults>>

ReadFails(i) ==
    /\ reader[i].at = "read" /\ link[i] = "down"
    /\ reader' = [reader EXCEPT ![i].at = "failed"]
    /\ UNCHANGED <<netVars, stateVars, subVars, cmdVars, conner, restVars, eslFaults>>

\* The offer of a reply ends with the connection or with the client.
GivesUp(i) == i \in doneCh \/ canceled

OfferEnds(i) ==
    /\ reader[i].at = "offer" /\ GivesUp(i)
    /\ reader' = [reader EXCEPT ![i] = [at |-> IF i \in doneCh THEN "gone" ELSE "failed",
                                        id |-> 0]]
    /\ UNCHANGED <<netVars, stateVars, subVars, cmdVars, conner, restVars, eslFaults>>

ReaderDisconnects(i) ==
    /\ reader[i].at = "failed" /\ Retire(i)
    /\ reader' = [reader EXCEPT ![i] = [at |-> IF current = i /\ ~closed THEN "restart"
                                               ELSE "gone", id |-> 0]]
    /\ UNCHANGED <<made, closed, canceled, reconnecting, subVars, cmdVars, conner, restVars,
                   eslFaults>>

ReaderReconnects(i) ==
    /\ reader[i].at = "restart" /\ StartReconnect
    /\ reader' = [reader EXCEPT ![i].at = "gone"]
    /\ UNCHANGED <<netVars, current, doneCh, ready, closed, canceled, subVars, cmdVars, restVars,
                   eslFaults>>

\* consumeEventQueue.
Consume ==
    /\ queue > 0 /\ ~canceled /\ queue' = queue - 1
    /\ UNCHANGED <<netVars, stateVars, reader, subVars, cmdVars, conner, closer, eslFaults>>

(***************************************************************************)
(* Connect and reconnectLoop                                               *)
(***************************************************************************)
To(x, at) == conner' = [conner EXCEPT ![x].at = at]

\* connectAuthenticated.
Dial(x) ==
    /\ conner[x].at = "dial" /\ made < MaxConns /\ ~canceled
    /\ made' = made + 1 /\ link' = [link EXCEPT ![made + 1] = "up"]
    /\ conner' = [conner EXCEPT ![x] = [at |-> "install", conn |-> made + 1]]
    /\ UNCHANGED <<inbox, wire, listening, stateVars, reader, subVars, cmdVars, restVars,
                   eslFaults>>

DialFails(x) ==
    /\ conner[x].at = "dial" /\ To(x, "failed")
    /\ IF canceled THEN UNCHANGED eslFaults ELSE EslFault
    /\ UNCHANGED <<netVars, stateVars, reader, subVars, cmdVars, restVars>>

\* installConnection: not on a closed client, and not over another connection.
Install(x) ==
    LET i == conner[x].conn IN
    /\ conner[x].at = "install"
    /\ IF ~closed /\ current = 0
       THEN /\ current' = i /\ ready' = FALSE
            /\ reader' = [reader EXCEPT ![i].at = "read"]
            /\ To(x, "snapshot") /\ UNCHANGED link
       ELSE /\ link' = [link EXCEPT ![i] = "down"]
            /\ To(x, IF closed THEN "failed" ELSE "connected")
            /\ UNCHANGED <<current, ready, reader>>
    /\ UNCHANGED <<made, inbox, wire, listening, doneCh, closed, canceled, reconnecting, subVars,
                   cmdVars, restVars, eslFaults>>

\* restoreSubscriptions sends what is subscribed, on the connection the client has by then.
Snapshot(x) ==
    /\ conner[x].at = "snapshot" /\ subMu = NoOne
    /\ To(x, IF subscription THEN "restore" ELSE "mark")
    /\ UNCHANGED <<netVars, stateVars, reader, subVars, cmdVars, restVars, eslFaults>>

ConnectorSends(x) == conner[x].at \in {"restore", "subscribe"} /\ Write(x)

\* A failed restore closes the connection; the read loop will notice.
Restored(x) ==
    /\ conner[x].at = "restore" /\ cmd[x].at \in {"ok", "error"}
    /\ cmd' = [cmd EXCEPT ![x] = NoCmd]
    /\ IF cmd[x].at = "ok" THEN To(x, "mark") /\ UNCHANGED link
       ELSE To(x, "failed") /\ link' = [link EXCEPT ![conner[x].conn] = "down"]
    /\ UNCHANGED <<made, inbox, wire, listening, stateVars, reader, subVars, commandMu, restVars,
                   issued, mispaired, eslFaults>>

Markable(x) == current = conner[x].conn

MarkReady(x) ==
    /\ conner[x].at = "mark" /\ To(x, "connected")
    /\ ready' = (ready \/ (Markable(x) /\ ~closed))
    /\ UNCHANGED <<netVars, current, doneCh, closed, canceled, reconnecting, reader, subVars,
                   cmdVars, restVars, eslFaults>>

\* The loop returns, and its deferred function clears the flag; a failure is tried again
\* after the delay.
LoopEnds ==
    /\ conner["loop"].at = "connected" \/ (conner["loop"].at = "failed" /\ canceled)
    /\ conner' = [conner EXCEPT !["loop"] = [at |-> "idle", conn |-> 0]]
    /\ reconnecting' = FALSE
    /\ UNCHANGED <<netVars, current, doneCh, ready, closed, canceled, reader, subVars, cmdVars,
                   restVars, eslFaults>>

LoopRetries ==
    /\ conner["loop"].at = "failed" /\ ~canceled
    /\ conner' = [conner EXCEPT !["loop"] = [at |-> "dial", conn |-> 0]]
    /\ UNCHANGED <<netVars, stateVars, reader, subVars, cmdVars, restVars, eslFaults>>

\* Subscribe holds subscriptionsMu while it waits for the reply.
Subscribe ==
    /\ conner["main"].at = "connected" /\ subMu = NoOne
    /\ subMu' = "main" /\ To("main", "subscribe")
    /\ UNCHANGED <<netVars, stateVars, reader, subscription, cmdVars, restVars, eslFaults>>

Subscribed ==
    /\ conner["main"].at = "subscribe" /\ cmd["main"].at \in {"ok", "error"}
    /\ subMu' = NoOne /\ cmd' = [cmd EXCEPT !["main"] = NoCmd]
    /\ IF cmd["main"].at = "ok" THEN subscription' = TRUE /\ To("main", "done")
       ELSE To("main", "failed") /\ UNCHANGED subscription
    /\ UNCHANGED <<netVars, stateVars, reader, commandMu, restVars, issued, mispaired, eslFaults>>

(***************************************************************************)
(* Close                                                                   *)
(***************************************************************************)
CloseStarts ==
    /\ ~closed /\ closed' = TRUE /\ ready' = FALSE
    /\ closer' = [at |-> "cancel", conn |-> current]
    /\ UNCHANGED <<netVars, current, doneCh, canceled, reconnecting, reader, subVars, cmdVars,
                   conner, queue, eslFaults>>

\* A worker that cannot connect or subscribe closes the client and exits.
MainCloses == conner["main"].at = "failed" /\ CloseStarts

CloseCancels ==
    /\ closer.at = "cancel" /\ canceled' = TRUE
    /\ closer' = [closer EXCEPT !.at = "wait"]
    /\ link' = IF closer.conn = 0 THEN link ELSE [link EXCEPT ![closer.conn] = "down"]
    /\ UNCHANGED <<made, inbox, wire, listening, current, doneCh, ready, closed, reconnecting,
                   reader, subVars, cmdVars, conner, queue, eslFaults>>

\* done of the connection, then the wait group: read loops and the reconnect loop.
CloseReturns ==
    /\ closer.at = "wait" /\ closer.conn \in doneCh \cup {0}
    /\ \A i \in Conns : reader[i].at \in {"none", "gone"}
    /\ conner["loop"].at = "idle"
    /\ closer' = [closer EXCEPT !.at = "closed"]
    /\ UNCHANGED <<netVars, stateVars, reader, subVars, cmdVars, conner, queue, eslFaults>>

ReaderStep(i) ==
    \/ ReadReply(i) \/ ReadEvent(i) \/ ReadFails(i) \/ OfferEnds(i)
    \/ ReaderDisconnects(i) \/ ReaderReconnects(i)
ConnectorStep(x) ==
    \/ Dial(x) \/ DialFails(x) \/ Install(x) \/ Snapshot(x) \/ ConnectorSends(x) \/ Restored(x)
    \/ MarkReady(x)
LoopStep == ConnectorStep("loop") \/ LoopEnds \/ LoopRetries
MainStep == ConnectorStep("main") \/ Subscribe \/ Subscribed \/ MainCloses
CommandStep(x) ==
    \/ \E refused \in BOOLEAN : GetsReply(x, refused)
    \/ SeesClosed(x) \/ TimesOut(x) \/ TimeoutReconnects(x) \/ CallerReturns(x)
CloserStep == CloseCancels \/ CloseReturns
FreeSwitchStep == \E i \in Conns : Answers(i) \/ Emits(i) \/ LinkFails(i)

EslNext ==
    \/ FreeSwitchStep \/ Consume \/ LoopStep \/ MainStep \/ CloseStarts \/ CloserStep
    \/ \E i \in Conns : ReaderStep(i)
    \/ \E x \in Commanders : CallerCommands(x) \/ CommandStep(x)

\* Goroutines that can go on do, and timers fire. Nothing is assumed of FreeSWITCH.
EslFairness ==
    /\ \A i \in Conns : WF_eslVars(ReaderStep(i))
    /\ WF_eslVars(LoopStep) /\ WF_eslVars(MainStep) /\ WF_eslVars(CloserStep)
    /\ \A x \in Commanders : WF_eslVars(CommandStep(x))
EslSpec == EslInit /\ [][EslNext]_eslVars /\ EslFairness

(***************************************************************************)
(* Properties                                                              *)
(***************************************************************************)
\* A reply goes to the command it answers, whatever timed out or was reconnected before: the
\* pairing is by order alone, so a reply that comes late must never meet a later command.
RepliesMatch == ~mispaired

\* A client that reports ready is subscribed on its present connection to what its handlers
\* are registered for, so that no event is missed from there on.
ReadyIsSubscribed ==
    ready /\ subscription /\ link[current] = "up" => current \in listening

\* The connection's two promises.
EslSound == RepliesMatch /\ ReadyIsSubscribed

\* Close has canceled the client and has not returned: whoever waits for a reply, a lock, a timer
\* or a connection gives up.
CloseWaits == closer.at \notin {"none", "closed"}

\* StartReconnect: the client retries until it is connected or closed, while FreeSWITCH
\* accepts connections.
ReconnectsUntilConnected ==
    (current = 0 /\ ~closed /\ made < MaxConns) ~> (current # 0 \/ closed \/ made = MaxConns)
=============================================================================
