-------------------------- MODULE EslClientProofs ---------------------------
(***************************************************************************)
(* Proofs about EslClient for any number of connections, commands, callers *)
(* and faults: a command gets the reply to it, a client that is ready      *)
(* hears the events it subscribed to, and every counter keeps its bound.   *)
(***************************************************************************)
EXTENDS EslClient, TLAPS

(***************************************************************************)
(* The event socket client                                                 *)
(***************************************************************************)
EslSafety == EslInit /\ [][EslNext]_eslVars

\* The goroutines and the connections they work on.
CmdRecord == [at: {"none", "sent", "restart", "ok", "error"}, conn: 0..MaxConns, id: Nat]
ConnerRecord == [at: {"idle", "dial", "install", "snapshot", "restore", "mark", "connected",
                      "subscribe", "done", "failed"}, conn: 0..MaxConns]
ReaderRecord == [at: {"none", "read", "offer", "failed", "restart", "gone"}, id: Nat]

EslTypes ==
    /\ made \in 0..MaxConns /\ current \in 0..made /\ doneCh \subseteq 1..made
    /\ listening \subseteq Conns
    /\ link \in [Conns -> {"none", "up", "down"}]
    /\ inbox \in [Conns -> Seq(Nat)] /\ wire \in [Conns -> Seq(Nat)]
    /\ reader \in [Conns -> ReaderRecord] /\ conner \in [Connectors -> ConnerRecord]
    /\ cmd \in [Commanders -> CmdRecord] /\ commandMu \in Commanders \cup {NoOne}
    /\ subMu \in {"main", NoOne} /\ subscription \in BOOLEAN /\ ready \in BOOLEAN
    /\ issued \in Nat

\* The connection a connector is busy with is its own, and new until it is installed; once
\* installed it is current, or retired for ever.
Busy(x) == conner[x].at \in {"install", "snapshot", "restore", "mark"}
ConnInv ==
    /\ current \notin doneCh /\ (ready => current # 0)
    /\ \A x \in Connectors : Busy(x) => conner[x].conn \in 1..made
    /\ \A x, y \in Connectors : Busy(x) /\ Busy(y) /\ conner[x].conn = conner[y].conn => x = y
    /\ \A x \in Connectors : conner[x].at = "install" => conner[x].conn \notin doneCh \cup {current}
    /\ \A x \in Connectors : conner[x].at \in {"snapshot", "restore", "mark"}
          => conner[x].conn \in doneCh \cup {current}

\* One command is under way at a time, on the current connection or on one that is retired; a
\* connector issues one when it restores or subscribes.
MutexInv ==
    /\ \A x \in Commanders : cmd[x].at \in {"sent", "restart"} <=> commandMu = x
    /\ \A x \in Commanders : cmd[x].at \in {"sent", "restart"}
          => cmd[x].conn # 0 /\ cmd[x].conn \in doneCh \cup {current}
    /\ subMu = "main" <=> conner["main"].at = "subscribe"
    /\ \A x \in Connectors : cmd[x].at # "none" => conner[x].at \in {"restore", "subscribe"}
    /\ ~reconnecting => conner["loop"].at = "idle"

\* Somebody waits for the reply to a command on connection i; a connector's has subscribed i as
\* soon as it is answered.
Waiting(i) ==
    commandMu # NoOne /\ cmd[commandMu].at = "sent" /\ cmd[commandMu].conn = i
AnsweredOn(i) == commandMu \in Connectors => i \in listening

\* On a connection that is not retired there is one command, or one reply, of whoever waits.
PairOn(i) ==
    /\ Len(inbox[i]) <= 1
    /\ \A k \in 1..Len(inbox[i]) :
          Waiting(i) /\ inbox[i][k] = cmd[commandMu].id /\ reader[i].at # "offer"
    /\ \A k \in 1..Len(wire[i]) : wire[i][k] # EventFrame =>
          /\ Waiting(i) /\ wire[i][k] = cmd[commandMu].id /\ reader[i].at # "offer"
          /\ Len(inbox[i]) = 0 /\ AnsweredOn(i)
    /\ \A j, k \in 1..Len(wire[i]) :
          wire[i][j] # EventFrame /\ wire[i][k] # EventFrame => j = k
    /\ reader[i].at = "offer" =>
          Waiting(i) /\ reader[i].id = cmd[commandMu].id /\ AnsweredOn(i)
PairInv == \A i \in Conns \ doneCh : PairOn(i)

\* Main subscribes once and last; a connector restores what is subscribed by then.
OrderInv ==
    /\ subscription => conner["main"].at = "done"
    /\ \A x \in Connectors : conner[x].at = "restore" => subscription

\* A connector's command that succeeded has subscribed its connection; a restore is on the
\* connector's own, unless that is retired.
RestoreInv ==
    /\ \A x \in Connectors : cmd[x].at = "ok" => cmd[x].conn \in listening \cup doneCh
    /\ \A x \in Connectors : conner[x].at = "restore" /\ cmd[x].at \in {"sent", "ok"}
          /\ conner[x].conn = current => cmd[x].conn = current

\* What is subscribed is heard on the connection that is ready, or is about to be marked so; a
\* Subscribe that is under way is on that connection.
Heard(i) == link[i] = "up" => i \in listening
HeardInv ==
    /\ \A x \in Connectors : subscription /\ conner[x].at = "mark" /\ conner[x].conn = current
          => Heard(current)
    /\ ready /\ subscription => Heard(current)
    /\ conner["main"].at = "subscribe" /\ cmd["main"].at \in {"sent", "ok"}
          /\ cmd["main"].conn # current
             => ~ready /\ \A x \in Connectors : conner[x].at = "mark" => conner[x].conn # current

SubscribeInv == OrderInv /\ RestoreInv /\ HeardInv
ClientInv == EslTypes /\ ConnInv /\ MutexInv /\ PairInv /\ SubscribeInv /\ RepliesMatch

\* Nobody has connected yet.
LEMMA ClientInit == EslInit => ClientInv
<1> SUFFICES ASSUME EslInit PROVE ClientInv
  OBVIOUS
<1> USE EslAssumption DEF EslAssumption
<1>1. EslTypes
  <2>1. NoCmd \in CmdRecord /\ [at |-> "none", id |-> 0] \in ReaderRecord
    BY DEF NoCmd, CmdRecord, ReaderRecord
  <2>2. conner \in [Connectors -> ConnerRecord]
    BY DEF EslInit, ConnerRecord
  <2>3. inbox \in [Conns -> Seq(Nat)] /\ wire \in [Conns -> Seq(Nat)]
    BY DEF EslInit
  <2>4. reader \in [Conns -> ReaderRecord] /\ cmd \in [Commanders -> CmdRecord]
    BY <2>1 DEF EslInit
  <2>5. made \in 0..MaxConns /\ current \in 0..made /\ doneCh \subseteq 1..made
    BY DEF EslInit
  <2> QED
    BY <2>2, <2>3, <2>4, <2>5 DEF EslInit, EslTypes
<1>2. ConnInv /\ MutexInv
  BY DEF EslInit, ConnInv, Busy, MutexInv, NoCmd, Connectors, Commanders
<1>3. PairInv
  BY DEF EslInit, PairInv, PairOn
<1>4. SubscribeInv /\ RepliesMatch
  BY DEF EslInit, SubscribeInv, OrderInv, RestoreInv, HeardInv, RepliesMatch, NoCmd, Connectors, Commanders
<1> QED
  BY <1>1, <1>2, <1>3, <1>4 DEF ClientInv

\* What a step on the wires leaves alone.
LEMMA WireFrame ==
    ASSUME ClientInv, UNCHANGED <<made, stateVars, subVars, cmdVars, conner>>,
           listening \subseteq listening',
           \A i \in Conns : link'[i] = "up" => link[i] = "up"
    PROVE  ConnInv' /\ MutexInv' /\ SubscribeInv' /\ RepliesMatch'
<1>1. UNCHANGED <<made, current, doneCh, ready, reconnecting, subscription, subMu, commandMu, cmd,
                  mispaired, conner>>
  BY DEF stateVars, subVars, cmdVars
<1>2. ConnInv' /\ MutexInv' /\ RepliesMatch'
  BY <1>1 DEF ClientInv, ConnInv, Busy, MutexInv, RepliesMatch
<1>3. current # 0 => current \in Conns /\ (Heard(current) => Heard(current)')
  <2>1. current # 0 => current \in Conns
    BY EslAssumption DEF EslAssumption, ClientInv, EslTypes, Conns
  <2> QED
    BY <1>1, <2>1 DEF Heard
<1>4. OrderInv' /\ RestoreInv'
  BY <1>1 DEF ClientInv, SubscribeInv, OrderInv, RestoreInv
<1>5. HeardInv'
  <2>1. \A x \in Connectors : conner[x].at = "mark" => conner[x].conn # 0
    BY EslAssumption DEF EslAssumption, ClientInv, EslTypes, ConnInv, Busy
  <2>2. ready => current # 0
    BY DEF ClientInv, ConnInv
  <2> QED
    BY <1>1, <1>3, <2>1, <2>2 DEF ClientInv, SubscribeInv, HeardInv, Heard
<1> QED
  BY <1>2, <1>4, <1>5 DEF SubscribeInv

\* A connection that a step does not touch.
LEMMA PairKept ==
    ASSUME NEW i \in Conns, PairOn(i), inbox'[i] = inbox[i], wire'[i] = wire[i],
           reader'[i].at = "offer" => reader[i].at = "offer" /\ reader'[i].id = reader[i].id,
           commandMu' = commandMu, commandMu # NoOne => cmd'[commandMu] = cmd[commandMu],
           i \in listening => i \in listening'
    PROVE  PairOn(i)'
BY DEF PairOn, Waiting, AnsweredOn

\* FreeSWITCH answers the command of a connection.
LEMMA AnswersStep == ASSUME ClientInv, NEW i \in Conns, Answers(i) PROVE ClientInv'
<1>1. /\ inbox \in [Conns -> Seq(Nat)] /\ wire \in [Conns -> Seq(Nat)] /\ inbox[i] # <<>>
      /\ inbox' = [inbox EXCEPT ![i] = Tail(inbox[i])]
      /\ wire' = [wire EXCEPT ![i] = Append(wire[i], Head(inbox[i]))]
      /\ UNCHANGED <<made, link, stateVars, reader, subVars, cmdVars, conner>>
      /\ listening \subseteq listening' /\ listening' \subseteq listening \cup {i}
      /\ (\E x \in Connectors : cmd[x].id = Head(inbox[i])) => i \in listening'
  BY DEF ClientInv, EslTypes, Answers
<1>2. ConnInv' /\ MutexInv' /\ SubscribeInv' /\ RepliesMatch'
  BY <1>1, WireFrame
<1>3. UNCHANGED <<made, current, doneCh, ready, reader, cmd, commandMu, subMu, subscription, issued,
                  link, conner>>
  BY <1>1 DEF stateVars, cmdVars, subVars
<1>4. /\ inbox' \in [Conns -> Seq(Nat)] /\ wire' \in [Conns -> Seq(Nat)]
      /\ Len(inbox[i]) > 0 /\ Head(inbox[i]) = inbox[i][1]
      /\ Len(inbox'[i]) = Len(inbox[i]) - 1 /\ Len(wire'[i]) = Len(wire[i]) + 1
      /\ \A k \in 1..Len(wire[i]) : wire'[i][k] = wire[i][k]
      /\ wire'[i][Len(wire[i]) + 1] = Head(inbox[i])
      /\ \A j \in Conns \ {i} : inbox'[j] = inbox[j] /\ wire'[j] = wire[j]
      /\ Len(wire[i]) \in Nat /\ Len(inbox[i]) \in Nat
  BY <1>1
<1>5. EslTypes'
  BY <1>1, <1>3, <1>4 DEF ClientInv, EslTypes
<1>6. i \notin doneCh => PairOn(i)'
  <2> HAVE i \notin doneCh
  <2>1. /\ Len(inbox[i]) = 1 /\ Waiting(i) /\ Head(inbox[i]) = cmd[commandMu].id
        /\ reader[i].at # "offer" /\ \A k \in 1..Len(wire[i]) : wire[i][k] = EventFrame
    BY <1>1, <1>4 DEF ClientInv, PairInv, PairOn
  <2>2. AnsweredOn(i)' /\ Waiting(i)' /\ reader'[i].at # "offer"
    BY <1>1, <1>3, <2>1 DEF AnsweredOn, Waiting
  <2>3. \A k \in 1..Len(wire'[i]) : wire'[i][k] # EventFrame => k = Len(wire[i]) + 1
    <3>1. \A k \in 1..Len(wire'[i]) : k \in 1..Len(wire[i]) \/ k = Len(wire[i]) + 1
      BY <1>4
    <3> QED
      BY <1>4, <2>1, <3>1
  <2>4. Len(inbox'[i]) = 0
    BY <1>4, <2>1
  <2>5. Len(inbox'[i]) <= 1 /\ \A k \in 1..Len(inbox'[i]) : FALSE
    BY <2>4
  <2>6. \A k \in 1..Len(wire'[i]) : wire'[i][k] # EventFrame => wire'[i][k] = cmd'[commandMu'].id
    BY <1>3, <1>4, <2>1, <2>3
  <2>7. \A j, k \in 1..Len(wire'[i]) :
           wire'[i][j] # EventFrame /\ wire'[i][k] # EventFrame => j = k
    BY <2>3
  <2> QED
    BY <2>2, <2>4, <2>5, <2>6, <2>7 DEF PairOn
<1>7. \A j \in Conns \ doneCh : j # i => PairOn(j)'
  BY <1>1, <1>3, <1>4, PairKept DEF ClientInv, PairInv
<1>8. PairInv'
  BY <1>3, <1>6, <1>7 DEF PairInv
<1> QED
  BY <1>2, <1>5, <1>8 DEF ClientInv

\* FreeSWITCH sends an event.
LEMMA EmitsStep == ASSUME ClientInv, NEW i \in Conns, Emits(i) PROVE ClientInv'
<1>1. /\ inbox \in [Conns -> Seq(Nat)] /\ wire \in [Conns -> Seq(Nat)]
      /\ wire' = [wire EXCEPT ![i] = Append(wire[i], EventFrame)] /\ EventFrame \in Nat
      /\ UNCHANGED <<made, link, inbox, listening, stateVars, reader, subVars, cmdVars, conner>>
  BY DEF ClientInv, EslTypes, Emits, EventFrame
<1>2. ConnInv' /\ MutexInv' /\ SubscribeInv' /\ RepliesMatch'
  BY <1>1, WireFrame
<1>3. UNCHANGED <<made, current, doneCh, ready, reader, cmd, commandMu, subMu, subscription, issued,
                  link, conner, inbox, listening>>
  BY <1>1 DEF stateVars, cmdVars, subVars
<1>4. /\ wire' \in [Conns -> Seq(Nat)] /\ Len(wire'[i]) = Len(wire[i]) + 1
      /\ \A k \in 1..Len(wire[i]) : wire'[i][k] = wire[i][k]
      /\ wire'[i][Len(wire[i]) + 1] = EventFrame
      /\ \A j \in Conns \ {i} : wire'[j] = wire[j]
      /\ Len(wire[i]) \in Nat
  BY <1>1
<1>5. EslTypes'
  BY <1>1, <1>3, <1>4 DEF ClientInv, EslTypes
<1>6. \A k \in 1..Len(wire'[i]) :
         wire'[i][k] # EventFrame => k \in 1..Len(wire[i]) /\ wire'[i][k] = wire[i][k]
  <2>1. \A k \in 1..Len(wire'[i]) : k \in 1..Len(wire[i]) \/ k = Len(wire[i]) + 1
    BY <1>4
  <2> QED
    BY <1>4, <2>1
<1> HIDE DEF EventFrame
<1>7. i \notin doneCh => PairOn(i)'
  BY <1>3, <1>6 DEF ClientInv, PairInv, PairOn, Waiting, AnsweredOn, EventFrame
<1>8. \A j \in Conns \ doneCh : j # i => PairOn(j)'
  BY <1>3, <1>4, PairKept DEF ClientInv, PairInv
<1>9. PairInv'
  BY <1>3, <1>7, <1>8 DEF PairInv
<1> QED
  BY <1>2, <1>5, <1>9 DEF ClientInv

\* Nothing is read, written or offered.
LEMMA PairFrame ==
    ASSUME ClientInv, UNCHANGED <<doneCh, inbox, wire, cmd, commandMu>>, listening \subseteq listening',
           \A i \in Conns : reader'[i].at = "offer" => reader[i].at = "offer" /\ reader'[i].id = reader[i].id
    PROVE  PairInv'
BY DEF ClientInv, PairInv, PairOn, Waiting, AnsweredOn

\* A connection breaks.
LEMMA LinkFailsStep == ASSUME ClientInv, NEW i \in Conns, LinkFails(i) PROVE ClientInv'
<1>1. /\ link \in [Conns -> {"none", "up", "down"}] /\ link' = [link EXCEPT ![i] = "down"]
      /\ UNCHANGED <<made, inbox, wire, listening, stateVars, reader, subVars, cmdVars, conner>>
  BY DEF ClientInv, EslTypes, LinkFails
<1>2. ConnInv' /\ MutexInv' /\ SubscribeInv' /\ RepliesMatch'
  BY <1>1, WireFrame
<1>3. UNCHANGED <<made, current, doneCh, ready, reader, cmd, commandMu, subMu, subscription, issued,
                  conner, inbox, wire, listening>>
  BY <1>1 DEF stateVars, cmdVars, subVars
<1>4. PairInv'
  BY <1>3, PairFrame
<1>5. EslTypes'
  BY <1>1, <1>3 DEF ClientInv, EslTypes
<1> QED
  BY <1>2, <1>4, <1>5 DEF ClientInv

(***************************************************************************)
(* The read loop                                                           *)
(***************************************************************************)
\* The read loop takes a reply off the wire.
LEMMA ReadReplyStep == ASSUME ClientInv, NEW i \in Conns, ReadReply(i) PROVE ClientInv'
<1>1. /\ inbox \in [Conns -> Seq(Nat)] /\ wire \in [Conns -> Seq(Nat)] /\ wire[i] # <<>>
      /\ Head(wire[i]) # EventFrame
      /\ wire' = [wire EXCEPT ![i] = Tail(wire[i])]
      /\ reader' = [reader EXCEPT ![i] = [at |-> "offer", id |-> Head(wire[i])]]
      /\ UNCHANGED <<made, link, inbox, listening, stateVars, subVars, cmdVars, conner>>
  BY DEF ClientInv, EslTypes, ReadReply
<1>2. ConnInv' /\ MutexInv' /\ SubscribeInv' /\ RepliesMatch'
  BY <1>1, WireFrame
<1>3. UNCHANGED <<made, current, doneCh, ready, cmd, commandMu, subMu, subscription, issued,
                  link, conner, inbox, listening>>
  BY <1>1 DEF stateVars, cmdVars, subVars
<1>4. /\ wire' \in [Conns -> Seq(Nat)] /\ Len(wire[i]) > 0 /\ Len(wire'[i]) = Len(wire[i]) - 1
      /\ Head(wire[i]) = wire[i][1] /\ Head(wire[i]) \in Nat
      /\ \A k \in 1..Len(wire'[i]) : wire'[i][k] = wire[i][k + 1]
      /\ \A j \in Conns \ {i} : wire'[j] = wire[j]
      /\ Len(wire[i]) \in Nat
  BY <1>1
<1>5. EslTypes'
  <2>1. reader' \in [Conns -> ReaderRecord]
    BY <1>1, <1>4 DEF ClientInv, EslTypes, ReaderRecord
  <2> QED
    BY <1>1, <1>3, <1>4, <2>1 DEF ClientInv, EslTypes
<1>6. /\ reader'[i].at = "offer" /\ reader'[i].id = wire[i][1]
      /\ \A j \in Conns \ {i} : reader'[j] = reader[j]
  BY <1>1, <1>4 DEF ClientInv, EslTypes
<1>7. i \notin doneCh => PairOn(i)'
  <2> HAVE i \notin doneCh
  <2>1. 1 \in 1..Len(wire[i]) /\ wire[i][1] # EventFrame
    BY <1>1, <1>4
  <2>2. /\ Waiting(i) /\ wire[i][1] = cmd[commandMu].id /\ Len(inbox[i]) = 0 /\ AnsweredOn(i)
        /\ \A k \in 1..Len(wire[i]) : wire[i][k] # EventFrame => k = 1
    BY <2>1 DEF ClientInv, PairInv, PairOn
  <2>3. \A k \in 1..Len(wire'[i]) : wire'[i][k] = EventFrame
    <3>1. \A k \in 1..Len(wire'[i]) : k + 1 \in 1..Len(wire[i]) /\ k + 1 # 1
      BY <1>4
    <3> QED
      BY <1>4, <2>2, <3>1
  <2> QED
    BY <1>3, <1>6, <2>2, <2>3 DEF PairOn, Waiting, AnsweredOn
<1>8. \A j \in Conns \ doneCh : j # i => PairOn(j)'
  BY <1>3, <1>4, <1>6, PairKept DEF ClientInv, PairInv
<1>9. PairInv'
  BY <1>3, <1>7, <1>8 DEF PairInv
<1> QED
  BY <1>2, <1>5, <1>9 DEF ClientInv

\* The read loop takes an event off the wire, and fails when nobody can take it.
LEMMA ReadEventStep == ASSUME ClientInv, NEW i \in Conns, ReadEvent(i) PROVE ClientInv'
<1>1. /\ inbox \in [Conns -> Seq(Nat)] /\ wire \in [Conns -> Seq(Nat)] /\ wire[i] # <<>>
      /\ wire' = [wire EXCEPT ![i] = Tail(wire[i])] /\ reader[i].at = "read"
      /\ reader' = reader \/ reader' = [reader EXCEPT ![i].at = "failed"]
      /\ UNCHANGED <<made, link, inbox, listening, stateVars, subVars, cmdVars, conner>>
  BY DEF ClientInv, EslTypes, ReadEvent
<1>2. ConnInv' /\ MutexInv' /\ SubscribeInv' /\ RepliesMatch'
  BY <1>1, WireFrame
<1>3. UNCHANGED <<made, current, doneCh, ready, cmd, commandMu, subMu, subscription, issued,
                  link, conner, inbox, listening>>
  BY <1>1 DEF stateVars, cmdVars, subVars
<1>4. /\ wire' \in [Conns -> Seq(Nat)] /\ Len(wire[i]) > 0 /\ Len(wire'[i]) = Len(wire[i]) - 1
      /\ \A k \in 1..Len(wire'[i]) : wire'[i][k] = wire[i][k + 1]
      /\ \A j \in Conns \ {i} : wire'[j] = wire[j]
      /\ Len(wire[i]) \in Nat
  BY <1>1
<1>5. /\ reader' \in [Conns -> ReaderRecord] /\ reader'[i].at # "offer" /\ reader[i].at # "offer"
      /\ \A j \in Conns \ {i} : reader'[j] = reader[j]
  BY ZenonT(40), <1>1 DEF ClientInv, EslTypes, ReaderRecord
<1>6. EslTypes'
  BY <1>1, <1>3, <1>4, <1>5 DEF ClientInv, EslTypes
<1>7. i \notin doneCh => PairOn(i)'
  <2> HAVE i \notin doneCh
  <2>1. \A k \in 1..Len(wire'[i]) : k + 1 \in 1..Len(wire[i])
    BY <1>4
  <2>2. PairOn(i)
    BY DEF ClientInv, PairInv
  <2>3. \A j, k \in 1..Len(wire'[i]) :
            wire'[i][j] # EventFrame /\ wire'[i][k] # EventFrame => j = k
    <3> SUFFICES ASSUME NEW j \in 1..Len(wire'[i]), NEW k \in 1..Len(wire'[i]),
                        wire'[i][j] # EventFrame, wire'[i][k] # EventFrame
                 PROVE  j = k
      OBVIOUS
    <3>1. j + 1 = k + 1
      BY ZenonT(40), <1>4, <2>1, <2>2 DEF PairOn
    <3> QED
      BY <3>1
  <2>4. \A k \in 1..Len(wire'[i]) : wire'[i][k] # EventFrame =>
            /\ Waiting(i) /\ wire'[i][k] = cmd[commandMu].id
            /\ Len(inbox[i]) = 0 /\ AnsweredOn(i)
    BY <1>4, <2>1, <2>2 DEF PairOn
  <2> QED
    BY <1>3, <1>5, <2>2, <2>3, <2>4 DEF PairOn, Waiting, AnsweredOn
<1>8. \A j \in Conns \ doneCh : j # i => PairOn(j)'
  BY <1>3, <1>4, <1>5, PairKept DEF ClientInv, PairInv
<1>9. PairInv'
  BY <1>3, <1>7, <1>8 DEF PairInv
<1> QED
  BY <1>2, <1>6, <1>9 DEF ClientInv

\* The read loop fails, or gives up an offer nobody takes.
LEMMA ReaderEndsStep ==
    ASSUME ClientInv, NEW i \in Conns, ReadFails(i) \/ OfferEnds(i) PROVE ClientInv'
<1>1. /\ UNCHANGED <<made, link, inbox, wire, listening, stateVars, subVars, cmdVars, conner>>
      /\ \/ reader' = [reader EXCEPT ![i].at = "failed"]
         \/ \E at \in {"gone", "failed"} : reader' = [reader EXCEPT ![i] = [at |-> at, id |-> 0]]
  BY DEF ReadFails, OfferEnds, netVars
<1>2. ConnInv' /\ MutexInv' /\ SubscribeInv' /\ RepliesMatch'
  BY <1>1, WireFrame
<1>3. UNCHANGED <<made, current, doneCh, ready, cmd, commandMu, subMu, subscription, issued,
                  link, conner, inbox, wire, listening>>
  BY <1>1 DEF stateVars, cmdVars, subVars
<1>4. /\ reader' \in [Conns -> ReaderRecord] /\ reader'[i].at # "offer"
      /\ \A j \in Conns \ {i} : reader'[j] = reader[j]
  <2>1. reader \in [Conns -> ReaderRecord]
    BY DEF ClientInv, EslTypes
  <2>2. PICK new \in ReaderRecord : new.at # "offer" /\ reader' = [reader EXCEPT ![i] = new]
    <3>1. [reader[i] EXCEPT !.at = "failed"] \in ReaderRecord
      BY <2>1 DEF ReaderRecord
    <3>2. \A at \in {"gone", "failed"} : [at |-> at, id |-> 0] \in ReaderRecord
      BY DEF ReaderRecord
    <3>3. [reader[i] EXCEPT !.at = "failed"].at = "failed"
      BY <2>1 DEF ReaderRecord
    <3> QED
      BY <1>1, <3>1, <3>2, <3>3
  <2> QED
    BY <2>1, <2>2
<1>5. EslTypes'
  BY <1>3, <1>4 DEF ClientInv, EslTypes
<1>6. PairInv'
  BY <1>3, <1>4, PairFrame
<1> QED
  BY <1>2, <1>5, <1>6 DEF ClientInv

\* Events are consumed, and the client is closed: commands and connections go on.
LEMMA QuietClient ==
    ASSUME ClientInv,
           UNCHANGED <<made, inbox, wire, listening, current, doneCh, reconnecting, reader, subVars,
                       cmdVars, conner>>,
           ready' \in {ready, FALSE}, link' \in [Conns -> {"none", "up", "down"}],
           \A i \in Conns : link'[i] = "up" => link[i] = "up"
    PROVE  ClientInv'
<1>1. UNCHANGED <<made, current, doneCh, reconnecting, cmd, commandMu, subMu, subscription, issued,
                  mispaired, conner, inbox, wire, listening, reader>>
  BY DEF cmdVars, subVars
<1>2. EslTypes'
  BY <1>1 DEF ClientInv, EslTypes
<1>3. ConnInv' /\ MutexInv' /\ RepliesMatch'
  <2>1. ready' => ready
    OBVIOUS
  <2>2. ConnInv'
    BY <1>1, <2>1 DEF ClientInv, ConnInv, Busy
  <2> QED
    BY <1>1, <2>2 DEF ClientInv, MutexInv, RepliesMatch
<1>4. PairInv'
  BY <1>1, PairFrame
<1>5. OrderInv' /\ RestoreInv'
  BY <1>1 DEF ClientInv, SubscribeInv, OrderInv, RestoreInv
<1>6. HeardInv'
  <2>1. current # 0 => current \in Conns /\ (Heard(current) => Heard(current)')
    <3>1. current # 0 => current \in Conns
      BY EslAssumption DEF EslAssumption, ClientInv, EslTypes, Conns
    <3> QED
      BY <1>1, <3>1 DEF Heard
  <2>2. \A x \in Connectors : conner[x].at = "mark" => conner[x].conn # 0
    BY EslAssumption DEF EslAssumption, ClientInv, EslTypes, ConnInv, Busy
  <2>3. ready => current # 0
    BY DEF ClientInv, ConnInv
  <2>4. ready' => ready
    OBVIOUS
  <2>5. Heard(current)' <=> (link'[current] = "up" => current \in listening)
    BY <1>1 DEF Heard
  <2>6. \A x \in Connectors : subscription /\ conner[x].at = "mark" /\ conner[x].conn = current
          => Heard(current)'
    BY <2>1, <2>2 DEF ClientInv, SubscribeInv, HeardInv
  <2>7. ready' /\ subscription => Heard(current)'
    BY <2>1, <2>3, <2>4 DEF ClientInv, SubscribeInv, HeardInv
  <2>8. conner["main"].at = "subscribe" /\ cmd["main"].at \in {"sent", "ok"}
          /\ cmd["main"].conn # current
             => ~ready' /\ \A x \in Connectors : conner[x].at = "mark" => conner[x].conn # current
    BY <2>4 DEF ClientInv, SubscribeInv, HeardInv
  <2> QED
    BY <1>1, <2>6, <2>7, <2>8 DEF HeardInv
<1> QED
  BY <1>2, <1>3, <1>4, <1>5, <1>6 DEF ClientInv, SubscribeInv

\* The same, of the actions.
LEMMA CloseStep ==
    ASSUME ClientInv, Consume \/ CloseStarts \/ CloseCancels \/ CloseReturns PROVE ClientInv'
<1>1. link \in [Conns -> {"none", "up", "down"}]
  BY DEF ClientInv, EslTypes
<1>2. UNCHANGED <<made, inbox, wire, listening, current, doneCh, reconnecting, reader, subVars,
                  cmdVars, conner>>
  BY DEF Consume, CloseStarts, CloseCancels, CloseReturns, netVars, stateVars
<1>3. ready' \in {ready, FALSE}
  BY DEF Consume, CloseStarts, CloseCancels, CloseReturns, netVars, stateVars
<1>4. link' = link \/ link' = [link EXCEPT ![closer.conn] = "down"]
  BY DEF Consume, CloseStarts, CloseCancels, CloseReturns, netVars, stateVars
<1>5. /\ link' \in [Conns -> {"none", "up", "down"}]
      /\ \A i \in Conns : link'[i] = "up" => link[i] = "up"
  BY <1>1, <1>4
<1> QED
  BY <1>2, <1>3, <1>5, QuietClient

\* A connection is retired, by its reader or by a command that timed out; who waits for it on
\* another connection does not notice.
LEMMA RetireFacts ==
    ASSUME ClientInv, NEW i \in Conns, Retire(i)
    PROVE  /\ current' \in {current, 0} /\ (current' = current \/ current = i)
           /\ doneCh \subseteq doneCh' /\ doneCh' \subseteq doneCh \cup {current}
           /\ (current # 0 => current \in doneCh' \cup {current'})
           /\ i = current => i \in doneCh' /\ current' = 0
           /\ doneCh' \subseteq 1..made /\ current' \notin doneCh'
           /\ (ready' => ready /\ current' = current)
           /\ (current' # current => ready' = FALSE)
           /\ ready' \in BOOLEAN
           /\ link' \in [Conns -> {"none", "up", "down"}] /\ inbox' \in [Conns -> Seq(Nat)]
           /\ wire' \in [Conns -> Seq(Nat)]
           /\ listening' \subseteq listening /\ listening \subseteq listening' \cup doneCh'
           /\ \A j \in Conns \ doneCh' :
                 inbox'[j] = inbox[j] /\ wire'[j] = wire[j] /\ link'[j] = link[j]
                    /\ (j \in listening => j \in listening')
<1> USE EslAssumption DEF EslAssumption, Conns
<1>1. /\ current \in 0..made /\ made \in 0..MaxConns /\ doneCh \subseteq 1..made
      /\ current \notin doneCh /\ ready \in BOOLEAN
      /\ link \in [Conns -> {"none", "up", "down"}] /\ inbox \in [Conns -> Seq(Nat)]
      /\ wire \in [Conns -> Seq(Nat)] /\ i # 0
  BY DEF ClientInv, EslTypes, ConnInv
<1>2. CASE current # i
  <2>1. UNCHANGED <<current, ready, doneCh, link, inbox, wire, listening>>
    BY <1>2 DEF Retire
  <2> QED
    BY <1>1, <1>2, <2>1
<1>3. CASE current = i
  <2>1. /\ current' = 0 /\ ready' = FALSE /\ doneCh' = doneCh \cup {i}
        /\ link' = [link EXCEPT ![i] = "down"] /\ inbox' = [inbox EXCEPT ![i] = <<>>]
        /\ wire' = [wire EXCEPT ![i] = <<>>] /\ listening' = listening \ {i}
    BY <1>3 DEF Retire
  <2>2. <<>> \in Seq(Nat)
    OBVIOUS
  <2>3. inbox' \in [Conns -> Seq(Nat)] /\ wire' \in [Conns -> Seq(Nat)]
    BY <1>1, <2>1, <2>2
  <2>4. \A j \in Conns \ doneCh' :
           inbox'[j] = inbox[j] /\ wire'[j] = wire[j] /\ link'[j] = link[j]
              /\ (j \in listening => j \in listening')
    BY <1>1, <2>1
  <2>5. doneCh' \subseteq 1..made /\ current' \notin doneCh'
    BY <1>1, <1>3, <2>1
  <2>6. link' \in [Conns -> {"none", "up", "down"}]
    BY <1>1, <2>1
  <2> QED
    BY <1>1, <1>3, <2>1, <2>3, <2>4, <2>5, <2>6
<1> QED
  BY <1>2, <1>3

\* Nothing is pending on a connection.
IdleOn(i) ==
    /\ Len(inbox[i]) = 0 /\ reader[i].at # "offer"
    /\ \A k \in 1..Len(wire[i]) : wire[i][k] = EventFrame

\* On a connection that is not retired and that nobody waits on, nothing is pending.
LEMMA NothingPending ==
    ASSUME ClientInv, NEW i \in Conns \ doneCh, ~Waiting(i)
    PROVE  IdleOn(i)
<1>1. PairOn(i) /\ Len(inbox[i]) \in Nat
  BY DEF ClientInv, PairInv, EslTypes
<1>2. Len(inbox[i]) = 0
  <2>1. \A k \in 1..Len(inbox[i]) : FALSE
    BY <1>1 DEF PairOn
  <2>2. 1 \notin 1..Len(inbox[i])
    BY <2>1
  <2> QED
    BY <1>1, <2>2
<1> QED
  BY <1>1, <1>2 DEF PairOn, IdleOn

\* It stays so until something is written, whoever waits.
LEMMA IdlePair ==
    ASSUME NEW i \in Conns, IdleOn(i), inbox'[i] = inbox[i], wire'[i] = wire[i],
           reader'[i].at # "offer"
    PROVE  PairOn(i)'
<1> HIDE DEF EventFrame
<1> QED
  BY DEF IdleOn, PairOn, EventFrame

\* A connection is retired: what it does to the connectors and the subscriptions.
LEMMA RetireFrame ==
    ASSUME ClientInv, NEW i \in Conns, Retire(i), UNCHANGED <<made, subVars, conner>>,
           \A y \in Connectors : cmd'[y].at \in {"sent", "ok"} => cmd'[y] = cmd[y]
    PROVE  ConnInv' /\ SubscribeInv'
<1>1. UNCHANGED <<made, subMu, subscription, conner>>
  BY DEF subVars
<1>2. /\ current' \in {current, 0} /\ (current' = current \/ current = i)
      /\ doneCh \subseteq doneCh' /\ doneCh' \subseteq doneCh \cup {current}
      /\ (current # 0 => current \in doneCh' \cup {current'})
      /\ current' \notin doneCh'
      /\ (ready' => ready /\ current' = current)
      /\ (current' # current => ready' = FALSE)
      /\ listening \subseteq listening' \cup doneCh'
      /\ \A j \in Conns \ doneCh' : link'[j] = link[j] /\ (j \in listening => j \in listening')
  BY RetireFacts
<1>3. \A x \in Connectors : Busy(x) => conner[x].conn # 0
  BY EslAssumption DEF EslAssumption, ClientInv, EslTypes, ConnInv
<1>4. current \in Conns \cup {0} /\ current \notin doneCh
  <2>1. current \in Conns \cup {0}
    BY EslAssumption DEF EslAssumption, ClientInv, EslTypes, Conns
  <2> QED
    BY <2>1 DEF ClientInv, ConnInv
<1>5. ConnInv'
  <2>1. current' \notin doneCh' /\ (ready' => current' # 0)
    BY <1>2 DEF ClientInv, ConnInv
  <2>2. \A x \in Connectors : conner[x].at = "install" => conner[x].conn \notin doneCh' \cup {current'}
    <3> SUFFICES ASSUME NEW x \in Connectors, conner[x].at = "install"
                 PROVE  conner[x].conn \notin doneCh' \cup {current'}
      OBVIOUS
    <3>1. conner[x].conn # 0 /\ conner[x].conn \notin doneCh \cup {current}
      BY <1>3 DEF Busy, ClientInv, ConnInv
    <3> QED
      BY <1>2, <3>1
  <2>3. \A x \in Connectors : conner[x].at \in {"snapshot", "restore", "mark"}
          => conner[x].conn \in doneCh' \cup {current'}
    <3> SUFFICES ASSUME NEW x \in Connectors, conner[x].at \in {"snapshot", "restore", "mark"}
                 PROVE  conner[x].conn \in doneCh' \cup {current'}
      OBVIOUS
    <3>1. conner[x].conn # 0 /\ conner[x].conn \in doneCh \cup {current}
      BY <1>3 DEF Busy, ClientInv, ConnInv
    <3> QED
      BY <1>2, <3>1
  <2> QED
    BY <1>1, <2>1, <2>2, <2>3 DEF ClientInv, ConnInv, Busy
<1>6. OrderInv'
  BY <1>1 DEF ClientInv, SubscribeInv, OrderInv
<1>7. RestoreInv'
  <2>1. \A x \in Connectors : cmd'[x].at = "ok" => cmd'[x].conn \in listening' \cup doneCh'
    BY <1>2 DEF ClientInv, SubscribeInv, RestoreInv
  <2>2. \A x \in Connectors : conner[x].at = "restore" /\ cmd'[x].at \in {"sent", "ok"}
          /\ conner[x].conn = current' => cmd'[x].conn = current'
    BY <1>2, <1>3 DEF Busy, ClientInv, SubscribeInv, RestoreInv
  <2> QED
    BY <1>1, <2>1, <2>2 DEF RestoreInv
<1>8. HeardInv'
  <2>1. CASE current' = current
    <3>1. current # 0 => (Heard(current) => Heard(current)')
      BY <1>2, <1>4, <2>1 DEF Heard
    <3>2. ready => current # 0
      BY DEF ClientInv, ConnInv
    <3>3. \A x \in Connectors : subscription /\ conner[x].at = "mark" /\ conner[x].conn = current
          => Heard(current)'
      BY <1>3, <3>1 DEF Busy, ClientInv, SubscribeInv, HeardInv
    <3>4. ready' /\ subscription => Heard(current)'
      BY <1>2, <3>1, <3>2 DEF ClientInv, SubscribeInv, HeardInv
    <3>5. "main" \in Connectors
      BY DEF Connectors
    <3>6. conner["main"].at = "subscribe" /\ cmd'["main"].at \in {"sent", "ok"}
          /\ cmd'["main"].conn # current
             => ~ready' /\ \A x \in Connectors : conner[x].at = "mark" => conner[x].conn # current
      BY <1>2, <3>5 DEF ClientInv, SubscribeInv, HeardInv
    <3> QED
      BY <1>1, <2>1, <3>3, <3>4, <3>6 DEF HeardInv
  <2>2. CASE current' # current
    BY <1>1, <1>2, <1>3, <2>2 DEF HeardInv, Busy
  <2> QED
    BY <2>1, <2>2
<1> QED
  BY <1>5, <1>6, <1>7, <1>8 DEF SubscribeInv

\* The read loop takes its connection down.
LEMMA ReaderDisconnectsStep ==
    ASSUME ClientInv, NEW i \in Conns, ReaderDisconnects(i) PROVE ClientInv'
<1>1. /\ reader[i].at = "failed" /\ Retire(i)
      /\ UNCHANGED <<made, closed, canceled, reconnecting, subVars, cmdVars, conner>>
      /\ \E at \in {"restart", "gone"} : reader' = [reader EXCEPT ![i] = [at |-> at, id |-> 0]]
  BY DEF ReaderDisconnects
<1>2. UNCHANGED <<made, reconnecting, subMu, subscription, commandMu, cmd, issued, mispaired, conner>>
  BY <1>1 DEF subVars, cmdVars
<1>3. ConnInv' /\ SubscribeInv'
  BY <1>1, <1>2, RetireFrame
<1>4. /\ reader' \in [Conns -> ReaderRecord] /\ reader'[i].at # "offer"
      /\ \A j \in Conns \ {i} : reader'[j] = reader[j]
  <2>1. \A at \in {"restart", "gone"} : [at |-> at, id |-> 0] \in ReaderRecord
    BY DEF ReaderRecord
  <2>2. reader \in [Conns -> ReaderRecord]
    BY DEF ClientInv, EslTypes
  <2> QED
    BY <1>1, <2>1, <2>2
<1>5. /\ doneCh \subseteq doneCh' /\ current' \in {current, 0} /\ doneCh' \subseteq 1..made
      /\ ready' \in BOOLEAN
      /\ link' \in [Conns -> {"none", "up", "down"}] /\ inbox' \in [Conns -> Seq(Nat)]
      /\ wire' \in [Conns -> Seq(Nat)]
      /\ listening' \subseteq listening
      /\ (current # 0 => current \in doneCh' \cup {current'})
      /\ \A j \in Conns \ doneCh' :
            inbox'[j] = inbox[j] /\ wire'[j] = wire[j] /\ (j \in listening => j \in listening')
  BY <1>1, RetireFacts
<1>6. EslTypes'
  <2>1. current' \in 0..made
    BY <1>5, EslAssumption DEF EslAssumption, ClientInv, EslTypes
  <2> QED
    BY <1>2, <1>4, <1>5, <2>1 DEF ClientInv, EslTypes
<1>7. PairInv'
  <2>1. \A j \in Conns \ doneCh' : PairOn(j)
    BY <1>5 DEF ClientInv, PairInv
  <2>2. \A j \in Conns \ doneCh' : PairOn(j)'
    BY <1>2, <1>4, <1>5, <2>1, PairKept
  <2> QED
    BY <2>2 DEF PairInv
<1>8. MutexInv' /\ RepliesMatch'
  BY <1>2, <1>5 DEF ClientInv, MutexInv, RepliesMatch
<1> QED
  BY <1>3, <1>6, <1>7, <1>8 DEF ClientInv

\* Whoever waits for a command waits for it on its connection, which is the present one or retired.
LEMMA SentFacts ==
    ASSUME ClientInv, NEW x \in Commanders, cmd[x].at \in {"sent", "restart"}
    PROVE  /\ commandMu = x /\ cmd[x].conn \in Conns /\ cmd[x].conn \in doneCh \cup {current}
           /\ x # NoOne /\ \A y \in Commanders : cmd[y].at \in {"sent", "restart"} => y = x
           /\ cmd[x] \in CmdRecord
<1>1. commandMu = x /\ cmd[x].conn \in doneCh \cup {current} /\ cmd[x].conn # 0
  BY DEF ClientInv, MutexInv
<1>2. cmd[x] \in CmdRecord /\ cmd[x].conn \in 0..MaxConns
  BY DEF ClientInv, EslTypes, CmdRecord
<1>3. x # NoOne
  BY EslAssumption DEF EslAssumption, Commanders, Connectors
<1>4. \A y \in Commanders : cmd[y].at \in {"sent", "restart"} => y = x
  BY <1>1 DEF ClientInv, MutexInv
<1> QED
  BY <1>1, <1>2, <1>3, <1>4, EslAssumption DEF EslAssumption, Conns

\* A command times out and retires its connection: the connection of a later command never carries
\* its reply.
LEMMA TimesOutStep == ASSUME ClientInv, NEW x \in Commanders, TimesOut(x) PROVE ClientInv'
<1> DEFINE i == cmd[x].conn
<1>1. /\ cmd[x].at = "sent" /\ Retire(i)
      /\ UNCHANGED <<made, closed, canceled, reconnecting, reader, subVars, conner, issued, mispaired>>
      /\ commandMu' = IF cmd'[x].at = "restart" THEN x ELSE NoOne
      /\ \E at \in {"restart", "error"} : cmd' = [cmd EXCEPT ![x].at = at]
  BY DEF TimesOut
<1>2. UNCHANGED <<made, reconnecting, reader, subMu, subscription, conner, issued, mispaired>>
  BY <1>1 DEF subVars
<1>3. /\ commandMu = x /\ i \in Conns /\ i \in doneCh \cup {current} /\ x # NoOne
      /\ (\A y \in Commanders : cmd[y].at \in {"sent", "restart"} => y = x)
      /\ cmd[x] \in CmdRecord /\ cmd \in [Commanders -> CmdRecord]
  BY <1>1, SentFacts DEF ClientInv, EslTypes
<1>4. /\ cmd' \in [Commanders -> CmdRecord] /\ cmd'[x].at \in {"restart", "error"}
      /\ cmd'[x].conn = i /\ \A y \in Commanders \ {x} : cmd'[y] = cmd[y]
  <2>1. PICK at \in {"restart", "error"} : cmd' = [cmd EXCEPT ![x] = [cmd[x] EXCEPT !.at = at]]
    BY <1>1
  <2>2. /\ [cmd[x] EXCEPT !.at = at] \in CmdRecord /\ [cmd[x] EXCEPT !.at = at].at = at
        /\ [cmd[x] EXCEPT !.at = at].conn = i
    BY <1>3 DEF CmdRecord
  <2> QED
    BY <1>3, <2>1, <2>2
<1>5. Connectors \subseteq Commanders
  BY DEF Commanders
<1>6. ConnInv' /\ SubscribeInv'
  <2>1. \A y \in Connectors : cmd'[y].at \in {"sent", "ok"} => cmd'[y] = cmd[y]
    BY <1>4, <1>5
  <2> QED
    BY <1>1, <1>3, <2>1, RetireFrame
<1>7. /\ doneCh \subseteq doneCh' /\ current' \in {current, 0} /\ doneCh' \subseteq 1..made
      /\ i = current => i \in doneCh'
      /\ ready' \in BOOLEAN
      /\ link' \in [Conns -> {"none", "up", "down"}] /\ inbox' \in [Conns -> Seq(Nat)]
      /\ wire' \in [Conns -> Seq(Nat)]
      /\ listening' \subseteq listening
      /\ \A j \in Conns \ doneCh' :
            inbox'[j] = inbox[j] /\ wire'[j] = wire[j]
  BY <1>1, <1>3, RetireFacts
<1>8. EslTypes'
  <2>1. current' \in 0..made
    BY <1>7, EslAssumption DEF EslAssumption, ClientInv, EslTypes
  <2>2. commandMu' \in Commanders \cup {NoOne}
    BY <1>1
  <2> QED
    BY <1>2, <1>4, <1>7, <2>1, <2>2 DEF ClientInv, EslTypes
<1>9. PairInv'
  <2>1. SUFFICES ASSUME NEW j \in Conns \ doneCh' PROVE PairOn(j)'
    BY DEF PairInv
  <2>2. j # i /\ j \notin doneCh
    BY <1>3, <1>7
  <2>3. ~Waiting(j)
    BY <1>3, <2>2 DEF Waiting
  <2>4. IdleOn(j)
    BY <2>2, <2>3, NothingPending
  <2>5. reader'[j].at # "offer"
    BY <1>2, <2>4 DEF IdleOn
  <2> QED
    BY <1>7, <2>4, <2>5, IdlePair
<1>10. MutexInv'
  <2>1. \A y \in Commanders : cmd'[y].at \in {"sent", "restart"} <=> commandMu' = y
    <3>1. commandMu' \in {x, NoOne} /\ (commandMu' = x <=> cmd'[x].at = "restart")
      BY <1>1, <1>3
    <3>2. \A y \in Commanders \ {x} : cmd'[y].at \notin {"sent", "restart"} /\ y # NoOne
      BY <1>3, <1>4, EslAssumption DEF EslAssumption, Commanders, Connectors
    <3> QED
      BY <1>4, <3>1, <3>2
  <2>2. \A y \in Commanders : cmd'[y].at \in {"sent", "restart"}
          => cmd'[y].conn # 0 /\ cmd'[y].conn \in doneCh' \cup {current'}
    <3>1. i \in doneCh' /\ i # 0
      BY <1>3, <1>7, EslAssumption DEF EslAssumption, Conns
    <3>2. \A y \in Commanders \ {x} : cmd'[y].at \notin {"sent", "restart"}
      BY <1>3, <1>4
    <3> QED
      BY <1>4, <3>1, <3>2
  <2>3. \A y \in Connectors : cmd'[y].at # "none" => conner[y].at \in {"restore", "subscribe"}
    <3>1. \A y \in Connectors : cmd'[y].at # "none" => cmd[y].at # "none"
      BY <1>1, <1>4, <1>5
    <3> QED
      BY <3>1 DEF ClientInv, MutexInv
  <2> QED
    BY <1>2, <2>1, <2>2, <2>3 DEF ClientInv, MutexInv
<1>11. RepliesMatch'
  BY <1>2 DEF ClientInv, RepliesMatch
<1> QED
  BY <1>6, <1>8, <1>9, <1>10, <1>11 DEF ClientInv

(***************************************************************************)
(* Connectors that come to rest, and commands that end                     *)
(***************************************************************************)
\* A connector fails, starts over or is connected; the client may be marked ready on its connection.
LEMMA RestFrame ==
    ASSUME ClientInv, NEW x \in Connectors, NEW new \in ConnerRecord,
           conner' = [conner EXCEPT ![x] = new], new.at \in {"idle", "dial", "failed", "connected"},
           x = "loop" \/ conner[x].at # "done",
           UNCHANGED <<made, current, doneCh, listening, subscription>>,
           \A i \in Conns : link'[i] = "up" => link[i] = "up",
           ready' => ready \/ (conner[x].at = "mark" /\ conner[x].conn = current),
           \A y \in Connectors : cmd'[y].at \in {"sent", "ok"} => cmd'[y] = cmd[y]
    PROVE  ConnInv' /\ SubscribeInv'
<1>1. /\ conner'[x] = new /\ \A y \in Connectors \ {x} : conner'[y] = conner[y]
  BY DEF ClientInv, EslTypes
<1>2. \A y \in Connectors : conner'[y].at \in {"install", "snapshot", "restore", "mark", "subscribe"}
         => conner'[y] = conner[y]
  BY <1>1
<1>3. \A y \in Connectors : Busy(y) => conner[y].conn # 0
  BY EslAssumption DEF EslAssumption, ClientInv, EslTypes, ConnInv
<1>4. ready' => current # 0
  BY <1>3 DEF ClientInv, ConnInv, Busy
<1>5. ConnInv'
  <2>1. \A y \in Connectors : Busy(y)' => Busy(y) /\ conner'[y] = conner[y]
    BY <1>2 DEF Busy
  <2>2. current' \notin doneCh' /\ (ready' => current' # 0)
    BY <1>4 DEF ClientInv, ConnInv
  <2>3. \A y \in Connectors : Busy(y)' => conner'[y].conn \in 1..made'
    BY <2>1 DEF ClientInv, ConnInv
  <2>4. \A y, z \in Connectors : Busy(y)' /\ Busy(z)' /\ conner'[y].conn = conner'[z].conn => y = z
    BY <2>1 DEF ClientInv, ConnInv
  <2>5. \A y \in Connectors : conner'[y].at = "install" => conner'[y].conn \notin doneCh' \cup {current'}
    BY <1>2 DEF ClientInv, ConnInv
  <2>6. \A y \in Connectors : conner'[y].at \in {"snapshot", "restore", "mark"}
          => conner'[y].conn \in doneCh' \cup {current'}
    BY <1>2 DEF ClientInv, ConnInv
  <2> QED
    BY <2>2, <2>3, <2>4, <2>5, <2>6 DEF ConnInv, Busy
<1>6. OrderInv'
  <2>1. "main" \in Connectors /\ (subscription => conner["main"].at = "done")
    BY DEF Connectors, ClientInv, SubscribeInv, OrderInv
  <2>2. subscription => conner'["main"].at = "done"
    BY <1>1, <2>1
  <2> QED
    BY <1>2, <2>2 DEF ClientInv, SubscribeInv, OrderInv
<1>7. RestoreInv'
  BY <1>2 DEF ClientInv, SubscribeInv, RestoreInv
<1>8. HeardInv'
  <2>1. current \in Conns \/ current = 0
    BY EslAssumption DEF EslAssumption, ClientInv, EslTypes, Conns
  <2>2. current # 0 => (Heard(current) => Heard(current)')
    BY <2>1 DEF Heard
  <2>3. \A y \in Connectors : subscription /\ conner'[y].at = "mark" /\ conner'[y].conn = current
          => Heard(current)'
    BY <1>2, <1>3, <2>2 DEF Busy, ClientInv, SubscribeInv, HeardInv
  <2>4. ready' /\ subscription => Heard(current)'
    BY <1>4, <2>2 DEF ClientInv, SubscribeInv, HeardInv
  <2>5. conner'["main"].at = "subscribe" /\ cmd'["main"].at \in {"sent", "ok"}
          /\ cmd'["main"].conn # current
             => ~ready' /\ \A y \in Connectors : conner'[y].at = "mark" => conner'[y].conn # current
    <3>1. "main" \in Connectors
      BY DEF Connectors
    <3> QED
      BY <1>2, <3>1 DEF ClientInv, SubscribeInv, HeardInv
  <2> QED
    BY <2>3, <2>4, <2>5 DEF HeardInv
<1> QED
  BY <1>5, <1>6, <1>7, <1>8 DEF SubscribeInv

\* A command that nobody answered ends, and whoever waited is free.
LEMMA CommandEnds ==
    ASSUME ClientInv, NEW x \in Commanders, cmd[x].at \in {"sent", "restart"},
           cmd[x].at = "sent" => cmd[x].conn \in doneCh,
           UNCHANGED <<doneCh, current, inbox, wire, subMu>>, commandMu' = NoOne,
           cmd' = [cmd EXCEPT ![x].at = "error"],
           \A i \in Conns : reader'[i].at = "offer" => reader[i].at = "offer"
    PROVE  /\ PairInv' /\ cmd' \in [Commanders -> CmdRecord]
           /\ \A y \in Commanders : cmd'[y].at \notin {"sent", "restart"} /\ commandMu' # y
           /\ \A y \in Connectors : cmd'[y].at \in {"sent", "ok"} => cmd'[y] = cmd[y]
           /\ \A y \in Connectors : cmd'[y].at # "none" => conner[y].at \in {"restore", "subscribe"}
<1>1. /\ commandMu = x /\ cmd[x].conn \in Conns /\ x # NoOne
      /\ (\A y \in Commanders : cmd[y].at \in {"sent", "restart"} => y = x)
      /\ cmd[x] \in CmdRecord /\ cmd \in [Commanders -> CmdRecord]
  BY SentFacts DEF ClientInv, EslTypes
<1>2. /\ cmd' \in [Commanders -> CmdRecord] /\ cmd'[x].at = "error"
      /\ \A y \in Commanders \ {x} : cmd'[y] = cmd[y]
  <2>1. cmd' = [cmd EXCEPT ![x] = [cmd[x] EXCEPT !.at = "error"]]
    OBVIOUS
  <2>2. [cmd[x] EXCEPT !.at = "error"] \in CmdRecord /\ [cmd[x] EXCEPT !.at = "error"].at = "error"
    BY <1>1 DEF CmdRecord
  <2> QED
    BY <1>1, <2>1, <2>2
<1>3. PairInv'
  <2>1. SUFFICES ASSUME NEW j \in Conns \ doneCh PROVE PairOn(j)'
    BY DEF PairInv
  <2>2. ~Waiting(j)
    BY <1>1 DEF Waiting
  <2>3. IdleOn(j)
    BY <2>2, NothingPending
  <2> QED
    BY <2>3, IdlePair DEF IdleOn
<1>4. \A y \in Commanders : cmd'[y].at \notin {"sent", "restart"} /\ commandMu' # y
  BY <1>1, <1>2, EslAssumption DEF EslAssumption, Commanders, Connectors
<1>5. Connectors \subseteq Commanders
  BY DEF Commanders
<1>6. \A y \in Connectors : cmd'[y].at \in {"sent", "ok"} => cmd'[y] = cmd[y]
  BY <1>2, <1>5
<1>7. \A y \in Connectors : cmd'[y].at # "none" => conner[y].at \in {"restore", "subscribe"}
  <2>1. \A y \in Connectors : cmd'[y].at # "none" => cmd[y].at # "none"
    BY <1>1, <1>2, <1>5
  <2> QED
    BY <2>1 DEF ClientInv, MutexInv
<1> QED
  BY <1>2, <1>3, <1>4, <1>6, <1>7

\* A command ends and the connectors go on.
LEMMA KeptFrame ==
    ASSUME ClientInv,
           UNCHANGED <<made, current, doneCh, ready, link, listening, subscription, conner>>,
           \A y \in Connectors : cmd'[y].at \in {"sent", "ok"} => cmd'[y] = cmd[y]
    PROVE  ConnInv' /\ SubscribeInv'
<1>1. ConnInv'
  BY DEF ClientInv, ConnInv, Busy
<1>2. OrderInv' /\ RestoreInv'
  BY DEF ClientInv, SubscribeInv, OrderInv, RestoreInv
<1>3. HeardInv'
  <2>1. "main" \in Connectors
    BY DEF Connectors
  <2> QED
    BY <2>1 DEF ClientInv, SubscribeInv, HeardInv, Heard
<1> QED
  BY <1>1, <1>2, <1>3 DEF SubscribeInv

\* A command sees its connection closed.
LEMMA SeesClosedStep == ASSUME ClientInv, NEW x \in Commanders, SeesClosed(x) PROVE ClientInv'
<1>1. /\ cmd[x].at = "sent" /\ cmd[x].conn \in doneCh
      /\ cmd' = [cmd EXCEPT ![x].at = "error"] /\ commandMu' = NoOne
      /\ UNCHANGED <<made, link, inbox, wire, listening, current, doneCh, ready, reconnecting, reader,
                     subscription, subMu, conner, issued, mispaired>>
  BY DEF SeesClosed, netVars, stateVars, subVars
<1>2. /\ PairInv' /\ cmd' \in [Commanders -> CmdRecord]
      /\ \A y \in Commanders : cmd'[y].at \notin {"sent", "restart"} /\ commandMu' # y
      /\ \A y \in Connectors : cmd'[y].at \in {"sent", "ok"} => cmd'[y] = cmd[y]
      /\ \A y \in Connectors : cmd'[y].at # "none" => conner[y].at \in {"restore", "subscribe"}
  BY <1>1, CommandEnds
<1>3. ConnInv' /\ SubscribeInv'
  BY <1>1, <1>2, KeptFrame
<1>4. EslTypes'
  BY <1>1, <1>2 DEF ClientInv, EslTypes
<1>5. MutexInv' /\ RepliesMatch'
  BY <1>1, <1>2 DEF ClientInv, MutexInv, RepliesMatch
<1> QED
  BY <1>2, <1>3, <1>4, <1>5 DEF ClientInv

\* StartReconnect finds the loop at rest, or leaves it alone.
LEMMA StartFacts ==
    ASSUME ClientInv, StartReconnect
    PROVE  /\ \/ reconnecting' = reconnecting /\ conner' = conner
              \/ /\ reconnecting' = TRUE /\ conner["loop"].at = "idle"
                 /\ conner' = [conner EXCEPT !["loop"] = [at |-> "dial", conn |-> 0]]
           /\ conner' \in [Connectors -> ConnerRecord]
<1>1. conner \in [Connectors -> ConnerRecord] /\ (~reconnecting => conner["loop"].at = "idle")
  BY DEF ClientInv, EslTypes, MutexInv
<1>2. [at |-> "dial", conn |-> 0] \in ConnerRecord
  BY EslAssumption DEF EslAssumption, ConnerRecord
<1> QED
  BY <1>1, <1>2 DEF StartReconnect

\* What it does to the invariant.
LEMMA StartFrame ==
    ASSUME ClientInv, StartReconnect,
           UNCHANGED <<made, current, doneCh, ready, link, listening, subscription>>,
           \A y \in Connectors : cmd'[y].at \in {"sent", "ok"} => cmd'[y] = cmd[y]
    PROVE  ConnInv' /\ SubscribeInv'
<1>1. CASE reconnecting' = reconnecting /\ conner' = conner
  BY <1>1, KeptFrame
<1>2. CASE conner' = [conner EXCEPT !["loop"] = [at |-> "dial", conn |-> 0]]
  <2> DEFINE new == [at |-> "dial", conn |-> 0]
  <2>1. "loop" \in Connectors /\ new \in ConnerRecord /\ new.at = "dial"
    BY EslAssumption DEF EslAssumption, ConnerRecord, Connectors
  <2> QED
    BY <1>2, <2>1, RestFrame
<1> QED
  BY <1>1, <1>2, StartFacts

\* The reconnect loop at rest keeps what the mutexes say of the connectors.
LEMMA StartMutex ==
    ASSUME ClientInv, StartReconnect, UNCHANGED subMu
    PROVE  /\ subMu' = "main" <=> conner'["main"].at = "subscribe"
           /\ \A y \in Connectors : cmd[y].at # "none" => conner'[y].at \in {"restore", "subscribe"}
           /\ ~reconnecting' => conner'["loop"].at = "idle"
<1>1. "loop" \in Connectors /\ "main" \in Connectors /\ conner \in [Connectors -> ConnerRecord]
  BY DEF Connectors, ClientInv, EslTypes
<1>2. CASE reconnecting' = reconnecting /\ conner' = conner
  BY <1>2 DEF ClientInv, MutexInv
<1>3. CASE /\ reconnecting' = TRUE /\ conner["loop"].at = "idle"
           /\ conner' = [conner EXCEPT !["loop"] = [at |-> "dial", conn |-> 0]]
  <2>1. conner'["main"] = conner["main"] /\ \A y \in Connectors \ {"loop"} : conner'[y] = conner[y]
    BY <1>1, <1>3
  <2>2. cmd["loop"].at = "none"
    BY <1>1, <1>3 DEF ClientInv, MutexInv
  <2> QED
    BY <1>1, <1>3, <2>1, <2>2 DEF ClientInv, MutexInv
<1> QED
  BY <1>2, <1>3, StartFacts

\* A read loop restarts the connecting.
LEMMA ReaderReconnectsStep ==
    ASSUME ClientInv, NEW i \in Conns, ReaderReconnects(i) PROVE ClientInv'
<1>1. /\ StartReconnect /\ reader' = [reader EXCEPT ![i].at = "gone"]
      /\ UNCHANGED <<made, link, inbox, wire, listening, current, doneCh, ready,
                     subscription, subMu, commandMu, cmd, issued, mispaired>>
  BY DEF ReaderReconnects, netVars, subVars, cmdVars
<1>2. ConnInv' /\ SubscribeInv'
  BY <1>1, StartFrame
<1>3. /\ reader' \in [Conns -> ReaderRecord]
      /\ \A j \in Conns : reader'[j].at = "offer" => reader'[j] = reader[j]
  <2>1. reader \in [Conns -> ReaderRecord] /\ reader' = [reader EXCEPT ![i] = [reader[i] EXCEPT !.at = "gone"]]
    BY <1>1 DEF ClientInv, EslTypes
  <2>2. [reader[i] EXCEPT !.at = "gone"] \in ReaderRecord /\ [reader[i] EXCEPT !.at = "gone"].at = "gone"
    BY <2>1 DEF ReaderRecord
  <2> QED
    BY <2>1, <2>2
<1>4. EslTypes'
  BY <1>1, <1>3, StartFacts DEF ClientInv, EslTypes
<1>5. PairInv'
  BY <1>1, <1>3, PairFrame
<1>6. MutexInv' /\ RepliesMatch'
  <2>1. /\ subMu' = "main" <=> conner'["main"].at = "subscribe"
        /\ \A y \in Connectors : cmd[y].at # "none" => conner'[y].at \in {"restore", "subscribe"}
        /\ ~reconnecting' => conner'["loop"].at = "idle"
    BY <1>1, StartMutex
  <2> QED
    BY <1>1, <2>1 DEF ClientInv, MutexInv, RepliesMatch
<1> QED
  BY <1>2, <1>4, <1>5, <1>6 DEF ClientInv

\* A command that timed out restarts the connecting and returns.
LEMMA TimeoutReconnectsStep ==
    ASSUME ClientInv, NEW x \in Commanders, TimeoutReconnects(x) PROVE ClientInv'
<1>1. /\ cmd[x].at = "restart" /\ StartReconnect
      /\ cmd' = [cmd EXCEPT ![x].at = "error"] /\ commandMu' = NoOne
      /\ UNCHANGED <<made, link, inbox, wire, listening, current, doneCh, ready, reader,
                     subscription, subMu, issued, mispaired>>
  BY DEF TimeoutReconnects, netVars, subVars
<1>2. /\ PairInv' /\ cmd' \in [Commanders -> CmdRecord]
      /\ \A y \in Commanders : cmd'[y].at \notin {"sent", "restart"} /\ commandMu' # y
      /\ \A y \in Connectors : cmd'[y].at \in {"sent", "ok"} => cmd'[y] = cmd[y]
  BY <1>1, CommandEnds
<1>3. ConnInv' /\ SubscribeInv'
  BY <1>1, <1>2, StartFrame
<1>4. EslTypes'
  BY <1>1, <1>2, StartFacts DEF ClientInv, EslTypes
<1>5. MutexInv' /\ RepliesMatch'
  <2>1. /\ subMu' = "main" <=> conner'["main"].at = "subscribe"
        /\ \A y \in Connectors : cmd[y].at # "none" => conner'[y].at \in {"restore", "subscribe"}
        /\ ~reconnecting' => conner'["loop"].at = "idle"
    BY <1>1, StartMutex
  <2>2. \A y \in Connectors : cmd'[y].at # "none" => cmd[y].at # "none"
    <3>1. \A y \in Commanders \ {x} : cmd'[y] = cmd[y]
      BY <1>1 DEF ClientInv, EslTypes
    <3>2. Connectors \subseteq Commanders
      BY DEF Commanders
    <3> QED
      BY <1>1, <3>1, <3>2
  <2> QED
    BY <1>1, <1>2, <2>1, <2>2 DEF ClientInv, MutexInv, RepliesMatch
<1> QED
  BY <1>2, <1>3, <1>4, <1>5 DEF ClientInv

(***************************************************************************)
(* Commands are written and answered                                       *)
(***************************************************************************)
\* A goroutine that nobody answers any more changes what it remembers of its command.
LEMMA ForgetsCommand ==
    ASSUME ClientInv, NEW x \in Commanders, cmd[x].at \notin {"sent", "restart"},
           NEW new \in CmdRecord, new.at \in {"none", "error"}, cmd' = [cmd EXCEPT ![x] = new],
           UNCHANGED <<commandMu, doneCh, inbox, wire, reader, listening>>
    PROVE  /\ PairInv' /\ cmd' \in [Commanders -> CmdRecord]
           /\ \A y \in Commanders :
                 cmd'[y].at \in {"sent", "restart"} => cmd'[y] = cmd[y] /\ commandMu' = y
           /\ \A y \in Commanders : commandMu' = y => cmd'[y].at \in {"sent", "restart"}
           /\ \A y \in Connectors : cmd'[y].at \in {"sent", "ok"} => cmd'[y] = cmd[y]
           /\ cmd'[x] = new /\ \A y \in Commanders \ {x} : cmd'[y] = cmd[y]
<1>1. cmd \in [Commanders -> CmdRecord] /\ commandMu # x
  BY DEF ClientInv, EslTypes, MutexInv
<1>2. cmd'[x] = new /\ \A y \in Commanders \ {x} : cmd'[y] = cmd[y]
  BY <1>1
<1>3. PairInv'
  <2>1. SUFFICES ASSUME NEW j \in Conns \ doneCh PROVE PairOn(j)'
    BY DEF PairInv
  <2>2. PairOn(j)
    BY DEF ClientInv, PairInv
  <2>3. commandMu # NoOne => cmd'[commandMu] = cmd[commandMu]
    BY <1>1, <1>2 DEF ClientInv, EslTypes
  <2> QED
    BY <2>2, <2>3, PairKept
<1>4. /\ \A y \in Commanders :
            cmd'[y].at \in {"sent", "restart"} => cmd'[y] = cmd[y] /\ commandMu' = y
      /\ \A y \in Commanders : commandMu' = y => cmd'[y].at \in {"sent", "restart"}
  BY <1>1, <1>2 DEF ClientInv, MutexInv
<1>5. \A y \in Connectors : cmd'[y].at \in {"sent", "ok"} => cmd'[y] = cmd[y]
  BY <1>1, <1>2 DEF Commanders
<1>6. cmd' \in [Commanders -> CmdRecord]
  BY <1>1
<1> QED
  BY <1>2, <1>3, <1>4, <1>5, <1>6

\* A caller goes back to its business.
LEMMA CallerReturnsStep == ASSUME ClientInv, NEW x \in Commanders, CallerReturns(x) PROVE ClientInv'
<1>1. /\ x \notin Connectors /\ cmd[x].at \notin {"sent", "restart"}
      /\ cmd' = [cmd EXCEPT ![x] = NoCmd]
      /\ UNCHANGED <<made, link, inbox, wire, listening, current, doneCh, ready, reconnecting, reader,
                     subscription, subMu, commandMu, conner, issued, mispaired>>
  BY EslAssumption DEF EslAssumption, Connectors, CallerReturns, netVars, stateVars, subVars
<1>2. NoCmd \in CmdRecord /\ NoCmd.at = "none"
  BY EslAssumption DEF EslAssumption, NoCmd, CmdRecord
<1>3. /\ PairInv' /\ cmd' \in [Commanders -> CmdRecord]
      /\ \A y \in Commanders :
            cmd'[y].at \in {"sent", "restart"} => cmd'[y] = cmd[y] /\ commandMu' = y
      /\ \A y \in Commanders : commandMu' = y => cmd'[y].at \in {"sent", "restart"}
      /\ \A y \in Connectors : cmd'[y].at \in {"sent", "ok"} => cmd'[y] = cmd[y]
      /\ \A y \in Commanders \ {x} : cmd'[y] = cmd[y]
  BY <1>1, <1>2, ForgetsCommand
<1>4. ConnInv' /\ SubscribeInv'
  BY <1>1, <1>3, KeptFrame
<1>5. EslTypes'
  BY <1>1, <1>3 DEF ClientInv, EslTypes
<1>6. MutexInv' /\ RepliesMatch'
  BY <1>1, <1>3 DEF ClientInv, MutexInv, RepliesMatch, Commanders
<1> QED
  BY <1>3, <1>4, <1>5, <1>6 DEF ClientInv

\* A command is written when nothing else is under way: it finds nothing pending.
LEMMA WriteStep ==
    ASSUME ClientInv, NEW x \in Commanders, Write(x),
           x \in Connectors => conner[x].at \in {"restore", "subscribe"}
    PROVE  ClientInv'
<1>1. /\ commandMu = NoOne /\ cmd[x].at = "none"
      /\ UNCHANGED <<made, link, wire, listening, current, doneCh, ready, reconnecting, reader,
                     subscription, subMu, conner, mispaired>>
  BY DEF Write, stateVars, subVars
<1>2. CASE current = 0
  <2>1. /\ UNCHANGED <<commandMu, issued, inbox>>
        /\ cmd' = [cmd EXCEPT ![x] = [cmd[x] EXCEPT !.at = "error"]]
    BY <1>2 DEF Write
  <2> DEFINE new == [cmd[x] EXCEPT !.at = "error"]
  <2>2. new \in CmdRecord /\ new.at = "error"
    BY DEF ClientInv, EslTypes, CmdRecord
  <2> HIDE DEF new
  <2>3. cmd' = [cmd EXCEPT ![x] = new] /\ cmd[x].at \notin {"sent", "restart"}
    BY <1>1, <2>1 DEF new
  <2>4. /\ PairInv' /\ cmd' \in [Commanders -> CmdRecord]
        /\ \A y \in Commanders :
              cmd'[y].at \in {"sent", "restart"} => cmd'[y] = cmd[y] /\ commandMu' = y
        /\ \A y \in Commanders : commandMu' = y => cmd'[y].at \in {"sent", "restart"}
        /\ \A y \in Connectors : cmd'[y].at \in {"sent", "ok"} => cmd'[y] = cmd[y]
        /\ cmd'[x] = new /\ \A y \in Commanders \ {x} : cmd'[y] = cmd[y]
    BY <1>1, <2>1, <2>2, <2>3, ForgetsCommand
  <2>5. ConnInv' /\ SubscribeInv'
    BY <1>1, <2>4, KeptFrame
  <2>6. EslTypes'
    BY <1>1, <2>1, <2>4 DEF ClientInv, EslTypes
  <2>7. \A y \in Connectors : cmd'[y].at # "none" => conner'[y].at \in {"restore", "subscribe"}
    BY <1>1, <2>4 DEF ClientInv, MutexInv, Commanders
  <2>8. MutexInv' /\ RepliesMatch'
    BY <1>1, <2>4, <2>7 DEF ClientInv, MutexInv, RepliesMatch
  <2> QED
    BY <2>4, <2>5, <2>6, <2>8 DEF ClientInv
<1>3. CASE current # 0
  <2> DEFINE new == [at |-> "sent", conn |-> current, id |-> issued + 1]
  <2>1. /\ commandMu' = x /\ issued' = issued + 1
        /\ cmd' = [cmd EXCEPT ![x] = new]
        /\ inbox' = [inbox EXCEPT ![current] = Append(inbox[current], issued + 1)] \/ inbox' = inbox
    BY <1>3 DEF Write
  <2>2. /\ current \in Conns /\ current \notin doneCh /\ issued \in Nat /\ current \in 0..MaxConns
        /\ cmd \in [Commanders -> CmdRecord] /\ inbox \in [Conns -> Seq(Nat)]
    <3>1. current \in Conns /\ issued \in Nat /\ current \in 0..MaxConns
      BY <1>3, EslAssumption DEF EslAssumption, ClientInv, EslTypes, Conns
    <3> QED
      BY <3>1 DEF ClientInv, EslTypes, ConnInv
  <2>3. new \in CmdRecord /\ new.at = "sent" /\ new.conn = current /\ new.id = issued + 1
    BY <2>2 DEF CmdRecord
  <2> HIDE DEF new
  <2>4. /\ cmd' \in [Commanders -> CmdRecord] /\ cmd'[x] = new
        /\ \A y \in Commanders \ {x} : cmd'[y] = cmd[y]
    BY <2>1, <2>2, <2>3
  <2>5. inbox' \in [Conns -> Seq(Nat)] /\ \A j \in Conns \ {current} : inbox'[j] = inbox[j]
    <3>1. Append(inbox[current], issued + 1) \in Seq(Nat)
      BY <2>2
    <3> QED
      BY <2>1, <2>2, <3>1
  <2>6. EslTypes'
    <3>1. issued' \in Nat /\ commandMu' \in Commanders \cup {NoOne}
      BY <2>1, <2>2
    <3> QED
      BY <1>1, <2>4, <2>5, <3>1 DEF ClientInv, EslTypes
  <2>7. \A y \in Commanders : cmd[y].at \notin {"sent", "restart"}
    BY <1>1, EslAssumption DEF EslAssumption, ClientInv, MutexInv, Commanders, Connectors
  <2>8. \A j \in Conns \ doneCh : IdleOn(j)
    BY <1>1, NothingPending DEF Waiting
  <2>9. PairInv'
    <3>1. ASSUME NEW j \in Conns \ doneCh, j # current PROVE PairOn(j)'
      BY <1>1, <2>5, <2>8, <3>1, IdlePair DEF IdleOn
    <3>2. PairOn(current)'
      <4>1. IdleOn(current)
        BY <2>2, <2>8
      <4>2. x # NoOne
        BY EslAssumption DEF EslAssumption, Commanders, Connectors
      <4>3. Waiting(current)' /\ cmd'[commandMu'].id = issued + 1
        BY <1>1, <2>1, <2>3, <2>4, <4>2 DEF Waiting
      <4>4. /\ Len(inbox'[current]) \in {0, 1}
            /\ \A k \in 1..Len(inbox'[current]) : inbox'[current][k] = issued + 1
        BY <2>1, <2>2, <4>1 DEF IdleOn
      <4>5. /\ reader'[current].at # "offer"
            /\ \A k \in 1..Len(wire'[current]) : wire'[current][k] = EventFrame
        BY <1>1, <4>1 DEF IdleOn
      <4> QED
        BY <1>1, <4>3, <4>4, <4>5 DEF PairOn
    <3> QED
      BY <1>1, <3>1, <3>2 DEF PairInv
  <2>10. MutexInv'
    <3>1. \A y \in Commanders : cmd'[y].at \in {"sent", "restart"} <=> commandMu' = y
      BY <2>1, <2>3, <2>4, <2>7
    <3>2. \A y \in Commanders : cmd'[y].at \in {"sent", "restart"}
            => cmd'[y].conn # 0 /\ cmd'[y].conn \in doneCh' \cup {current'}
      BY <1>1, <1>3, <2>3, <2>4, <2>7
    <3>3. \A y \in Connectors : cmd'[y].at # "none" => conner'[y].at \in {"restore", "subscribe"}
      BY <1>1, <2>4 DEF ClientInv, MutexInv, Commanders
    <3> QED
      BY <1>1, <3>1, <3>2, <3>3 DEF ClientInv, MutexInv
  <2>11. ConnInv' /\ OrderInv' /\ RepliesMatch'
    BY <1>1 DEF ClientInv, ConnInv, Busy, SubscribeInv, OrderInv, RepliesMatch
  <2>12. RestoreInv'
    <3>1. \A y \in Connectors : cmd'[y].at = "ok" => cmd'[y] = cmd[y]
      BY <2>3, <2>4 DEF Commanders
    <3>2. \A y \in Connectors : cmd'[y].at \in {"sent", "ok"} => cmd'[y] = cmd[y] \/ cmd'[y].conn = current
      BY <2>3, <2>4 DEF Commanders
    <3> QED
      BY <1>1, <3>1, <3>2 DEF ClientInv, SubscribeInv, RestoreInv
  <2>13. HeardInv'
    <3>1. cmd'["main"] = cmd["main"] \/ cmd'["main"].conn = current
      BY <2>3, <2>4 DEF Commanders, Connectors
    <3> QED
      BY <1>1, <3>1 DEF ClientInv, SubscribeInv, HeardInv, Heard
  <2> QED
    BY <2>6, <2>9, <2>10, <2>11, <2>12, <2>13 DEF ClientInv, SubscribeInv
<1> QED
  BY <1>2, <1>3

\* A command takes the reply its connection's reader offers: it is the reply to that command, and
\* a connector's has subscribed the connection.
LEMMA GetsReplyStep ==
    ASSUME ClientInv, NEW x \in Commanders, NEW refused \in BOOLEAN, GetsReply(x, refused)
    PROVE  ClientInv'
<1> DEFINE i == cmd[x].conn
<1>1. /\ cmd[x].at = "sent" /\ reader[i].at = "offer" /\ i \notin doneCh
      /\ mispaired' = (mispaired \/ reader[i].id # cmd[x].id)
      /\ reader' = [reader EXCEPT ![i] = [at |-> "read", id |-> 0]]
      /\ \E at \in {"ok", "error"} : cmd' = [cmd EXCEPT ![x].at = at]
      /\ commandMu' = NoOne
      /\ UNCHANGED <<made, link, inbox, wire, listening, current, doneCh, ready, reconnecting,
                     subscription, subMu, conner, issued>>
  BY DEF GetsReply, netVars, stateVars, subVars
<1>2. /\ commandMu = x /\ i \in Conns /\ x # NoOne
      /\ (\A y \in Commanders : cmd[y].at \in {"sent", "restart"} => y = x)
      /\ cmd[x] \in CmdRecord /\ cmd \in [Commanders -> CmdRecord]
      /\ reader \in [Conns -> ReaderRecord]
  BY <1>1, SentFacts DEF ClientInv, EslTypes
<1>3. /\ cmd' \in [Commanders -> CmdRecord] /\ cmd'[x].at \in {"ok", "error"}
      /\ cmd'[x].conn = i /\ \A y \in Commanders \ {x} : cmd'[y] = cmd[y]
  <2>1. PICK at \in {"ok", "error"} : cmd' = [cmd EXCEPT ![x] = [cmd[x] EXCEPT !.at = at]]
    BY <1>1
  <2>2. /\ [cmd[x] EXCEPT !.at = at] \in CmdRecord /\ [cmd[x] EXCEPT !.at = at].at = at
        /\ [cmd[x] EXCEPT !.at = at].conn = i
    BY <1>2 DEF CmdRecord
  <2> QED
    BY <1>2, <2>1, <2>2
<1>4. /\ reader' \in [Conns -> ReaderRecord] /\ reader'[i].at = "read"
      /\ \A j \in Conns \ {i} : reader'[j] = reader[j]
  <2>1. [at |-> "read", id |-> 0] \in ReaderRecord
    BY DEF ReaderRecord
  <2> QED
    BY <1>1, <1>2, <2>1
<1>5. PairOn(i) /\ Len(inbox[i]) \in Nat
  BY <1>1, <1>2 DEF ClientInv, PairInv, EslTypes
<1>6. reader[i].id = cmd[x].id /\ (x \in Connectors => i \in listening)
  BY <1>1, <1>2, <1>5 DEF PairOn, AnsweredOn
<1>7. PairInv'
  <2>1. ASSUME NEW j \in Conns \ doneCh, j # i PROVE PairOn(j)'
    <3>1. ~Waiting(j)
      BY <1>2, <2>1 DEF Waiting
    <3>2. IdleOn(j)
      BY <3>1, NothingPending
    <3> QED
      BY <1>1, <1>4, <2>1, <3>2, IdlePair DEF IdleOn
  <2>2. PairOn(i)'
    <3>1. Len(inbox[i]) = 0
      <4>1. 1 \notin 1..Len(inbox[i])
        BY <1>1, <1>5 DEF PairOn
      <4> QED
        BY <1>5, <4>1
    <3>2. \A k \in 1..Len(wire[i]) : wire[i][k] = EventFrame
      BY <1>1, <1>5 DEF PairOn
    <3>3. i' = i
      BY <1>3
    <3> HIDE DEF EventFrame, i
    <3> QED
      BY <1>1, <1>4, <3>1, <3>2, <3>3 DEF PairOn, EventFrame
  <2> QED
    BY <1>1, <1>3, <2>1, <2>2 DEF PairInv
<1>8. RepliesMatch'
  BY <1>1, <1>6 DEF ClientInv, RepliesMatch
<1>9. EslTypes'
  BY <1>1, <1>3, <1>4 DEF ClientInv, EslTypes
<1>10. MutexInv'
  <2>1. \A y \in Commanders : cmd'[y].at \notin {"sent", "restart"}
    BY <1>2, <1>3
  <2>2. \A y \in Commanders : commandMu' # y
    BY <1>1, EslAssumption DEF EslAssumption, Commanders, Connectors
  <2>3. \A y \in Connectors : cmd'[y].at # "none" => conner[y].at \in {"restore", "subscribe"}
    <3>1. \A y \in Connectors : cmd'[y].at # "none" => cmd[y].at # "none"
      BY <1>1, <1>3 DEF Commanders
    <3> QED
      BY <3>1 DEF ClientInv, MutexInv
  <2> QED
    BY <1>1, <2>1, <2>2, <2>3 DEF ClientInv, MutexInv
<1>11. ConnInv' /\ OrderInv'
  BY <1>1 DEF ClientInv, ConnInv, Busy, SubscribeInv, OrderInv
<1>12. /\ \A y \in Connectors : cmd'[y].at = "ok" => cmd'[y] = cmd[y] \/ cmd'[y].conn \in listening
       /\ \A y \in Connectors : cmd'[y].at \in {"sent", "ok"} =>
             cmd[y].at \in {"sent", "ok"} /\ cmd'[y].conn = cmd[y].conn
  BY <1>1, <1>3, <1>6 DEF Commanders
<1>13. RestoreInv'
  BY <1>1, <1>12 DEF ClientInv, SubscribeInv, RestoreInv
<1>14. HeardInv'
  <2>1. "main" \in Connectors
    BY DEF Connectors
  <2> QED
    BY <1>1, <1>12, <2>1 DEF ClientInv, SubscribeInv, HeardInv, Heard
<1> QED
  BY <1>7, <1>8, <1>9, <1>10, <1>11, <1>13, <1>14 DEF ClientInv, SubscribeInv

(***************************************************************************)
(* Connecting                                                              *)
(***************************************************************************)
\* A connector that issues no command comes to rest.
LEMMA RestStep ==
    ASSUME ClientInv, NEW x \in Connectors, NEW new \in ConnerRecord,
           conner' = [conner EXCEPT ![x] = new], new.at \in {"idle", "dial", "failed", "connected"},
           conner[x].at \notin {"done", "restore", "subscribe"},
           UNCHANGED <<made, current, doneCh, listening, inbox, wire, reader, subVars, cmdVars>>,
           reconnecting' = reconnecting \/ (x = "loop" /\ new.at = "idle"),
           new.at = "idle" => x = "loop",
           x = "loop" /\ ~reconnecting' => new.at = "idle",
           link' \in [Conns -> {"none", "up", "down"}],
           \A i \in Conns : link'[i] = "up" => link[i] = "up",
           ready' \in BOOLEAN,
           ready' => ready \/ (conner[x].at = "mark" /\ conner[x].conn = current)
    PROVE  ClientInv'
<1>1. UNCHANGED <<made, current, doneCh, listening, inbox, wire, reader, subMu, subscription,
                  cmd, commandMu, issued, mispaired>>
  BY DEF subVars, cmdVars
<1>2. ConnInv' /\ SubscribeInv'
  BY <1>1, RestFrame
<1>3. conner' \in [Connectors -> ConnerRecord] /\ conner \in [Connectors -> ConnerRecord]
  BY DEF ClientInv, EslTypes
<1>4. EslTypes'
  BY <1>1, <1>3 DEF ClientInv, EslTypes
<1>5. PairInv'
  BY <1>1, PairFrame
<1>6. conner'[x] = new /\ \A y \in Connectors \ {x} : conner'[y] = conner[y]
  BY <1>3
<1>7. cmd[x].at = "none"
  BY DEF ClientInv, MutexInv
<1>8. MutexInv'
  <2>1. "main" \in Connectors /\ "loop" \in Connectors
    BY DEF Connectors
  <2>2. subMu' = "main" <=> conner'["main"].at = "subscribe"
    BY <1>1, <1>6, <2>1 DEF ClientInv, MutexInv
  <2>3. \A y \in Connectors : cmd'[y].at # "none" => conner'[y].at \in {"restore", "subscribe"}
    BY <1>1, <1>6, <1>7 DEF ClientInv, MutexInv
  <2>4. ~reconnecting' => conner'["loop"].at = "idle"
    BY <1>6, <2>1 DEF ClientInv, MutexInv
  <2> QED
    BY <1>1, <2>2, <2>3, <2>4 DEF ClientInv, MutexInv
<1>9. RepliesMatch'
  BY <1>1 DEF ClientInv, RepliesMatch
<1> QED
  BY <1>2, <1>4, <1>5, <1>8, <1>9 DEF ClientInv

\* What To sets.
LEMMA ToRecord ==
    ASSUME ClientInv, NEW x \in Connectors, NEW at, To(x, at),
           at \in {"idle", "dial", "install", "snapshot", "restore", "mark", "connected", "subscribe",
                   "done", "failed"}
    PROVE  \E new \in ConnerRecord : /\ conner' = [conner EXCEPT ![x] = new]
                                     /\ new.at = at /\ new.conn = conner[x].conn
<1>1. conner' = [conner EXCEPT ![x] = [conner[x] EXCEPT !.at = at]]
  BY DEF To
<1>2. conner[x] \in ConnerRecord
  BY DEF ClientInv, EslTypes
<1>3. /\ [conner[x] EXCEPT !.at = at] \in ConnerRecord
      /\ [conner[x] EXCEPT !.at = at].at = at /\ [conner[x] EXCEPT !.at = at].conn = conner[x].conn
  BY <1>2 DEF ConnerRecord
<1> QED
  BY <1>1, <1>3

\* While the loop runs, the client knows that it is reconnecting.
LEMMA BusyLoop ==
    ASSUME ClientInv, conner["loop"].at # "idle"
    PROVE  reconnecting
BY DEF ClientInv, MutexInv

\* A dial fails, or a connector marks the client ready.
LEMMA RestingStep ==
    ASSUME ClientInv, NEW x \in Connectors, DialFails(x) \/ MarkReady(x) PROVE ClientInv'
<1>1. /\ UNCHANGED <<made, link, current, doneCh, listening, inbox, wire, reader, subVars, cmdVars,
                     reconnecting>>
      /\ conner[x].at \in {"dial", "mark"}
      /\ \E at \in {"failed", "connected"} : To(x, at)
  BY DEF DialFails, MarkReady, netVars, stateVars
<1>2. PICK new \in ConnerRecord : /\ conner' = [conner EXCEPT ![x] = new]
                                  /\ new.at \in {"failed", "connected"}
  BY <1>1, ToRecord
<1>3. link \in [Conns -> {"none", "up", "down"}] /\ ready \in BOOLEAN
  BY DEF ClientInv, EslTypes
<1>4. x = "loop" => reconnecting
  BY <1>1, BusyLoop
<1>5. /\ ready' \in BOOLEAN
      /\ ready' => ready \/ (conner[x].at = "mark" /\ conner[x].conn = current)
  <2>1. CASE DialFails(x)
    BY <1>3, <2>1 DEF DialFails, stateVars
  <2>2. CASE MarkReady(x)
    <3>1. conner[x].at = "mark" /\ ready' = (ready \/ (current = conner[x].conn /\ ~closed))
      BY <2>2 DEF MarkReady, Markable
    <3> QED
      BY <1>3, <3>1
  <2> QED
    BY <2>1, <2>2
<1>6. /\ new.at \in {"idle", "dial", "failed", "connected"} /\ new.at # "idle"
      /\ conner[x].at \notin {"done", "restore", "subscribe"}
      /\ UNCHANGED <<made, current, doneCh, listening, inbox, wire, reader, subVars, cmdVars>>
      /\ reconnecting' = reconnecting /\ link' = link
  BY <1>1, <1>2
<1> QED
  BY <1>2, <1>3, <1>4, <1>5, <1>6, RestStep

\* The reconnect loop returns, or waits and dials again.
LEMMA LoopStepInv == ASSUME ClientInv, LoopEnds \/ LoopRetries PROVE ClientInv'
<1>1. /\ UNCHANGED <<made, link, current, doneCh, ready, listening, inbox, wire, reader, subVars, cmdVars>>
      /\ conner["loop"].at \in {"connected", "failed"}
      /\ \/ reconnecting' = FALSE /\ conner' = [conner EXCEPT !["loop"] = [at |-> "idle", conn |-> 0]]
         \/ reconnecting' = reconnecting /\ conner' = [conner EXCEPT !["loop"] = [at |-> "dial", conn |-> 0]]
  BY DEF LoopEnds, LoopRetries, netVars, stateVars
<1>2. reconnecting /\ "loop" \in Connectors
  BY <1>1, BusyLoop DEF Connectors
<1>3. \A at \in {"idle", "dial"} : [at |-> at, conn |-> 0] \in ConnerRecord
  BY EslAssumption DEF EslAssumption, ConnerRecord
<1>4. PICK new \in ConnerRecord :
         /\ conner' = [conner EXCEPT !["loop"] = new]
         /\ new.at = "idle" \/ (new.at = "dial" /\ reconnecting' = reconnecting)
  BY <1>1, <1>3
<1>5. link \in [Conns -> {"none", "up", "down"}] /\ ready \in BOOLEAN
  BY DEF ClientInv, EslTypes
<1>6. new.at = "idle" \/ new.at = "dial"
  BY <1>4
<1>7. reconnecting' = reconnecting \/ new.at = "idle"
  BY <1>4
<1>8. ~reconnecting' => new.at = "idle"
  BY <1>2, <1>7
<1>9. /\ new.at \in {"idle", "dial", "failed", "connected"}
      /\ conner["loop"].at \notin {"done", "restore", "subscribe"}
      /\ UNCHANGED <<made, current, doneCh, listening, inbox, wire, reader, subVars, cmdVars>>
      /\ link' = link /\ ready' = ready
  BY <1>1, <1>6
<1> QED
  BY <1>2, <1>4, <1>5, <1>7, <1>8, <1>9, RestStep

\* A connector opens a new connection.
LEMMA DialStep == ASSUME ClientInv, NEW x \in Connectors, Dial(x) PROVE ClientInv'
<1> USE EslAssumption DEF EslAssumption
<1> DEFINE new == [at |-> "install", conn |-> made + 1]
<1>1. /\ conner[x].at = "dial" /\ made < MaxConns /\ made' = made + 1
      /\ link' = [link EXCEPT ![made + 1] = "up"]
      /\ conner' = [conner EXCEPT ![x] = new]
      /\ UNCHANGED <<inbox, wire, listening, current, doneCh, ready, reconnecting, reader,
                     subscription, subMu, commandMu, cmd, issued, mispaired>>
  BY DEF Dial, stateVars, subVars, cmdVars
<1>2. /\ made \in Nat /\ made + 1 \in 1..MaxConns /\ current \in 0..made /\ doneCh \subseteq 1..made
      /\ conner \in [Connectors -> ConnerRecord] /\ link \in [Conns -> {"none", "up", "down"}]
  BY <1>1 DEF ClientInv, EslTypes
<1>3. new \in ConnerRecord /\ new.at = "install" /\ new.conn = made + 1
  BY <1>2 DEF ConnerRecord
<1> HIDE DEF new
<1>4. /\ conner' \in [Connectors -> ConnerRecord] /\ conner'[x] = new
      /\ \A y \in Connectors \ {x} : conner'[y] = conner[y]
  BY <1>1, <1>2, <1>3
<1>5. EslTypes'
  <2>1. made' \in 0..MaxConns /\ current' \in 0..made' /\ doneCh' \subseteq 1..made'
    BY <1>1, <1>2
  <2>2. link' \in [Conns -> {"none", "up", "down"}]
    BY <1>1, <1>2
  <2> QED
    BY <1>1, <1>4, <2>1, <2>2 DEF ClientInv, EslTypes
<1>6. made + 1 # current /\ made + 1 \notin doneCh
  BY <1>2
<1>7. ConnInv'
  <2>1. \A y \in Connectors \ {x} : Busy(y)' => Busy(y) /\ conner'[y] = conner[y] /\ conner[y].conn \in 1..made
    BY <1>4 DEF Busy, ClientInv, ConnInv
  <2>2. current' \notin doneCh' /\ (ready' => current' # 0)
    BY <1>1 DEF ClientInv, ConnInv
  <2>3. \A y \in Connectors : Busy(y)' => conner'[y].conn \in 1..made'
    BY <1>1, <1>2, <1>3, <1>4, <2>1
  <2>4. \A y, z \in Connectors : Busy(y)' /\ Busy(z)' /\ conner'[y].conn = conner'[z].conn => y = z
    <3>1. \A y \in Connectors \ {x} : Busy(y)' => conner'[y].conn # made + 1
      BY <1>2, <2>1
    <3>2. \A y, z \in Connectors \ {x} : Busy(y)' /\ Busy(z)' /\ conner'[y].conn = conner'[z].conn => y = z
      BY <2>1 DEF ClientInv, ConnInv
    <3> QED
      BY <1>3, <1>4, <3>1, <3>2
  <2>5. \A y \in Connectors : conner'[y].at = "install" => conner'[y].conn \notin doneCh' \cup {current'}
    BY <1>1, <1>3, <1>4, <1>6 DEF ClientInv, ConnInv
  <2>6. \A y \in Connectors : conner'[y].at \in {"snapshot", "restore", "mark"}
          => conner'[y].conn \in doneCh' \cup {current'}
    BY <1>1, <1>3, <1>4 DEF ClientInv, ConnInv
  <2> QED
    BY <2>2, <2>3, <2>4, <2>5, <2>6 DEF ConnInv, Busy
<1>8. cmd[x].at = "none" /\ "main" \in Connectors /\ "loop" \in Connectors
  BY <1>1 DEF ClientInv, MutexInv, Connectors
<1>9. MutexInv'
  <2>1. subMu' = "main" <=> conner'["main"].at = "subscribe"
    BY <1>1, <1>3, <1>4, <1>8 DEF ClientInv, MutexInv
  <2>2. \A y \in Connectors : cmd'[y].at # "none" => conner'[y].at \in {"restore", "subscribe"}
    BY <1>1, <1>4, <1>8 DEF ClientInv, MutexInv
  <2>3. ~reconnecting' => conner'["loop"].at = "idle"
    BY <1>1, <1>4, <1>8 DEF ClientInv, MutexInv
  <2> QED
    BY <1>1, <2>1, <2>2, <2>3 DEF ClientInv, MutexInv
<1>10. PairInv' /\ RepliesMatch'
  BY <1>1, PairFrame DEF ClientInv, RepliesMatch
<1>11. \A y \in Connectors : conner'[y].at # "install" => conner'[y] = conner[y]
  BY <1>3, <1>4
<1>12. OrderInv' /\ RestoreInv'
  <2>1. subscription' => conner'["main"].at = "done"
    BY <1>1, <1>4, <1>8 DEF ClientInv, SubscribeInv, OrderInv
  <2> QED
    BY <1>1, <1>11, <2>1 DEF ClientInv, SubscribeInv, OrderInv, RestoreInv
<1>13. HeardInv'
  <2>1. current # 0 => (Heard(current)' <=> Heard(current))
    <3>1. current # 0 => link'[current] = link[current]
      BY <1>1, <1>2, <1>6 DEF Conns
    <3> QED
      BY <1>1, <3>1 DEF Heard
  <2>2. \A y \in Connectors : conner[y].at = "mark" => conner[y].conn # 0
    BY DEF ClientInv, ConnInv, EslTypes, Busy
  <2>3. ready => current # 0
    BY DEF ClientInv, ConnInv
  <2>4. \A y \in Connectors : subscription /\ conner'[y].at = "mark" /\ conner'[y].conn = current
          => Heard(current)'
    BY <1>11, <2>1, <2>2 DEF ClientInv, SubscribeInv, HeardInv
  <2>5. ready /\ subscription => Heard(current)'
    BY <2>1, <2>3 DEF ClientInv, SubscribeInv, HeardInv
  <2>6. conner'["main"].at = "subscribe" /\ cmd["main"].at \in {"sent", "ok"}
          /\ cmd["main"].conn # current
             => ~ready /\ \A y \in Connectors : conner'[y].at = "mark" => conner'[y].conn # current
    BY <1>8, <1>11 DEF ClientInv, SubscribeInv, HeardInv
  <2> QED
    BY <1>1, <2>4, <2>5, <2>6 DEF HeardInv
<1> QED
  BY <1>5, <1>7, <1>9, <1>10, <1>12, <1>13 DEF ClientInv, SubscribeInv

\* A connection is installed when there is no other: what is said of the previous one is over.
LEMMA InstallStep == ASSUME ClientInv, NEW x \in Connectors, Install(x) PROVE ClientInv'
<1> USE EslAssumption DEF EslAssumption
<1> DEFINE i == conner[x].conn
<1>1. /\ conner[x].at = "install"
      /\ UNCHANGED <<made, inbox, wire, listening, doneCh, reconnecting, subMu, subscription, commandMu,
                     cmd, issued, mispaired>>
  BY DEF Install, subVars, cmdVars
<1>2. /\ i \in 1..made /\ i \in Conns /\ i # 0 /\ i \notin doneCh /\ i # current
      /\ link \in [Conns -> {"none", "up", "down"}] /\ reader \in [Conns -> ReaderRecord]
      /\ conner \in [Connectors -> ConnerRecord] /\ made \in 0..MaxConns
  <2>1. i \in 1..made /\ i \notin doneCh \cup {current}
    BY <1>1 DEF ClientInv, ConnInv, Busy
  <2>2. /\ link \in [Conns -> {"none", "up", "down"}] /\ reader \in [Conns -> ReaderRecord]
        /\ conner \in [Connectors -> ConnerRecord] /\ made \in 0..MaxConns
    BY DEF ClientInv, EslTypes
  <2> QED
    BY <2>1, <2>2 DEF Conns
<1>3. CASE ~closed /\ current = 0
  <2>1. /\ current' = i /\ ready' = FALSE /\ reader' = [reader EXCEPT ![i].at = "read"]
        /\ To(x, "snapshot") /\ link' = link
    BY <1>3 DEF Install
  <2>2. PICK new \in ConnerRecord : /\ conner' = [conner EXCEPT ![x] = new]
                                    /\ new.at = "snapshot" /\ new.conn = i
    BY <2>1, ToRecord
  <2>3. /\ conner' \in [Connectors -> ConnerRecord] /\ conner'[x] = new
        /\ \A y \in Connectors \ {x} : conner'[y] = conner[y]
    BY <1>2, <2>2
  <2>4. /\ reader' \in [Conns -> ReaderRecord]
        /\ \A j \in Conns : reader'[j].at = "offer" => reader'[j] = reader[j]
    <3>1. reader' = [reader EXCEPT ![i] = [reader[i] EXCEPT !.at = "read"]]
      BY <2>1
    <3>2. [reader[i] EXCEPT !.at = "read"] \in ReaderRecord /\ [reader[i] EXCEPT !.at = "read"].at = "read"
      BY <1>2 DEF ReaderRecord
    <3> QED
      BY <1>2, <3>1, <3>2
  <2>5. EslTypes'
    <3>1. current' \in 0..made
      BY <1>2, <2>1
    <3> QED
      BY <1>1, <1>2, <2>1, <2>3, <2>4, <3>1 DEF ClientInv, EslTypes
  <2>6. \A y \in Connectors \ {x} : Busy(y) => conner[y].conn # i /\ conner[y].conn # 0
    BY <1>1, <1>2 DEF ClientInv, ConnInv, Busy
  <2>7. ConnInv'
    <3>1. \A y \in Connectors \ {x} : Busy(y)' => Busy(y)
      BY <2>3 DEF Busy
    <3>2. \A y \in Connectors : Busy(y)' => conner'[y].conn \in 1..made
      BY <1>2, <2>2, <2>3, <3>1 DEF ClientInv, ConnInv
    <3>3. \A y, z \in Connectors : Busy(y)' /\ Busy(z)' /\ conner'[y].conn = conner'[z].conn => y = z
      <4>1. \A y, z \in Connectors \ {x} : Busy(y)' /\ Busy(z)' /\ conner'[y].conn = conner'[z].conn => y = z
        BY <2>3, <3>1 DEF ClientInv, ConnInv
      <4> QED
        BY <2>2, <2>3, <2>6, <3>1, <4>1
    <3>4. \A y \in Connectors : conner'[y].at = "install" => conner'[y].conn \notin doneCh \cup {i}
      BY <2>2, <2>3, <2>6 DEF ClientInv, ConnInv, Busy
    <3>5. \A y \in Connectors : conner'[y].at \in {"snapshot", "restore", "mark"}
            => conner'[y].conn \in doneCh \cup {i}
      <4>1. ASSUME NEW y \in Connectors \ {x}, conner[y].at \in {"snapshot", "restore", "mark"}
            PROVE  conner[y].conn \in doneCh
        BY <1>3, <2>6, <4>1 DEF ClientInv, ConnInv, Busy
      <4> QED
        BY <2>2, <2>3, <4>1
    <3> QED
      BY <1>1, <1>2, <2>1, <3>2, <3>3, <3>4, <3>5 DEF ConnInv, Busy
  <2>8. cmd[x].at = "none" /\ "main" \in Connectors /\ "loop" \in Connectors
    BY <1>1 DEF ClientInv, MutexInv, Connectors
  <2>9. MutexInv'
    <3>1. subMu' = "main" <=> conner'["main"].at = "subscribe"
      BY <1>1, <2>2, <2>3, <2>8 DEF ClientInv, MutexInv
    <3>2. \A y \in Connectors : cmd'[y].at # "none" => conner'[y].at \in {"restore", "subscribe"}
      BY <1>1, <2>3, <2>8 DEF ClientInv, MutexInv
    <3>3. ~reconnecting' => conner'["loop"].at = "idle"
      BY <1>1, <2>3, <2>8 DEF ClientInv, MutexInv
    <3>4. \A y \in Commanders : cmd[y].at \in {"sent", "restart"}
            => cmd[y].conn # 0 /\ cmd[y].conn \in doneCh
      BY <1>3 DEF ClientInv, MutexInv
    <3> QED
      BY <1>1, <3>1, <3>2, <3>3, <3>4 DEF ClientInv, MutexInv
  <2>10. PairInv' /\ RepliesMatch'
    BY <1>1, <2>4, PairFrame DEF ClientInv, RepliesMatch
  <2>11. \A y \in Connectors : conner'[y].at # "snapshot" => y # x /\ conner'[y] = conner[y]
    BY <2>2, <2>3
  <2>12. OrderInv'
    <3>1. subscription' => conner'["main"].at = "done"
      BY <1>1, <2>3, <2>8 DEF ClientInv, SubscribeInv, OrderInv
    <3> QED
      BY <1>1, <2>11, <3>1 DEF ClientInv, SubscribeInv, OrderInv
  <2>13. RestoreInv'
    BY <1>1, <2>1, <2>6, <2>11 DEF ClientInv, SubscribeInv, RestoreInv, Busy
  <2>14. HeardInv'
    BY <1>1, <2>1, <2>6, <2>11 DEF HeardInv, Busy
  <2> QED
    BY <2>5, <2>7, <2>9, <2>10, <2>12, <2>13, <2>14 DEF ClientInv, SubscribeInv
<1>4. CASE ~(~closed /\ current = 0)
  <2>1. /\ link' = [link EXCEPT ![i] = "down"]
        /\ \E at \in {"failed", "connected"} : To(x, at)
        /\ UNCHANGED <<current, ready, reader>>
    BY <1>4 DEF Install
  <2>2. PICK new \in ConnerRecord : /\ conner' = [conner EXCEPT ![x] = new]
                                    /\ new.at \in {"failed", "connected"}
    BY <2>1, ToRecord
  <2>3. /\ link' \in [Conns -> {"none", "up", "down"}]
        /\ \A j \in Conns : link'[j] = "up" => link[j] = "up"
    BY <1>2, <2>1
  <2>4. x = "loop" => reconnecting
    BY <1>1, BusyLoop
  <2>5. /\ new.at \in {"idle", "dial", "failed", "connected"} /\ new.at # "idle"
        /\ conner[x].at \notin {"done", "restore", "subscribe"}
        /\ UNCHANGED <<made, current, doneCh, listening, inbox, wire, reader, subVars, cmdVars>>
        /\ reconnecting' = reconnecting /\ ready' = ready /\ ready \in BOOLEAN
    BY <1>1, <2>1, <2>2 DEF subVars, cmdVars, ClientInv, EslTypes
  <2> QED
    BY <2>2, <2>3, <2>4, <2>5, RestStep
<1> QED
  BY <1>3, <1>4

\* A connector sees whether something is subscribed; while it looks, nobody is subscribing.
LEMMA SnapshotStep == ASSUME ClientInv, NEW x \in Connectors, Snapshot(x) PROVE ClientInv'
<1>1. /\ conner[x].at = "snapshot" /\ subMu = NoOne
      /\ To(x, IF subscription THEN "restore" ELSE "mark")
      /\ UNCHANGED <<made, link, inbox, wire, listening, current, doneCh, ready, reconnecting, reader,
                     subscription, subMu, commandMu, cmd, issued, mispaired>>
  BY DEF Snapshot, netVars, stateVars, subVars, cmdVars
<1>2. PICK new \in ConnerRecord :
         /\ conner' = [conner EXCEPT ![x] = new] /\ new.conn = conner[x].conn
         /\ new.at = IF subscription THEN "restore" ELSE "mark"
  BY <1>1, ToRecord
<1>3. /\ conner' \in [Connectors -> ConnerRecord] /\ conner'[x] = new
      /\ \A y \in Connectors \ {x} : conner'[y] = conner[y]
  BY <1>2 DEF ClientInv, EslTypes
<1>4. EslTypes'
  BY <1>1, <1>3 DEF ClientInv, EslTypes
<1>5. \A y \in Connectors : conner'[y].conn = conner[y].conn /\ (Busy(y)' <=> Busy(y))
  BY <1>1, <1>2, <1>3 DEF Busy
<1>6. ConnInv'
  <2>1. \A y \in Connectors : conner'[y].at = "install" => conner[y].at = "install"
    BY <1>2, <1>3
  <2>2. \A y \in Connectors : conner'[y].at \in {"snapshot", "restore", "mark"}
          => conner[y].at \in {"snapshot", "restore", "mark"}
    BY <1>1, <1>3
  <2>3. \A y \in Connectors : Busy(y)' => conner'[y].conn \in 1..made
    BY <1>5 DEF ClientInv, ConnInv
  <2>4. \A y, z \in Connectors : Busy(y)' /\ Busy(z)' /\ conner'[y].conn = conner'[z].conn => y = z
    BY <1>5 DEF ClientInv, ConnInv
  <2> QED
    BY <1>1, <1>5, <2>1, <2>2, <2>3, <2>4 DEF ClientInv, ConnInv, Busy
<1>7. /\ cmd[x].at = "none" /\ "main" \in Connectors /\ "loop" \in Connectors
      /\ conner["main"].at # "subscribe" /\ "main" # NoOne
  BY <1>1, EslAssumption DEF EslAssumption, ClientInv, MutexInv, Connectors
<1>8. MutexInv'
  <2>1. conner'["main"].at # "subscribe"
    BY <1>2, <1>3, <1>7
  <2>2. \A y \in Connectors : cmd'[y].at # "none" => conner'[y].at \in {"restore", "subscribe"}
    BY <1>1, <1>3, <1>7 DEF ClientInv, MutexInv
  <2>3. ~reconnecting' => conner'["loop"].at = "idle"
    BY <1>1, <1>3, <1>7 DEF ClientInv, MutexInv
  <2> QED
    BY <1>1, <1>7, <2>1, <2>2, <2>3 DEF ClientInv, MutexInv
<1>9. PairInv' /\ RepliesMatch'
  BY <1>1, PairFrame DEF ClientInv, RepliesMatch
<1>10. OrderInv'
  <2>1. subscription' => conner'["main"].at = "done"
    BY <1>1, <1>3, <1>7 DEF ClientInv, SubscribeInv, OrderInv
  <2> QED
    BY <1>1, <1>2, <1>3, <2>1 DEF ClientInv, SubscribeInv, OrderInv
<1>11. RestoreInv'
  BY <1>1, <1>3, <1>7 DEF ClientInv, SubscribeInv, RestoreInv
<1>12. HeardInv'
  <2>1. conner'["main"].at # "subscribe"
    BY <1>2, <1>3, <1>7
  <2>2. \A y \in Connectors : subscription /\ conner'[y].at = "mark" => conner'[y] = conner[y]
    BY <1>2, <1>3
  <2>3. Heard(current)' <=> Heard(current)
    BY <1>1 DEF Heard
  <2> QED
    BY <1>1, <2>1, <2>2, <2>3 DEF ClientInv, SubscribeInv, HeardInv
<1> QED
  BY <1>4, <1>6, <1>8, <1>9, <1>10, <1>11, <1>12 DEF ClientInv, SubscribeInv

\* The restored connection is subscribed when its command succeeded.
LEMMA RestoredStep == ASSUME ClientInv, NEW x \in Connectors, Restored(x) PROVE ClientInv'
<1>1. /\ conner[x].at = "restore" /\ cmd[x].at \in {"ok", "error"}
      /\ cmd' = [cmd EXCEPT ![x] = NoCmd]
      /\ UNCHANGED <<made, inbox, wire, listening, current, doneCh, ready, reconnecting, reader,
                     subscription, subMu, commandMu, issued, mispaired>>
  BY DEF Restored, stateVars, subVars
<1>2. PICK new \in ConnerRecord :
         /\ conner' = [conner EXCEPT ![x] = new] /\ new.conn = conner[x].conn
         /\ new.at = IF cmd[x].at = "ok" THEN "mark" ELSE "failed"
  <2>1. \E at \in {"mark", "failed"} :
           To(x, at) /\ at = IF cmd[x].at = "ok" THEN "mark" ELSE "failed"
    BY DEF Restored
  <2> QED
    BY <2>1, ToRecord
<1>3. /\ conner' \in [Connectors -> ConnerRecord] /\ conner'[x] = new
      /\ \A y \in Connectors \ {x} : conner'[y] = conner[y]
  BY <1>2 DEF ClientInv, EslTypes
<1>4. NoCmd \in CmdRecord /\ NoCmd.at = "none"
  BY EslAssumption DEF EslAssumption, NoCmd, CmdRecord
<1>5. /\ PairInv' /\ cmd' \in [Commanders -> CmdRecord]
      /\ \A y \in Commanders :
            cmd'[y].at \in {"sent", "restart"} => cmd'[y] = cmd[y] /\ commandMu' = y
      /\ \A y \in Commanders : commandMu' = y => cmd'[y].at \in {"sent", "restart"}
      /\ \A y \in Connectors : cmd'[y].at \in {"sent", "ok"} => cmd'[y] = cmd[y]
      /\ cmd'[x].at = "none"
  BY <1>1, <1>4, ForgetsCommand DEF Commanders
<1>6. /\ link' \in [Conns -> {"none", "up", "down"}]
      /\ \A j \in Conns : link'[j] = "up" => link[j] = "up"
  <2>1. link \in [Conns -> {"none", "up", "down"}]
    BY DEF ClientInv, EslTypes
  <2>2. link' = link \/ link' = [link EXCEPT ![conner[x].conn] = "down"]
    BY DEF Restored
  <2> QED
    BY <2>1, <2>2
<1>7. EslTypes'
  BY <1>1, <1>3, <1>5, <1>6 DEF ClientInv, EslTypes
<1>8. /\ "main" \in Connectors /\ "loop" \in Connectors /\ subscription /\ x # "main"
      /\ conner["main"].at = "done"
  BY <1>1 DEF ClientInv, SubscribeInv, OrderInv, Connectors
<1>9. conner'["main"] = conner["main"] /\ x = "loop"
  BY <1>3, <1>8 DEF Connectors
<1>10. ConnInv'
  <2>1. \A y \in Connectors : conner'[y].conn = conner[y].conn /\ (Busy(y)' => Busy(y))
    BY <1>1, <1>2, <1>3 DEF Busy
  <2>2. \A y \in Connectors : conner'[y].at = "install" => conner[y].at = "install"
    BY <1>2, <1>3
  <2>3. \A y \in Connectors : conner'[y].at \in {"snapshot", "restore", "mark"}
          => conner[y].at \in {"snapshot", "restore", "mark"}
    BY <1>1, <1>3
  <2>4. \A y \in Connectors : Busy(y)' => conner'[y].conn \in 1..made
    BY <2>1 DEF ClientInv, ConnInv
  <2>5. \A y, z \in Connectors : Busy(y)' /\ Busy(z)' /\ conner'[y].conn = conner'[z].conn => y = z
    BY <2>1 DEF ClientInv, ConnInv
  <2> QED
    BY <1>1, <2>1, <2>2, <2>3, <2>4, <2>5 DEF ClientInv, ConnInv, Busy
<1>11. MutexInv'
  <2>1. \A y \in Connectors : cmd'[y].at # "none" => conner'[y].at \in {"restore", "subscribe"}
    <3>1. \A y \in Connectors \ {x} : cmd'[y] = cmd[y]
      BY <1>1 DEF ClientInv, EslTypes, Commanders
    <3> QED
      BY <1>3, <1>5, <3>1 DEF ClientInv, MutexInv
  <2>2. reconnecting'
    BY <1>1, <1>9, BusyLoop
  <2> QED
    BY <1>1, <1>5, <1>9, <2>1, <2>2 DEF ClientInv, MutexInv
<1>12. RepliesMatch' /\ OrderInv'
  BY <1>1, <1>8, <1>9 DEF ClientInv, RepliesMatch, SubscribeInv, OrderInv
<1>13. RestoreInv'
  <2>1. \A y \in Connectors : conner'[y].at = "restore" => conner'[y] = conner[y]
    BY <1>2, <1>3
  <2> QED
    BY <1>1, <1>5, <2>1 DEF ClientInv, SubscribeInv, RestoreInv
<1>14. HeardInv'
  <2>1. current \in Conns \/ current = 0
    BY EslAssumption DEF EslAssumption, ClientInv, EslTypes, Conns
  <2>2. current # 0 => (Heard(current) => Heard(current)')
    BY <1>1, <1>6, <2>1 DEF Heard
  <2>3. ASSUME new.at = "mark", new.conn = current PROVE Heard(current)'
    <3>1. cmd[x].at = "ok"
      BY <1>2, <2>3
    <3>2. cmd[x].conn = current /\ cmd[x].conn \in listening \cup doneCh /\ current \notin doneCh
      BY <1>1, <1>2, <2>3, <3>1 DEF ClientInv, SubscribeInv, RestoreInv, ConnInv
    <3> QED
      BY <1>1, <3>2 DEF Heard
  <2>4. \A y \in Connectors : conner[y].at = "mark" => conner[y].conn # 0
    BY EslAssumption DEF EslAssumption, ClientInv, EslTypes, ConnInv, Busy
  <2>5. \A y \in Connectors : conner'[y].at = "mark" /\ conner'[y].conn = current => Heard(current)'
    BY <1>3, <1>8, <2>2, <2>3, <2>4 DEF ClientInv, SubscribeInv, HeardInv
  <2>6. ready => current # 0
    BY DEF ClientInv, ConnInv
  <2>7. ready => Heard(current)'
    BY <1>8, <2>2, <2>6 DEF ClientInv, SubscribeInv, HeardInv
  <2> QED
    BY <1>1, <1>8, <1>9, <2>5, <2>7 DEF HeardInv
<1> QED
  BY <1>5, <1>7, <1>10, <1>11, <1>12, <1>13, <1>14 DEF ClientInv, SubscribeInv

\* Main begins to subscribe.
LEMMA SubscribeStep == ASSUME ClientInv, Subscribe PROVE ClientInv'
<1>1. /\ conner["main"].at = "connected" /\ subMu = NoOne /\ subMu' = "main" /\ To("main", "subscribe")
      /\ "main" \in Connectors /\ "loop" \in Connectors
      /\ UNCHANGED <<made, link, inbox, wire, listening, current, doneCh, ready, reconnecting, reader,
                     subscription, commandMu, cmd, issued, mispaired>>
  BY DEF Subscribe, netVars, stateVars, cmdVars, Connectors
<1>2. PICK new \in ConnerRecord : conner' = [conner EXCEPT !["main"] = new] /\ new.at = "subscribe"
  BY <1>1, ToRecord
<1>3. /\ conner' \in [Connectors -> ConnerRecord] /\ conner'["main"] = new
      /\ \A y \in Connectors \ {"main"} : conner'[y] = conner[y]
  BY <1>1, <1>2 DEF ClientInv, EslTypes
<1>4. \A y \in Connectors : conner'[y].at # "subscribe" => conner'[y] = conner[y]
  BY <1>2, <1>3
<1>5. EslTypes'
  BY <1>1, <1>3 DEF ClientInv, EslTypes
<1>6. ConnInv'
  <2>1. \A y \in Connectors : Busy(y)' => Busy(y) /\ conner'[y] = conner[y]
    BY <1>4 DEF Busy
  <2>2. \A y \in Connectors : Busy(y)' => conner'[y].conn \in 1..made
    BY <2>1 DEF ClientInv, ConnInv
  <2>3. \A y, z \in Connectors : Busy(y)' /\ Busy(z)' /\ conner'[y].conn = conner'[z].conn => y = z
    BY <2>1 DEF ClientInv, ConnInv
  <2>4. \A y \in Connectors : conner'[y].at \in {"install", "snapshot", "restore", "mark"} => conner'[y] = conner[y]
    BY <1>4
  <2> QED
    BY <1>1, <2>2, <2>3, <2>4 DEF ClientInv, ConnInv, Busy
<1>7. cmd["main"].at = "none"
  BY <1>1 DEF ClientInv, MutexInv
<1>8. MutexInv'
  <2>1. \A y \in Connectors : cmd'[y].at # "none" => conner'[y].at \in {"restore", "subscribe"}
    BY <1>1, <1>3, <1>7 DEF ClientInv, MutexInv
  <2>2. ~reconnecting' => conner'["loop"].at = "idle"
    BY <1>1, <1>3 DEF ClientInv, MutexInv
  <2> QED
    BY <1>1, <1>2, <1>3, <2>1, <2>2 DEF ClientInv, MutexInv
<1>9. PairInv' /\ RepliesMatch'
  BY <1>1, PairFrame DEF ClientInv, RepliesMatch
<1>10. ~subscription
  BY <1>1 DEF ClientInv, SubscribeInv, OrderInv
<1>11. OrderInv' /\ RestoreInv' /\ HeardInv'
  BY <1>1, <1>4, <1>7, <1>10 DEF ClientInv, SubscribeInv, OrderInv, RestoreInv, HeardInv
<1> QED
  BY <1>5, <1>6, <1>8, <1>9, <1>11 DEF ClientInv, SubscribeInv

\* Main is subscribed: on the present connection, or on one that has no successor that is ready.
LEMMA SubscribedStep == ASSUME ClientInv, Subscribed PROVE ClientInv'
<1>1. /\ conner["main"].at = "subscribe" /\ cmd["main"].at \in {"ok", "error"} /\ subMu' = NoOne
      /\ cmd' = [cmd EXCEPT !["main"] = NoCmd]
      /\ "main" \in Connectors /\ "loop" \in Connectors /\ "main" \in Commanders /\ "main" # NoOne
      /\ UNCHANGED <<made, link, inbox, wire, listening, current, doneCh, ready, reconnecting, reader,
                     commandMu, issued, mispaired>>
  BY EslAssumption DEF EslAssumption, Subscribed, netVars, stateVars, Connectors, Commanders
<1>2. PICK new \in ConnerRecord :
         /\ conner' = [conner EXCEPT !["main"] = new]
         /\ \/ new.at = "done" /\ cmd["main"].at = "ok" /\ subscription' = TRUE
            \/ new.at = "failed" /\ subscription' = subscription
  <2>1. \E at \in {"done", "failed"} :
           /\ To("main", at)
           /\ \/ at = "done" /\ cmd["main"].at = "ok" /\ subscription' = TRUE
              \/ at = "failed" /\ subscription' = subscription
    BY DEF Subscribed
  <2> QED
    BY <1>1, <2>1, ToRecord
<1>3. /\ conner' \in [Connectors -> ConnerRecord] /\ conner'["main"] = new
      /\ \A y \in Connectors \ {"main"} : conner'[y] = conner[y]
  BY <1>1, <1>2 DEF ClientInv, EslTypes
<1>4. \A y \in Connectors : conner'[y].at \notin {"done", "failed"} => y # "main" /\ conner'[y] = conner[y]
  BY <1>2, <1>3
<1>5. NoCmd \in CmdRecord /\ NoCmd.at = "none"
  BY EslAssumption DEF EslAssumption, NoCmd, CmdRecord
<1>6. /\ PairInv' /\ cmd' \in [Commanders -> CmdRecord]
      /\ \A y \in Commanders :
            cmd'[y].at \in {"sent", "restart"} => cmd'[y] = cmd[y] /\ commandMu' = y
      /\ \A y \in Commanders : commandMu' = y => cmd'[y].at \in {"sent", "restart"}
      /\ \A y \in Connectors : cmd'[y].at \in {"sent", "ok"} => cmd'[y] = cmd[y]
      /\ cmd'["main"].at = "none"
  BY <1>1, <1>5, ForgetsCommand
<1>7. ~subscription
  BY <1>1 DEF ClientInv, SubscribeInv, OrderInv
<1>8. EslTypes'
  <2>1. subscription' \in BOOLEAN /\ subMu' \in {"main", NoOne}
    BY <1>1, <1>2 DEF ClientInv, EslTypes
  <2> QED
    BY <1>1, <1>3, <1>6, <2>1 DEF ClientInv, EslTypes
<1>9. ConnInv'
  <2>1. \A y \in Connectors : Busy(y)' => Busy(y) /\ conner'[y] = conner[y]
    BY <1>4 DEF Busy
  <2>2. \A y \in Connectors : Busy(y)' => conner'[y].conn \in 1..made
    BY <2>1 DEF ClientInv, ConnInv
  <2>3. \A y, z \in Connectors : Busy(y)' /\ Busy(z)' /\ conner'[y].conn = conner'[z].conn => y = z
    BY <2>1 DEF ClientInv, ConnInv
  <2>4. \A y \in Connectors : conner'[y].at \in {"install", "snapshot", "restore", "mark"} => conner'[y] = conner[y]
    BY <1>4
  <2> QED
    BY <1>1, <2>2, <2>3, <2>4 DEF ClientInv, ConnInv, Busy
<1>10. MutexInv'
  <2>1. \A y \in Connectors : cmd'[y].at # "none" => conner'[y].at \in {"restore", "subscribe"}
    <3>1. \A y \in Connectors \ {"main"} : cmd'[y] = cmd[y]
      BY <1>1 DEF ClientInv, EslTypes, Commanders
    <3> QED
      BY <1>3, <1>6, <3>1 DEF ClientInv, MutexInv
  <2>2. ~reconnecting' => conner'["loop"].at = "idle"
    BY <1>1, <1>3 DEF ClientInv, MutexInv
  <2>3. conner'["main"].at # "subscribe"
    BY <1>2, <1>3
  <2> QED
    BY <1>1, <1>6, <2>1, <2>2, <2>3 DEF ClientInv, MutexInv
<1>11. OrderInv'
  <2>1. subscription' => conner'["main"].at = "done"
    BY <1>2, <1>3, <1>7
  <2>2. \A y \in Connectors : conner'[y].at # "restore"
    BY <1>4, <1>7 DEF ClientInv, SubscribeInv, OrderInv
  <2> QED
    BY <2>1, <2>2 DEF OrderInv
<1>12. RestoreInv'
  BY <1>1, <1>4, <1>6 DEF ClientInv, SubscribeInv, RestoreInv
<1>13. HeardInv'
  <2>1. conner'["main"].at # "subscribe"
    BY <1>2, <1>3
  <2>2. subscription' => cmd["main"].at = "ok"
    BY <1>2, <1>7
  <2>3. ASSUME subscription', cmd["main"].conn = current PROVE Heard(current)'
    <3>1. cmd["main"].conn \in listening \cup doneCh /\ current \notin doneCh
      BY <1>1, <2>2, <2>3 DEF ClientInv, SubscribeInv, RestoreInv, ConnInv
    <3> QED
      BY <1>1, <2>3, <3>1 DEF Heard
  <2>4. ASSUME subscription', cmd["main"].conn # current
        PROVE  ~ready /\ \A y \in Connectors : conner[y].at = "mark" => conner[y].conn # current
    BY <1>1, <2>2, <2>4 DEF ClientInv, SubscribeInv, HeardInv
  <2>5. \A y \in Connectors : subscription' /\ conner'[y].at = "mark" /\ conner'[y].conn = current
          => Heard(current)'
    BY <1>4, <2>3, <2>4
  <2>6. ready /\ subscription' => Heard(current)'
    BY <2>3, <2>4
  <2> QED
    BY <1>1, <2>1, <2>5, <2>6 DEF HeardInv
<1>14. RepliesMatch'
  BY <1>1 DEF ClientInv, RepliesMatch
<1> QED
  BY <1>6, <1>8, <1>9, <1>10, <1>11, <1>12, <1>13, <1>14 DEF ClientInv, SubscribeInv

\* Every step of the client, of FreeSWITCH and of the links.
LEMMA ClientNext == ASSUME ClientInv, [EslNext]_eslVars PROVE ClientInv'
<1>1. ASSUME NEW i \in Conns, Answers(i) \/ Emits(i) \/ LinkFails(i) PROVE ClientInv'
  BY <1>1, AnswersStep, EmitsStep, LinkFailsStep
<1>2. ASSUME NEW i \in Conns, ReaderStep(i) PROVE ClientInv'
  BY <1>2, ReadReplyStep, ReadEventStep, ReaderEndsStep, ReaderDisconnectsStep, ReaderReconnectsStep
     DEF ReaderStep
<1>3. ASSUME NEW x \in Connectors, ConnectorStep(x) PROVE ClientInv'
  <2>1. x \in Commanders
    BY DEF Commanders
  <2>2. ConnectorSends(x) => ClientInv'
    BY <2>1, WriteStep DEF ConnectorSends
  <2> QED
    BY <1>3, <2>2, DialStep, RestingStep, InstallStep, SnapshotStep, RestoredStep DEF ConnectorStep
<1>4. ASSUME NEW x \in Commanders, CallerCommands(x) \/ CommandStep(x) PROVE ClientInv'
  <2>1. CASE CallerCommands(x)
    <3>1. x \notin Connectors
      BY <2>1, EslAssumption DEF EslAssumption, CallerCommands, Connectors
    <3> QED
      BY <2>1, <3>1, WriteStep DEF CallerCommands
  <2>2. CASE CommandStep(x)
    BY <2>2, GetsReplyStep, SeesClosedStep, TimesOutStep, TimeoutReconnectsStep, CallerReturnsStep
       DEF CommandStep
  <2> QED
    BY <1>4, <2>1, <2>2
<1>5. ASSUME LoopStep \/ MainStep PROVE ClientInv'
  <2>1. "loop" \in Connectors /\ "main" \in Connectors
    BY DEF Connectors
  <2>2. MainCloses => CloseStarts
    BY DEF MainCloses
  <2> QED
    BY <1>3, <1>5, <2>1, <2>2, LoopStepInv, SubscribeStep, SubscribedStep, CloseStep
       DEF LoopStep, MainStep
<1>6. ASSUME Consume \/ CloseStarts \/ CloserStep PROVE ClientInv'
  BY <1>6, CloseStep DEF CloserStep
<1>7. CASE UNCHANGED eslVars
  <2>1. /\ UNCHANGED <<made, inbox, wire, listening, current, doneCh, reconnecting, reader, subVars,
                       cmdVars, conner>>
        /\ ready' = ready /\ link' = link
    BY <1>7 DEF eslVars, subVars, cmdVars
  <2>2. link \in [Conns -> {"none", "up", "down"}]
    BY DEF ClientInv, EslTypes
  <2> QED
    BY <2>1, <2>2, QuietClient
<1>8. CASE EslNext
  BY <1>1, <1>2, <1>4, <1>5, <1>6, <1>8 DEF EslNext, FreeSwitchStep
<1> QED
  BY <1>7, <1>8

\* The client keeps its commands, connections and subscriptions in order, whatever FreeSWITCH and
\* the links do, and however many goroutines issue commands.
THEOREM ClientInductive == EslSafety => []ClientInv
<1>1. EslInit => ClientInv
  BY ClientInit
<1>2. ClientInv /\ [EslNext]_eslVars => ClientInv'
  BY ClientNext
<1> QED
  BY <1>1, <1>2, PTL DEF EslSafety

\* A reply goes to the command it answers, and a client that is ready hears what is subscribed
\* (command, connectOnce, restoreSubscriptions, Subscribe of esl_client).
THEOREM RepliesAndSubscriptions == EslSafety => []EslSound
<1>1. ClientInv => EslSound
  BY DEF ClientInv, SubscribeInv, HeardInv, Heard, EslSound, ReadyIsSubscribed
<1> QED
  BY <1>1, ClientInductive, PTL

(***************************************************************************)
(* Types                                                                   *)
(***************************************************************************)
\* What the invariant leaves of the types: the current connection is being read, a client that is
\* ready is not closed, the flag of the reconnect loop says that it runs, and the bounds.
Reads(i) == reader[i].at \in {"read", "offer", "failed"}
EslRest ==
    /\ current # 0 => Reads(current)
    /\ ready => ~closed
    /\ reconnecting => conner["loop"].at # "idle"
    /\ queue \in 0..EventDepth /\ eslFaults \in 0..EslFaults

\* The flag is set with the loop that is started, and cleared by its end.
LEMMA FlagFollowsLoop ==
    ASSUME ClientInv, EslRest, EslNext
    PROVE  reconnecting' => conner'["loop"].at # "idle"
<1>1. /\ reconnecting => conner["loop"].at # "idle"
      /\ conner \in [Connectors -> ConnerRecord] /\ "loop" \in Connectors /\ "main" \in Connectors
  BY DEF EslRest, ClientInv, EslTypes, Connectors
<1>2. ASSUME UNCHANGED <<reconnecting, conner>> PROVE reconnecting' => conner'["loop"].at # "idle"
  BY <1>1, <1>2
<1>3. ASSUME StartReconnect PROVE reconnecting' => conner'["loop"].at # "idle"
  <2>1. CASE closed \/ reconnecting
    BY <1>1, <1>3, <2>1 DEF StartReconnect
  <2>2. CASE ~(closed \/ reconnecting)
    <3>1. conner' = [conner EXCEPT !["loop"] = [at |-> "dial", conn |-> 0]]
      BY <1>3, <2>2 DEF StartReconnect
    <3>2. conner'["loop"].at = "dial"
      BY <1>1, <3>1
    <3> QED
      BY <3>2
  <2> QED
    BY <2>1, <2>2
<1>4. ASSUME NEW x \in Connectors, UNCHANGED reconnecting, NEW at, at # "idle", To(x, at)
      PROVE  reconnecting' => conner'["loop"].at # "idle"
  BY <1>1, <1>4 DEF To, ConnerRecord
<1>5. ASSUME NEW x \in Connectors, ConnectorStep(x)
      PROVE  reconnecting' => conner'["loop"].at # "idle"
  <2>1. CASE Dial(x)
    BY <1>1, <2>1 DEF Dial, stateVars
  <2>2. UNCHANGED reconnecting
    BY <1>5 DEF ConnectorStep, Dial, DialFails, Install, Snapshot, ConnectorSends, Write, Restored, MarkReady,
       stateVars
  <2>3. Dial(x) \/ UNCHANGED conner \/ \E at : at # "idle" /\ To(x, at)
    BY <1>5 DEF ConnectorStep, DialFails, Install, Snapshot, ConnectorSends, Write, Restored, MarkReady
  <2> QED
    BY <1>2, <1>4, <2>1, <2>2, <2>3
<1>6. CASE LoopEnds \/ LoopRetries
  BY <1>1, <1>6 DEF LoopEnds, LoopRetries, stateVars
<1>7. CASE Subscribe \/ Subscribed
  <2>1. UNCHANGED reconnecting /\ \E at : at # "idle" /\ To("main", at)
    BY <1>7 DEF Subscribe, Subscribed, stateVars
  <2> QED
    BY <1>1, <1>4, <2>1
<1>8. CASE FreeSwitchStep \/ Consume \/ CloseStarts \/ CloserStep
  <2>1. UNCHANGED <<reconnecting, conner>>
    BY <1>8 DEF FreeSwitchStep, Answers, Emits, LinkFails, Consume, CloseStarts, CloserStep, CloseCancels,
       CloseReturns, stateVars
  <2> QED
    BY <1>2, <2>1
<1>9. ASSUME NEW i \in Conns, ReaderStep(i) PROVE reconnecting' => conner'["loop"].at # "idle"
  <2>1. StartReconnect \/ UNCHANGED <<reconnecting, conner>>
    BY <1>9 DEF ReaderStep, ReadReply, ReadEvent, ReadFails, OfferEnds, ReaderDisconnects, ReaderReconnects,
       stateVars
  <2> QED
    BY <1>2, <1>3, <2>1
<1>10. ASSUME NEW x \in Commanders, CallerCommands(x) \/ CommandStep(x)
       PROVE  reconnecting' => conner'["loop"].at # "idle"
  <2>1. StartReconnect \/ UNCHANGED <<reconnecting, conner>>
    BY <1>10 DEF CallerCommands, Write, CommandStep, GetsReply, SeesClosed, TimesOut, TimeoutReconnects,
       CallerReturns, stateVars
  <2> QED
    BY <1>2, <1>3, <2>1
<1> QED
  BY <1>1, <1>5, <1>6, <1>7, <1>8, <1>9, <1>10 DEF EslNext, LoopStep, MainStep, MainCloses

\* A read loop works on the current connection until it is retired.
LEMMA CurrentIsRead ==
    ASSUME ClientInv, EslRest, EslNext
    PROVE  current' # 0 => Reads(current)'
<1>1. /\ current # 0 => Reads(current) /\ current \in Conns
      /\ current \notin doneCh /\ reader \in [Conns -> ReaderRecord]
  BY EslAssumption DEF EslAssumption, EslRest, ClientInv, EslTypes, ConnInv, Conns
<1>2. ASSUME UNCHANGED <<current, reader>> PROVE current' # 0 => Reads(current)'
  BY <1>1, <1>2 DEF Reads
<1>3. ASSUME NEW i \in Conns, NEW new, reader' = [reader EXCEPT ![i] = new], UNCHANGED current,
             i = current => new.at \in {"read", "offer", "failed"}
      PROVE  current' # 0 => Reads(current)'
  BY <1>1, <1>3 DEF Reads
<1>4. ASSUME NEW i \in Conns, ReaderStep(i) PROVE current' # 0 => Reads(current)'
  <2>1. CASE ReadReply(i) \/ ReadFails(i)
    <3>1. UNCHANGED current /\ \E new : /\ reader' = [reader EXCEPT ![i] = new]
                                        /\ new.at \in {"read", "offer", "failed"}
      BY <1>1, <2>1 DEF ReadReply, ReadFails, stateVars, ReaderRecord
    <3> QED
      BY <1>3, <3>1
  <2>2. CASE ReadEvent(i)
    <3>1. UNCHANGED current /\ (UNCHANGED reader \/ reader' = [reader EXCEPT ![i].at = "failed"])
      BY <2>2 DEF ReadEvent, stateVars
    <3> QED
      BY <1>1, <3>1 DEF Reads, ReaderRecord
  <2>3. CASE OfferEnds(i)
    <3>1. UNCHANGED current /\ reader' = [reader EXCEPT ![i] = [at |-> IF i \in doneCh THEN "gone" ELSE "failed",
                                                                id |-> 0]]
      BY <2>3 DEF OfferEnds, stateVars
    <3> QED
      BY <1>1, <3>1 DEF Reads
  <2>4. CASE ReaderDisconnects(i)
    <3>1. i # 0
      BY EslAssumption DEF EslAssumption, Conns
    <3>2. current' \in {0, current} /\ current' # i
      BY <2>4, <3>1 DEF ReaderDisconnects, Retire
    <3>3. \A j \in Conns : j # i => reader'[j] = reader[j]
      BY <1>1, <2>4 DEF ReaderDisconnects
    <3> QED
      BY <1>1, <3>2, <3>3 DEF Reads
  <2>5. CASE ReaderReconnects(i)
    <3>1. UNCHANGED current /\ i # current /\ reader' = [reader EXCEPT ![i].at = "gone"]
      BY <1>1, <2>5 DEF ReaderReconnects, Reads, Conns
    <3> QED
      BY <1>1, <3>1 DEF Reads
  <2> QED
    BY <1>4, <2>1, <2>2, <2>3, <2>4, <2>5 DEF ReaderStep
<1>5. ASSUME NEW x \in Commanders, CommandStep(x) PROVE current' # 0 => Reads(current)'
  <2>1. ASSUME NEW refused \in BOOLEAN, GetsReply(x, refused) PROVE current' # 0 => Reads(current)'
    BY <1>1, <2>1 DEF GetsReply, Reads, stateVars
  <2>2. CASE TimesOut(x)
    <3>1. current' \in {0, current} /\ UNCHANGED reader
      BY <2>2 DEF TimesOut, Retire
    <3> QED
      BY <1>1, <3>1 DEF Reads
  <2>3. CASE SeesClosed(x) \/ TimeoutReconnects(x) \/ CallerReturns(x)
    BY <1>2, <2>3 DEF SeesClosed, TimeoutReconnects, CallerReturns, stateVars
  <2> QED
    BY <1>5, <2>1, <2>2, <2>3 DEF CommandStep
<1>6. ASSUME NEW x \in Connectors, ConnectorStep(x) PROVE current' # 0 => Reads(current)'
  <2>1. CASE Install(x)
    <3>1. conner[x].conn \in Conns
      BY <1>6, <2>1, EslAssumption
         DEF EslAssumption, Install, ClientInv, ConnInv, Busy, EslTypes, Conns
    <3>2. \/ UNCHANGED <<current, reader>>
          \/ current' = conner[x].conn /\ reader' = [reader EXCEPT ![conner[x].conn].at = "read"]
      BY <2>1 DEF Install
    <3> QED
      BY <1>1, <1>2, <3>1, <3>2 DEF Reads, ReaderRecord
  <2>2. CASE ~Install(x)
    BY <1>2, <1>6, <2>2 DEF ConnectorStep, Dial, DialFails, Snapshot, ConnectorSends, Write, Restored, MarkReady,
       stateVars
  <2> QED
    BY <2>1, <2>2
<1>7. ASSUME \/ FreeSwitchStep \/ Consume \/ LoopEnds \/ LoopRetries \/ Subscribe \/ Subscribed
             \/ CloseStarts \/ CloserStep \/ \E x \in Commanders : CallerCommands(x)
      PROVE  UNCHANGED <<current, reader>>
  BY <1>7 DEF FreeSwitchStep, Answers, Emits, LinkFails, Consume, LoopEnds, LoopRetries, Subscribe, Subscribed,
     CloseStarts, CloserStep, CloseCancels, CloseReturns, CallerCommands, Write, stateVars
<1> QED
  BY <1>2, <1>4, <1>5, <1>6, <1>7 DEF EslNext, LoopStep, MainStep, MainCloses, Connectors

\* The bounds, and that Close makes a client not ready.
LEMMA BoundsStay ==
    ASSUME ClientInv, EslRest, EslNext
    PROVE  /\ ready' => ~closed'
           /\ queue' \in 0..EventDepth /\ eslFaults' \in 0..EslFaults
<1>1. /\ ready => ~closed
      /\ queue \in 0..EventDepth /\ eslFaults \in 0..EslFaults /\ EventDepth \in Nat /\ EslFaults \in Nat
  BY EslAssumption DEF EslAssumption, EslRest
<1>2. ASSUME (UNCHANGED closed /\ (ready' => ready)) \/ ready' = FALSE,
             UNCHANGED queue \/ (queue < EventDepth /\ queue' = queue + 1) \/ (queue > 0 /\ queue' = queue - 1),
             UNCHANGED eslFaults \/ EslFault
      PROVE  (ready' => ~closed') /\ queue' \in 0..EventDepth /\ eslFaults' \in 0..EslFaults
  BY <1>1, <1>2 DEF EslFault
<1>3. ASSUME NEW i \in Conns, ReaderStep(i)
      PROVE  (ready' => ~closed') /\ queue' \in 0..EventDepth /\ eslFaults' \in 0..EslFaults
  BY <1>2, <1>3 DEF ReaderStep, ReadReply, ReadEvent, ReadFails, OfferEnds, ReaderDisconnects, ReaderReconnects,
     Retire, stateVars, restVars
<1>4. ASSUME NEW x \in Commanders, CallerCommands(x) \/ CommandStep(x)
      PROVE  (ready' => ~closed') /\ queue' \in 0..EventDepth /\ eslFaults' \in 0..EslFaults
  BY <1>2, <1>4 DEF CallerCommands, Write, CommandStep, GetsReply, SeesClosed, TimesOut, TimeoutReconnects,
     CallerReturns, Retire, stateVars, restVars
<1>5. ASSUME NEW x \in Connectors, ConnectorStep(x)
      PROVE  (ready' => ~closed') /\ queue' \in 0..EventDepth /\ eslFaults' \in 0..EslFaults
  <2>1. CASE MarkReady(x)
    BY <1>1, <2>1 DEF MarkReady, restVars
  <2>2. CASE ~MarkReady(x)
    BY <1>2, <1>5, <2>2 DEF ConnectorStep, Dial, DialFails, Install, Snapshot, ConnectorSends, Write, Restored,
       stateVars, restVars
  <2> QED
    BY <2>1, <2>2
<1>6. ASSUME \/ FreeSwitchStep \/ Consume \/ LoopEnds \/ LoopRetries \/ Subscribe \/ Subscribed
             \/ CloseStarts \/ CloserStep
      PROVE  (ready' => ~closed') /\ queue' \in 0..EventDepth /\ eslFaults' \in 0..EslFaults
  BY <1>2, <1>6 DEF FreeSwitchStep, Answers, Emits, LinkFails, Consume, LoopEnds, LoopRetries, Subscribe, Subscribed,
     CloseStarts, CloserStep, CloseCancels, CloseReturns, stateVars, restVars
<1> QED
  BY <1>3, <1>4, <1>5, <1>6 DEF EslNext, LoopStep, MainStep, MainCloses, Connectors

\* Connections, goroutines, mutexes and flags keep their types.
THEOREM EslTypeCorrect == EslSafety => []EslTypeOK
<1>1. EslInit => EslRest
  BY EslAssumption DEF EslAssumption, EslInit, EslRest, Connectors
<1>2. ClientInv /\ EslRest /\ [EslNext]_eslVars => EslRest'
  <2>1. CASE UNCHANGED eslVars
    BY <2>1 DEF eslVars, EslRest, Reads
  <2> QED
    BY <2>1, FlagFollowsLoop, CurrentIsRead, BoundsStay DEF EslRest
<1>3. ClientInv /\ EslRest => EslTypeOK
  <2>. SUFFICES ASSUME ClientInv, EslRest PROVE EslTypeOK
    OBVIOUS
  <2>1. EslTypes /\ ConnInv /\ MutexInv
    BY DEF ClientInv
  <2>2. NoOne \notin Commanders /\ MaxConns \in Nat /\ "loop" \in Connectors
    BY EslAssumption DEF EslAssumption, Commanders, Connectors
  <2>3. commandMu # NoOne <=> \E x \in Commanders : cmd[x].at \in {"sent", "restart"}
    BY <2>1, <2>2 DEF EslTypes, MutexInv
  <2>4. reconnecting <=> conner["loop"].at # "idle"
    BY <2>1 DEF MutexInv, EslRest
  <2>5. /\ current \in 0..MaxConns /\ made \in 0..MaxConns /\ current <= made /\ doneCh \subseteq Conns
    BY <2>1, <2>2 DEF EslTypes, Conns
  <2>6. /\ \A i \in Conns : reader[i].at \in {"none", "read", "offer", "failed", "restart", "gone"}
        /\ \A x \in Commanders : cmd[x].at \in {"none", "sent", "restart", "ok", "error"}
    BY <2>1 DEF EslTypes, ReaderRecord, CmdRecord
  <2>7. /\ current # 0 => reader[current].at \in {"read", "offer", "failed"} /\ current \notin doneCh
        /\ ready => current # 0 /\ ~closed
        /\ queue \in 0..EventDepth /\ eslFaults \in 0..EslFaults
    BY <2>1 DEF ConnInv, EslRest, Reads
  <2>8. /\ link \in [Conns -> {"none", "up", "down"}]
        /\ \A i \in Conns : inbox[i] \in Seq(Nat) /\ wire[i] \in Seq(Nat)
        /\ listening \subseteq Conns /\ commandMu \in Commanders \cup {NoOne} /\ subMu \in {"main", NoOne}
    BY <2>1 DEF EslTypes
  <2> QED
    BY <2>3, <2>4, <2>5, <2>6, <2>7, <2>8 DEF EslTypeOK
<1> QED
  BY <1>1, <1>2, <1>3, ClientInductive, PTL DEF EslSafety
=============================================================================
