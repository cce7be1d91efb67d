------------------------- MODULE InboundCallProofs -------------------------
(***************************************************************************)
(* Inbound calls.  For any number of workers, calls, channels and          *)
(* failures: types and the refinement of CallLifecycle.  For the           *)
(* deployment with one worker: leases, reachability and the limits.        *)
(***************************************************************************)
EXTENDS InboundCall, CallCoreProofs, FiniteSetTheorems

(***************************************************************************)
(* Admissions                                                              *)
(***************************************************************************)
\* A list of compensations ends with the hangup or the reuse, and only there.
EndsOnce(u) ==
    /\ u \in Seq(Undo) /\ Len(u) >= 1
    /\ \A i \in 1..Len(u) : u[i] \in {"hangup", "reuse"} <=> i = Len(u)

\* Steps that work on a call.
CallPc == {"attribute", "bindOrg", "bindTrunk", "reuse", "refreshOrg", "refreshTrunk",
           "bind", "setCallID"}

\* An admission that is undone has something left to undo, and one that
\* writes a row, or will, has its call.
AdmOK(a) ==
    /\ a \in Adm
    /\ a.pc = "undo" => EndsOnce(a.undo)
    /\ a.pc \in CallPc => a.call \in Calls
    /\ a.pc = "undo" => \A i \in 1..Len(a.undo) :
          a.undo[i] \in {"markFailed", "reuse"} => a.call \in Calls

AdmInv ==
    /\ adm \in [Workers -> [Channels -> Adm]]
    /\ \A w \in Workers, ch \in Channels : AdmOK(adm[w][ch])

\* A row that was not created is blank; an admission's call was created.
RowInv ==
    /\ \A c \in Calls : row[c].state = "none" => row[c] = NoRow
    /\ \A w \in Workers, ch \in Channels :
          adm[w][ch].call \in Calls => row[adm[w][ch].call].state # "none"

TypeInv == CoreInv /\ AdmInv /\ RowInv

\* The initial state is well formed.
LEMMA TypeInvInit == Init => TypeInv
<1> SUFFICES ASSUME Init PROVE TypeInv
  OBVIOUS
<1>1. /\ IdleAdm \in Adm /\ IdleAdm.pc = "none" /\ IdleAdm.call = NoCall
  BY DEF IdleAdm, Adm, AdmPc
<1>2. AdmInv
  BY <1>1 DEF Init, AdmInv, AdmOK, CallPc
<1>3. RowInv
  BY <1>1, CallAssumption DEF Init, CoreInit, RowInv
<1> QED
  BY <1>2, <1>3, CoreInvInit DEF Init, TypeInv

(***************************************************************************)
(* How an admission moves                                                  *)
(***************************************************************************)
\* Admission ch of worker w becomes the record of these fields; all others stay.
Moved(w, ch, pc, c, n, u) ==
    /\ adm' \in [Workers -> [Channels -> Adm]]
    /\ adm'[w][ch] = [pc |-> pc, call |-> c, new |-> n, undo |-> u]
    /\ \A v \in Workers, x \in Channels : v # w \/ x # ch => adm'[v][x] = adm[v][x]

\* Writing one admission.
LEMMA AdmWrite ==
    ASSUME AdmInv, NEW w \in Workers, NEW ch \in Channels, NEW pc \in AdmPc,
           NEW c \in Calls \cup {NoCall}, NEW n \in BOOLEAN, NEW u \in Seq(Undo),
           adm' = [adm EXCEPT ![w] = [adm[w] EXCEPT ![ch] =
                      [pc |-> pc, call |-> c, new |-> n, undo |-> u]]]
    PROVE  Moved(w, ch, pc, c, n, u)
<1> DEFINE r == [pc |-> pc, call |-> c, new |-> n, undo |-> u]
<1>1. r \in Adm
  BY DEF Adm
<1> HIDE DEF r
<1>2. /\ adm' \in [Workers -> [Channels -> Adm]] /\ adm'[w][ch] = r
      /\ \A v \in Workers, x \in Channels : v # w \/ x # ch => adm'[v][x] = adm[v][x]
  BY <1>1 DEF AdmInv, r
<1> QED
  BY <1>2 DEF Moved, r

\* Setting the step and the compensations of an admission.
LEMMA AdmSet ==
    ASSUME NEW a \in Adm, NEW pc, NEW u
    PROVE  /\ [a EXCEPT !.pc = pc, !.undo = u] =
                 [pc |-> pc, call |-> a.call, new |-> a.new, undo |-> u]
           /\ [a EXCEPT !.undo = u, !.pc = pc] =
                 [pc |-> pc, call |-> a.call, new |-> a.new, undo |-> u]
<1>1. a = [pc |-> a.pc, call |-> a.call, new |-> a.new, undo |-> a.undo]
  BY DEF Adm
<1>2. [a EXCEPT !.pc = pc] = [pc |-> pc, call |-> a.call, new |-> a.new, undo |-> a.undo]
  BY <1>1
<1>3. [a EXCEPT !.undo = u] = [pc |-> a.pc, call |-> a.call, new |-> a.new, undo |-> u]
  BY <1>1
<1>4. /\ [a EXCEPT !.pc = pc, !.undo = u] = [[a EXCEPT !.pc = pc] EXCEPT !.undo = u]
      /\ [a EXCEPT !.undo = u, !.pc = pc] = [[a EXCEPT !.undo = u] EXCEPT !.pc = pc]
  OBVIOUS
<1>5. /\ [[pc |-> pc, call |-> a.call, new |-> a.new, undo |-> a.undo] EXCEPT !.undo = u]
            = [pc |-> pc, call |-> a.call, new |-> a.new, undo |-> u]
      /\ [[pc |-> a.pc, call |-> a.call, new |-> a.new, undo |-> u] EXCEPT !.pc = pc]
            = [pc |-> pc, call |-> a.call, new |-> a.new, undo |-> u]
  OBVIOUS
<1> QED
  BY <1>2, <1>3, <1>4, <1>5

\* Setting the step and the call, and that the call is new.
LEMMA AdmCallSet ==
    ASSUME NEW a \in Adm, NEW pc, NEW c
    PROVE  /\ [a EXCEPT !.pc = pc, !.call = c] =
                 [pc |-> pc, call |-> c, new |-> a.new, undo |-> a.undo]
           /\ [a EXCEPT !.pc = pc, !.call = c, !.new = TRUE] =
                 [pc |-> pc, call |-> c, new |-> TRUE, undo |-> a.undo]
<1> DEFINE b == [pc |-> pc, call |-> a.call, new |-> a.new, undo |-> a.undo]
           d == [pc |-> pc, call |-> c, new |-> a.new, undo |-> a.undo]
<1>1. a = [pc |-> a.pc, call |-> a.call, new |-> a.new, undo |-> a.undo]
  BY DEF Adm
<1>2. [a EXCEPT !.pc = pc] = b
  BY <1>1
<1>3. [b EXCEPT !.call = c] = d
  OBVIOUS
<1>4. ASSUME NEW n PROVE [d EXCEPT !.new = n] = [pc |-> pc, call |-> c, new |-> n, undo |-> a.undo]
  OBVIOUS
<1>5. /\ [a EXCEPT !.pc = pc, !.call = c] = [[a EXCEPT !.pc = pc] EXCEPT !.call = c]
      /\ [a EXCEPT !.pc = pc, !.call = c, !.new = TRUE] =
            [[[a EXCEPT !.pc = pc] EXCEPT !.call = c] EXCEPT !.new = TRUE]
  OBVIOUS
<1> HIDE DEF b
<1>6. [a EXCEPT !.pc = pc, !.call = c] = d
  BY <1>2, <1>3, <1>5
<1> HIDE DEF d
<1>7. [a EXCEPT !.pc = pc, !.call = c, !.new = TRUE] = [d EXCEPT !.new = TRUE]
  BY <1>2, <1>3, <1>5
<1>8. [d EXCEPT !.new = TRUE] = [pc |-> pc, call |-> c, new |-> TRUE, undo |-> a.undo]
  BY <1>4, Zenon
<1> QED
  BY <1>6, <1>7, <1>8 DEF d

\* The next step of an admission.
LEMMA GotoMoves ==
    ASSUME AdmInv, NEW w \in Workers, NEW ch \in Channels, NEW pc \in AdmPc, Goto(w, ch, pc)
    PROVE  Moved(w, ch, pc, adm[w][ch].call, adm[w][ch].new, adm[w][ch].undo)
<1>1. adm[w][ch] \in Adm
  BY DEF AdmInv
<1>2. [adm[w][ch] EXCEPT !.pc = pc] =
         [pc |-> pc, call |-> adm[w][ch].call, new |-> adm[w][ch].new, undo |-> adm[w][ch].undo]
  BY <1>1 DEF Adm
<1>3. adm' = [adm EXCEPT ![w] = [adm[w] EXCEPT ![ch] = [adm[w][ch] EXCEPT !.pc = pc]]]
  BY DEF Goto
<1>4. /\ adm[w][ch].call \in Calls \cup {NoCall} /\ adm[w][ch].new \in BOOLEAN
      /\ adm[w][ch].undo \in Seq(Undo)
  BY <1>1 DEF Adm
<1>5. adm' = [adm EXCEPT ![w] = [adm[w] EXCEPT ![ch] =
         [pc |-> pc, call |-> adm[w][ch].call, new |-> adm[w][ch].new, undo |-> adm[w][ch].undo]]]
  BY <1>2, <1>3
<1> QED
  BY <1>4, <1>5, AdmWrite

\* The start of a compensation.
LEMMA UndoMoves ==
    ASSUME AdmInv, NEW w \in Workers, NEW ch \in Channels, NEW u \in Seq(Undo), UndoBy(w, ch, u)
    PROVE  Moved(w, ch, "undo", adm[w][ch].call, adm[w][ch].new, u)
<1>1. adm[w][ch] \in Adm /\ "undo" \in AdmPc
  BY DEF AdmInv, AdmPc
<1>2. [adm[w][ch] EXCEPT !.pc = "undo", !.undo = u] =
         [pc |-> "undo", call |-> adm[w][ch].call, new |-> adm[w][ch].new, undo |-> u]
  BY <1>1, AdmSet
<1>3. adm' = [adm EXCEPT ![w] = [adm[w] EXCEPT ![ch] =
                 [adm[w][ch] EXCEPT !.pc = "undo", !.undo = u]]]
  BY DEF UndoBy, AdmInv
<1>4. adm[w][ch].call \in Calls \cup {NoCall} /\ adm[w][ch].new \in BOOLEAN
  BY <1>1 DEF Adm
<1>5. adm' = [adm EXCEPT ![w] = [adm[w] EXCEPT ![ch] =
         [pc |-> "undo", call |-> adm[w][ch].call, new |-> adm[w][ch].new, undo |-> u]]]
  BY <1>2, <1>3
<1> QED
  BY <1>1, <1>4, <1>5, AdmWrite

\* Where the compensation step leads.
AfterUndo(step) == IF step = "hangup" THEN "rejected" ELSE IF step = "reuse" THEN "reuse" ELSE "undo"

\* The first compensation of a list, and what is left of it.
LEMMA UndoHead ==
    ASSUME NEW u, EndsOnce(u)
    PROVE  /\ Head(u) \in Undo /\ Head(u) = u[1] /\ Tail(u) \in Seq(Undo)
           /\ \A i \in 1..Len(Tail(u)) : Tail(u)[i] = u[i + 1] /\ i + 1 \in 1..Len(u)
           /\ Head(u) \notin {"hangup", "reuse"} => EndsOnce(Tail(u))
<1>1. u \in Seq(Undo) /\ Len(u) >= 1 /\ u # << >> /\ Len(u) \in Nat
  BY DEF EndsOnce
<1>2. Head(u) = u[1] /\ u[1] \in Undo /\ Tail(u) \in Seq(Undo) /\ Len(Tail(u)) = Len(u) - 1
  BY <1>1
<1>3. \A i \in 1..Len(Tail(u)) : Tail(u)[i] = u[i + 1] /\ i + 1 \in 1..Len(u)
  BY <1>1, <1>2
<1>4. ASSUME Head(u) \notin {"hangup", "reuse"} PROVE EndsOnce(Tail(u))
  <2>1. Len(u) # 1
    <3>1. 1 \in 1..Len(u)
      BY <1>1
    <3> QED
      BY <1>2, <1>4, <3>1 DEF EndsOnce
  <2>2. \A i \in 1..Len(Tail(u)) : Tail(u)[i] \in {"hangup", "reuse"} <=> i + 1 = Len(u)
    BY <1>3 DEF EndsOnce
  <2>3. Len(Tail(u)) >= 1 /\ \A i \in 1..Len(Tail(u)) : i + 1 = Len(u) <=> i = Len(Tail(u))
    BY <1>1, <1>2, <2>1
  <2> QED
    BY <1>2, <2>2, <2>3 DEF EndsOnce
<1> QED
  BY <1>2, <1>3, <1>4

\* One compensation done.
LEMMA CompensatedMoves ==
    ASSUME AdmInv, NEW w \in Workers, NEW ch \in Channels, At(w, ch, "undo"), Compensated(w, ch)
    PROVE  Moved(w, ch, AfterUndo(Head(adm[w][ch].undo)), adm[w][ch].call, adm[w][ch].new,
                 Tail(adm[w][ch].undo))
<1> DEFINE a == adm[w][ch]
           pc == AfterUndo(Head(a.undo))
<1>1. a \in Adm /\ EndsOnce(a.undo)
  BY DEF AdmInv, AdmOK, At
<1>2. Tail(a.undo) \in Seq(Undo) /\ pc \in AdmPc
  BY <1>1, UndoHead DEF AfterUndo, AdmPc
<1>3. pc = CASE Head(a.undo) = "hangup" -> "rejected" [] Head(a.undo) = "reuse" -> "reuse"
             [] OTHER -> "undo"
  BY DEF AfterUndo
<1> HIDE DEF pc
<1>4. adm' = [adm EXCEPT ![w] = [adm[w] EXCEPT ![ch] = [a EXCEPT !.undo = Tail(a.undo), !.pc = pc]]]
  BY <1>3 DEF Compensated, AdmInv
<1>5. [a EXCEPT !.undo = Tail(a.undo), !.pc = pc] =
         [pc |-> pc, call |-> a.call, new |-> a.new, undo |-> Tail(a.undo)]
  BY <1>1, AdmSet
<1>6. Moved(w, ch, pc, a.call, a.new, Tail(a.undo))
  <2>1. a.call \in Calls \cup {NoCall} /\ a.new \in BOOLEAN
    BY <1>1 DEF Adm
  <2>2. adm' = [adm EXCEPT ![w] = [adm[w] EXCEPT ![ch] =
           [pc |-> pc, call |-> a.call, new |-> a.new, undo |-> Tail(a.undo)]]]
    BY <1>4, <1>5
  <2> QED
    BY <1>2, <2>1, <2>2, AdmWrite
<1> QED
  BY <1>6 DEF pc
\* The lists the code executes end with their hangup or reuse.
LEMMA ListsEndOnce ==
    /\ \A s \in {"hangup", "reuse"} :
          /\ EndsOnce(<<s>>) /\ EndsOnce(<<"orgByChannel", s>>)
          /\ EndsOnce(<<"trunkByChannel", "orgByChannel", s>>)
    /\ EndsOnce(AfterBindOrgError) /\ EndsOnce(AfterBindTrunkError) /\ EndsOnce(AfterChannelError)
<1>0. "hangup" \in Undo /\ "reuse" \in Undo /\ "orgByChannel" \in Undo /\ "trunkByChannel" \in Undo
      /\ "markFailed" \in Undo /\ "trunkByCall" \in Undo /\ "orgByCall" \in Undo
  BY DEF Undo
<1>1. ASSUME NEW s \in {"hangup", "reuse"}
      PROVE  /\ EndsOnce(<<s>>) /\ EndsOnce(<<"orgByChannel", s>>)
             /\ EndsOnce(<<"trunkByChannel", "orgByChannel", s>>)
  <2>1. EndsOnce(<<s>>)
    BY <1>0 DEF EndsOnce
  <2>2. EndsOnce(<<"orgByChannel", s>>)
    BY <1>0 DEF EndsOnce
  <2>3. EndsOnce(<<"trunkByChannel", "orgByChannel", s>>)
    BY <1>0 DEF EndsOnce
  <2> QED
    BY <2>1, <2>2, <2>3
<1>2. EndsOnce(AfterBindOrgError)
  BY <1>0 DEF EndsOnce, AfterBindOrgError
<1>3. EndsOnce(AfterBindTrunkError)
  BY <1>0 DEF EndsOnce, AfterBindTrunkError
<1>4. EndsOnce(AfterChannelError)
  BY <1>0 DEF EndsOnce, AfterChannelError
<1> QED
  BY <1>1, <1>2, <1>3, <1>4

\* What every step of an admission does to the admissions: its own stays well
\* formed, keeps its call or takes the one that owns the dialog, and the
\* others do not change.
Progressed(w, ch) ==
    /\ adm' \in [Workers -> [Channels -> Adm]]
    /\ AdmOK(adm'[w][ch])
    /\ \A v \in Workers, x \in Channels : v # w \/ x # ch => adm'[v][x] = adm[v][x]
    /\ \/ adm'[w][ch].call = adm[w][ch].call
       \/ adm'[w][ch].call \in Existing(ch)
       \/ CreateInbound(w, ch) /\ adm'[w][ch].call \in Calls /\ row'[adm'[w][ch].call].state = "ringing"
          /\ row'[adm'[w][ch].call].sip = ch

\* Going on is progress when the next step has its call.
LEMMA GotoProgress ==
    ASSUME AdmInv, NEW w \in Workers, NEW ch \in Channels, NEW pc \in AdmPc \ {"undo"},
           Goto(w, ch, pc), pc \in CallPc => adm[w][ch].call \in Calls
    PROVE  Progressed(w, ch)
<1>1. Moved(w, ch, pc, adm[w][ch].call, adm[w][ch].new, adm[w][ch].undo)
  BY GotoMoves
<1> QED
  BY <1>1 DEF Moved, Progressed, AdmOK, AdmInv

\* So is the start of a compensation that has its call when it needs one.
LEMMA UndoProgress ==
    ASSUME AdmInv, NEW w \in Workers, NEW ch \in Channels, NEW u, UndoBy(w, ch, u), EndsOnce(u),
           \A i \in 1..Len(u) : u[i] \in {"markFailed", "reuse"} => adm[w][ch].call \in Calls
    PROVE  Progressed(w, ch)
<1>1. Moved(w, ch, "undo", adm[w][ch].call, adm[w][ch].new, u)
  BY UndoMoves DEF EndsOnce
<1> QED
  BY <1>1 DEF Moved, Progressed, AdmOK, AdmInv, CallPc

\* A hangup needs no call.
LEMMA HangupProgress ==
    ASSUME AdmInv, NEW w \in Workers, NEW ch \in Channels,
           \/ UndoBy(w, ch, <<"hangup">>) \/ UndoBy(w, ch, <<"orgByChannel", "hangup">>)
           \/ UndoBy(w, ch, <<"trunkByChannel", "orgByChannel", "hangup">>)
    PROVE  Progressed(w, ch)
BY UndoProgress, ListsEndOnce

\* The other lists belong to an admission that has its call.
LEMMA CallUndoProgress ==
    ASSUME AdmInv, NEW w \in Workers, NEW ch \in Channels, adm[w][ch].call \in Calls,
           \/ UndoBy(w, ch, AfterBindOrgError) \/ UndoBy(w, ch, AfterBindTrunkError)
           \/ UndoBy(w, ch, AfterChannelError)
    PROVE  Progressed(w, ch)
BY UndoProgress, ListsEndOnce

\* Every step of an admission is progress.
LEMMA AdmitProgress ==
    ASSUME TypeInv, NEW w \in Workers, NEW ch \in Channels, AdmitStep(w, ch) \/ AdmitFailure(w, ch)
    PROVE  Progressed(w, ch)
<1> DEFINE a == adm[w][ch]
<1>0. AdmInv /\ a \in Adm /\ (a.pc \in CallPc => a.call \in Calls) /\ CoreTypeOK
  BY DEF TypeInv, AdmInv, AdmOK, CoreInv
<1>a. Existing(ch) \subseteq Calls
  BY DEF Existing
<1>1. CASE Lookup(w, ch)
  <2>1. ASSUME NEW c \in Existing(ch),
               adm' = [adm EXCEPT ![w][ch] = [@ EXCEPT !.pc = "undo", !.undo = <<"hangup">>]]
        PROVE  Progressed(w, ch)
    <3>1. UndoBy(w, ch, <<"hangup">>)
      BY <1>0, <2>1 DEF UndoBy, AdmInv
    <3> QED
      BY <1>0, <3>1, HangupProgress
  <2>2. ASSUME NEW c \in Existing(ch), adm' = [adm EXCEPT ![w][ch] = [@ EXCEPT !.pc = "reuse", !.call = c]]
        PROVE  Progressed(w, ch)
    <3>1. [a EXCEPT !.pc = "reuse", !.call = c] =
            [pc |-> "reuse", call |-> c, new |-> a.new, undo |-> a.undo]
      BY <1>0, AdmCallSet
    <3>2. Moved(w, ch, "reuse", c, a.new, a.undo)
      <4>1. a.new \in BOOLEAN /\ a.undo \in Seq(Undo) /\ "reuse" \in AdmPc /\ c \in Calls \cup {NoCall}
        BY <1>0, <1>a, <2>2 DEF Adm, AdmPc
      <4>2. adm' = [adm EXCEPT ![w] = [adm[w] EXCEPT ![ch] =
               [pc |-> "reuse", call |-> c, new |-> a.new, undo |-> a.undo]]]
        BY <2>2, <3>1
      <4> QED
        BY <1>0, <4>1, <4>2, AdmWrite
    <3> QED
      BY <1>a, <2>2, <3>2 DEF Moved, Progressed, AdmOK
  <2>3. ASSUME Goto(w, ch, "acquireOrg") PROVE Progressed(w, ch)
    BY <1>0, <2>3, GotoProgress DEF AdmPc, CallPc
  <2> QED
    BY <1>0, <1>1, <2>1, <2>2, <2>3, HangupProgress DEF Lookup
<1>2. CASE AcquireOrg(w, ch) \/ AcquireTrunk(w, ch)
  <2>1. \/ Goto(w, ch, "acquireTrunk") \/ Goto(w, ch, "create") \/ UndoBy(w, ch, <<"hangup">>)
        \/ UndoBy(w, ch, <<"orgByChannel", "hangup">>)
    BY <1>2 DEF AcquireOrg, AcquireTrunk
  <2> QED
    BY <1>0, <2>1, GotoProgress, HangupProgress DEF AdmPc, CallPc
<1>3. CASE CreateInbound(w, ch)
  <2>1. ASSUME NEW c \in Calls, row[c].state = "none",
               row' = [row EXCEPT ![c] = [NoRow EXCEPT !.state = "ringing", !.sip = ch]],
               adm' = [adm EXCEPT ![w][ch] = [@ EXCEPT !.pc = "attribute", !.call = c, !.new = TRUE]]
        PROVE  Progressed(w, ch)
    <3>1. [a EXCEPT !.pc = "attribute", !.call = c, !.new = TRUE] =
            [pc |-> "attribute", call |-> c, new |-> TRUE, undo |-> a.undo]
      <4> HIDE DEF a
      <4> QED
        BY <1>0, AdmCallSet
    <3>2. Moved(w, ch, "attribute", c, TRUE, a.undo)
      <4>1. a.undo \in Seq(Undo) /\ "attribute" \in AdmPc
        BY <1>0 DEF Adm, AdmPc
      <4>2. adm' = [adm EXCEPT ![w] = [adm[w] EXCEPT ![ch] =
               [pc |-> "attribute", call |-> c, new |-> TRUE, undo |-> a.undo]]]
        BY <2>1, <3>1
      <4> QED
        BY <1>0, <4>1, <4>2, AdmWrite
    <3>3. row'[c].state = "ringing" /\ row'[c].sip = ch
      BY <1>0, <2>1 DEF CoreTypeOK, NoRow
    <3> QED
      BY <1>3, <3>2, <3>3 DEF Moved, Progressed, AdmOK
  <2>2. ASSUME NEW c \in Existing(ch), NEW s \in {"hangup", "reuse"},
               adm' = [adm EXCEPT ![w][ch] = [@ EXCEPT !.pc = "undo", !.call = c,
                         !.undo = <<"trunkByChannel", "orgByChannel", s>>]]
        PROVE  Progressed(w, ch)
    <3> DEFINE ops == <<"trunkByChannel", "orgByChannel", s>>
    <3>0. EndsOnce(ops)
      BY ListsEndOnce
    <3> HIDE DEF ops
    <3>1. [a EXCEPT !.pc = "undo", !.call = c, !.undo = ops] =
            [pc |-> "undo", call |-> c, new |-> a.new, undo |-> ops]
      <4> DEFINE d == [pc |-> "undo", call |-> c, new |-> a.new, undo |-> a.undo]
      <4>1. [d EXCEPT !.undo = ops] = [pc |-> "undo", call |-> c, new |-> a.new, undo |-> ops]
        OBVIOUS
      <4>2. [a EXCEPT !.pc = "undo", !.call = c] = d
        BY <1>0, AdmCallSet
      <4> HIDE DEF d, a
      <4>3. [a EXCEPT !.pc = "undo", !.call = c, !.undo = ops] =
               [[a EXCEPT !.pc = "undo", !.call = c] EXCEPT !.undo = ops]
        OBVIOUS
      <4> QED
        BY <4>1, <4>2, <4>3
    <3>2. Moved(w, ch, "undo", c, a.new, ops)
      <4>1. a.new \in BOOLEAN /\ ops \in Seq(Undo) /\ "undo" \in AdmPc /\ c \in Calls \cup {NoCall}
        BY <1>0, <1>a, <2>2, <3>0 DEF Adm, AdmPc, EndsOnce
      <4>2. adm' = [adm EXCEPT ![w] = [adm[w] EXCEPT ![ch] =
               [pc |-> "undo", call |-> c, new |-> a.new, undo |-> ops]]]
        BY <2>2, <3>1 DEF ops
      <4> QED
        BY <1>0, <4>1, <4>2, AdmWrite
    <3>3. /\ adm'[w][ch] \in Adm /\ adm'[w][ch].pc = "undo" /\ adm'[w][ch].call = c
          /\ adm'[w][ch].undo = ops /\ c \in Calls
      BY <1>a, <3>2, <2>2 DEF Moved
    <3>4. AdmOK(adm'[w][ch])
      BY <3>0, <3>3 DEF AdmOK, CallPc
    <3> QED
      BY <2>2, <3>2, <3>3, <3>4 DEF Moved, Progressed
  <2> QED
    BY <1>3, <2>1, <2>2 DEF CreateInbound
<1>4. CASE \/ Attribute(w, ch) \/ Reuse(w, ch) \/ RefreshOrg(w, ch) \/ RefreshTrunk(w, ch)
           \/ Bind(w, ch)
  <2>1. a.pc \in CallPc /\ \E pc \in CallPc : Goto(w, ch, pc)
    BY <1>4 DEF Attribute, Reuse, RefreshOrg, RefreshTrunk, Bind, At, CallPc
  <2>2. CallPc \subseteq AdmPc \ {"undo"}
    BY DEF CallPc, AdmPc
  <2> QED
    BY <1>0, <2>1, <2>2, GotoProgress
<1>5. CASE BindOrg(w, ch) \/ BindTrunk(w, ch)
  <2>1. a.pc \in CallPc /\ \/ Goto(w, ch, "bindTrunk") \/ Goto(w, ch, "bind")
                           \/ UndoBy(w, ch, AfterBindOrgError) \/ UndoBy(w, ch, AfterBindTrunkError)
    BY <1>5 DEF BindOrg, BindTrunk, At, CallPc
  <2> QED
    BY <1>0, <2>1, GotoProgress, CallUndoProgress DEF AdmPc
<1>6. CASE SetCallID(w, ch)
  <2>1. a.pc \in CallPc /\ \/ Goto(w, ch, "admitted") \/ UndoBy(w, ch, AfterChannelError)
                           \/ UndoBy(w, ch, <<"hangup">>)
    BY <1>6 DEF SetCallID, UndoBinding, At, CallPc
  <2> QED
    BY <1>0, <2>1, GotoProgress, HangupProgress, CallUndoProgress DEF AdmPc, CallPc
<1>7. CASE At(w, ch, "undo") /\ Compensated(w, ch)
  <2>1. Moved(w, ch, AfterUndo(Head(a.undo)), a.call, a.new, Tail(a.undo))
    BY <1>0, <1>7, CompensatedMoves
  <2>2. EndsOnce(a.undo) /\ \A i \in 1..Len(a.undo) :
           a.undo[i] \in {"markFailed", "reuse"} => a.call \in Calls
    BY <1>7 DEF TypeInv, AdmInv, AdmOK, At
  <2>3. Head(a.undo) = "reuse" => a.call \in Calls
    <3>1. 1 \in 1..Len(a.undo)
      BY <2>2 DEF EndsOnce
    <3> QED
      BY <2>2, <3>1, UndoHead
  <2>4. \A i \in 1..Len(Tail(a.undo)) :
           Tail(a.undo)[i] \in {"markFailed", "reuse"} => a.call \in Calls
    BY <2>2, UndoHead
  <2>5. Head(a.undo) \notin {"hangup", "reuse"} => EndsOnce(Tail(a.undo))
    BY <2>2, UndoHead
  <2> QED
    BY <2>1, <2>3, <2>4, <2>5 DEF Moved, Progressed, AdmOK, AfterUndo, CallPc
<1>8. CASE AdmitFault(w, ch)
  <2>1. UndoBy(w, ch, OnError(a.pc, a.new)) /\ a.pc \in AdmPc \ {"none", "undo", "admitted", "rejected"}
    BY <1>0, <1>8 DEF AdmitFault, Adm
  <2>2. \/ UndoBy(w, ch, <<"hangup">>) \/ UndoBy(w, ch, <<"orgByChannel", "hangup">>)
        \/ UndoBy(w, ch, <<"trunkByChannel", "orgByChannel", "hangup">>)
        \/ /\ a.pc \in CallPc
           /\ \/ UndoBy(w, ch, AfterBindOrgError) \/ UndoBy(w, ch, AfterBindTrunkError)
              \/ UndoBy(w, ch, AfterChannelError)
    BY <2>1 DEF OnError, AdmPc, CallPc
  <2> QED
    BY <1>0, <2>2, HangupProgress, CallUndoProgress
<1> QED
  BY <1>1, <1>2, <1>3, <1>4, <1>5, <1>6, <1>7, <1>8 DEF AdmitStep, AdmitFailure, UndoStep, UndoFault

(***************************************************************************)
(* Types                                                                   *)
(***************************************************************************)
\* Setting a field of a row keeps the table well formed and every other field.
LEMMA TrunkSet ==
    ASSUME CoreTypeOK, NEW c \in Calls, row' = [row EXCEPT ![c].trunk = TRUE]
    PROVE  /\ row' \in [Calls -> Row]
           /\ \A d \in Calls : /\ d # c => row'[d] = row[d]
                               /\ row'[d].state = row[d].state /\ row'[d].media = row[d].media
                               /\ row'[d].sip = row[d].sip /\ row'[d].outbound = row[d].outbound
                               /\ row[d].trunk => row'[d].trunk
           /\ row'[c].trunk
<1>1. row \in [Calls -> Row] /\ row[c] \in Row
  BY DEF CoreTypeOK
<1>2. /\ row' = [row EXCEPT ![c] = [row[c] EXCEPT !.trunk = TRUE]]
      /\ [row[c] EXCEPT !.trunk = TRUE] \in Row
      /\ [row[c] EXCEPT !.trunk = TRUE].trunk
      /\ [row[c] EXCEPT !.trunk = TRUE].state = row[c].state
      /\ [row[c] EXCEPT !.trunk = TRUE].media = row[c].media
      /\ [row[c] EXCEPT !.trunk = TRUE].sip = row[c].sip
      /\ [row[c] EXCEPT !.trunk = TRUE].outbound = row[c].outbound
  BY <1>1 DEF Row
<1> QED
  BY <1>1, <1>2

\* The new row of an inbound call.
LEMMA NewRow ==
    ASSUME NEW ch \in Channels
    PROVE  LET r == [NoRow EXCEPT !.state = "ringing", !.sip = ch]
           IN  /\ r \in Row /\ r.state = "ringing" /\ r.media = "active" /\ r.sip = ch
               /\ ~r.trunk /\ ~r.outbound
BY DEF NoRow, Row, CallState, LiveState, MediaState

\* A compensation writes the tables by marking the call failed only.
LEMMA UndoWrites ==
    ASSUME TypeInv, NEW w \in Workers, NEW ch \in Channels, UndoStep(w, ch)
    PROVE  \/ UNCHANGED <<row, attempt, marker, outbox>>
           \/ adm[w][ch].call \in Calls /\ mutate(adm[w][ch].call, "failed")
<1> DEFINE s == Head(adm[w][ch].undo)
<1>0. EndsOnce(adm[w][ch].undo) /\ 1 \in 1..Len(adm[w][ch].undo)
  BY DEF UndoStep, TypeInv, AdmInv, At, AdmOK, EndsOnce
<1>1. s = "markFailed" => adm[w][ch].call \in Calls
  BY <1>0, UndoHead DEF UndoStep, TypeInv, AdmInv, At, AdmOK
<1>2. Compensate(s, adm[w][ch].call, ch)
  BY DEF UndoStep
<1> HIDE DEF s
<1>3. IF s = "markFailed" /\ CanMark(row[adm[w][ch].call], "failed")
      THEN mutate(adm[w][ch].call, "failed") ELSE UNCHANGED dbVars
  BY <1>2, Zenon DEF Compensate
<1> QED
  BY <1>1, <1>3 DEF dbVars

\* What an admission's steps do to the rows: a row that exists stays.
LEMMA AdmitRows ==
    ASSUME TypeInv, NEW w \in Workers, NEW ch \in Channels, AdmitStep(w, ch) \/ AdmitFailure(w, ch)
    PROVE  \/ row' = row
           \/ /\ CreateInbound(w, ch) /\ Existing(ch) = {}
              /\ \E c \in Calls : row[c].state = "none" /\
                    row' = [row EXCEPT ![c] = [NoRow EXCEPT !.state = "ringing", !.sip = ch]]
           \/ /\ Attribute(w, ch) \/ Reuse(w, ch)
              /\ adm[w][ch].call \in Calls /\ row' = [row EXCEPT ![adm[w][ch].call].trunk = TRUE]
           \/ UndoStep(w, ch) /\ adm[w][ch].call \in Calls /\ mutate(adm[w][ch].call, "failed")
<1>0. AdmOK(adm[w][ch])
  BY DEF TypeInv, AdmInv
<1>1. CASE Attribute(w, ch) \/ Reuse(w, ch)
  BY <1>0, <1>1 DEF Attribute, Reuse, At, AdmOK, CallPc
<1>2. CASE UndoStep(w, ch)
  BY <1>2, UndoWrites
<1>3. CASE CreateInbound(w, ch)
  BY <1>3 DEF CreateInbound
<1>4. CASE \/ Lookup(w, ch) \/ AcquireOrg(w, ch) \/ AcquireTrunk(w, ch) \/ BindOrg(w, ch)
           \/ BindTrunk(w, ch) \/ RefreshOrg(w, ch) \/ RefreshTrunk(w, ch) \/ Bind(w, ch)
           \/ SetCallID(w, ch) \/ AdmitFailure(w, ch)
  BY <1>4 DEF Lookup, AcquireOrg, AcquireTrunk, BindOrg, BindTrunk, RefreshOrg, RefreshTrunk, Bind,
     SetCallID, AdmitFailure, AdmitFault, UndoFault, dbVars
<1> QED
  BY <1>1, <1>2, <1>3, <1>4 DEF AdmitStep

\* Rows stay rows.
LEMMA AdmitKeepsRows ==
    ASSUME TypeInv, NEW w \in Workers, NEW ch \in Channels, AdmitStep(w, ch) \/ AdmitFailure(w, ch),
           NEW c \in Calls
    PROVE  /\ row[c].state # "none" => row'[c].state # "none"
           /\ row'[c].state = "none" => row'[c] = row[c]
<1>0. CoreTypeOK /\ row \in [Calls -> Row] /\ RowInv
  BY DEF TypeInv, CoreInv, CoreTypeOK
<1>1. CASE \E d \in Calls : row[d].state = "none" /\
              row' = [row EXCEPT ![d] = [NoRow EXCEPT !.state = "ringing", !.sip = ch]]
  BY <1>0, <1>1, NewRow
<1>2. CASE /\ adm[w][ch].call \in Calls /\ row' = [row EXCEPT ![adm[w][ch].call].trunk = TRUE]
  <2>1. row'[c].state = row[c].state /\ (c # adm[w][ch].call => row'[c] = row[c])
    BY <1>0, <1>2, TrunkSet
  <2>2. row[adm[w][ch].call].state # "none"
    BY <1>0, <1>2 DEF RowInv
  <2> QED
    BY <2>1, <2>2
<1>3. CASE adm[w][ch].call \in Calls /\ mutate(adm[w][ch].call, "failed")
  <2>1. "failed" \in LifecycleEvent /\ "failed" \in TerminalEvent
    BY DEF LifecycleEvent, TerminalEvent
  <2>2. /\ c # adm[w][ch].call => row'[c] = row[c]
        /\ c = adm[w][ch].call => Over(c)'
    BY <1>0, <1>3, <2>1, MutateOver
  <2> QED
    BY <2>2 DEF Over, isTerminalState, TerminalState
<1> QED
  BY <1>1, <1>2, <1>3, AdmitRows

\* The bindings an admission writes.
LEMMA AdmitBindings ==
    ASSUME TypeInv, NEW w \in Workers, NEW ch \in Channels, AdmitStep(w, ch) \/ AdmitFailure(w, ch)
    PROVE  \/ UNCHANGED <<binding, owner>>
           \/ Bind(w, ch) /\ adm[w][ch].call \in Calls /\ ChannelBind(adm[w][ch].call, ch)
           \/ /\ At(w, ch, "setCallID") /\ adm'[w][ch].pc = "undo" /\ adm[w][ch].call \in Calls
              /\ ChannelDelete(adm[w][ch].call)
<1>0. AdmOK(adm[w][ch]) /\ AdmInv
  BY DEF TypeInv, AdmInv
<1>1. CASE Bind(w, ch)
  BY <1>0, <1>1 DEF Bind, At, AdmOK, CallPc
<1>2. CASE SetCallID(w, ch) \/ AdmitFault(w, ch)
  <2>1. \/ UNCHANGED <<binding, owner>>
        \/ /\ At(w, ch, "setCallID") /\ ChannelDelete(adm[w][ch].call)
           /\ \E u \in {AfterChannelError, <<"hangup">>} : UndoBy(w, ch, u)
    BY <1>2 DEF SetCallID, AdmitFault, UndoBinding, OnError, At
  <2>2. ASSUME NEW u \in {AfterChannelError, <<"hangup">>}, UndoBy(w, ch, u) PROVE adm'[w][ch].pc = "undo"
    <3>1. Moved(w, ch, "undo", adm[w][ch].call, adm[w][ch].new, u)
      BY SMTT(30), <1>0, <2>2, ListsEndOnce, UndoMoves DEF EndsOnce
    <3> QED
      BY <3>1 DEF Moved
  <2>3. At(w, ch, "setCallID") => adm[w][ch].call \in Calls
    BY <1>0 DEF At, AdmOK, CallPc
  <2> QED
    BY <2>1, <2>2, <2>3
<1>3. CASE \/ Lookup(w, ch) \/ AcquireOrg(w, ch) \/ AcquireTrunk(w, ch) \/ CreateInbound(w, ch)
           \/ Attribute(w, ch) \/ Reuse(w, ch) \/ BindOrg(w, ch) \/ BindTrunk(w, ch)
           \/ RefreshOrg(w, ch) \/ RefreshTrunk(w, ch) \/ UndoStep(w, ch) \/ UndoFault(w, ch)
  BY <1>3 DEF Lookup, AcquireOrg, AcquireTrunk, CreateInbound, Attribute, Reuse, BindOrg, BindTrunk,
     RefreshOrg, RefreshTrunk, UndoStep, UndoFault, redisVars
<1> QED
  BY <1>1, <1>2, <1>3 DEF AdmitStep, AdmitFailure

\* What an admission's steps do to the leases.
LEMMA AdmitLeases ==
    ASSUME TypeInv, NEW w \in Workers, NEW ch \in Channels, AdmitStep(w, ch) \/ AdmitFailure(w, ch)
    PROVE  LET c == adm[w][ch].call IN
           /\ \/ orgLease' = orgLease
              \/ /\ At(w, ch, "acquireOrg") /\ CanAcquire(orgLease, ch, OrgLimit)
                 /\ orgLease' = orgLease \cup {ch}
              \/ /\ At(w, ch, "bindOrg") /\ c \in Calls /\ ch \in orgLease
                 /\ orgLease' = (orgLease \ {ch}) \cup {c} /\ Goto(w, ch, "bindTrunk")
              \/ At(w, ch, "refreshOrg") /\ c \in Calls /\ orgLease' = orgLease \cup {c}
              \/ At(w, ch, "undo") /\ orgLease' \in {orgLease \ {ch}, orgLease \ {c}}
           /\ \/ trunkLease' = trunkLease
              \/ /\ At(w, ch, "acquireTrunk") /\ CanAcquire(trunkLease, ch, TrunkLimit)
                 /\ trunkLease' = trunkLease \cup {ch}
              \/ /\ At(w, ch, "bindTrunk") /\ c \in Calls /\ ch \in trunkLease
                 /\ trunkLease' = (trunkLease \ {ch}) \cup {c} /\ Goto(w, ch, "bind")
              \/ At(w, ch, "refreshTrunk") /\ c \in Calls /\ trunkLease' = trunkLease \cup {c}
              \/ At(w, ch, "undo") /\ trunkLease' \in {trunkLease \ {ch}, trunkLease \ {c}}
<1> DEFINE c == adm[w][ch].call
<1>0. adm[w][ch].pc \in CallPc => c \in Calls
  BY DEF TypeInv, AdmInv, AdmOK
<1> HIDE DEF c
<1>1. CASE \/ Lookup(w, ch) \/ CreateInbound(w, ch) \/ Attribute(w, ch) \/ Reuse(w, ch)
           \/ Bind(w, ch) \/ SetCallID(w, ch) \/ UndoFault(w, ch)
  <2>1. UNCHANGED <<orgLease, trunkLease>>
    BY <1>1 DEF Lookup, CreateInbound, Attribute, Reuse, Bind, SetCallID, UndoFault, redisVars
  <2> QED
    BY <2>1
<1>2. CASE AcquireOrg(w, ch) \/ AcquireTrunk(w, ch) \/ AdmitFault(w, ch)
  BY <1>2 DEF AcquireOrg, AcquireTrunk, AdmitFault, Acquired
<1>3. CASE BindOrg(w, ch) \/ BindTrunk(w, ch)
  BY <1>0, <1>3 DEF BindOrg, BindTrunk, At, CallPc, CanBindLease, BoundLease, c
<1>4. CASE RefreshOrg(w, ch) \/ RefreshTrunk(w, ch)
  BY <1>0, <1>4 DEF RefreshOrg, RefreshTrunk, At, CallPc, Refreshed, c
<1>5. CASE UndoStep(w, ch)
  <2> DEFINE s == Head(adm[w][ch].undo)
  <2>1. At(w, ch, "undo") /\ Compensate(s, c, ch)
    BY <1>5 DEF UndoStep, c
  <2> HIDE DEF s
  <2>2. orgLease' \in {orgLease, orgLease \ {ch}, orgLease \ {c}}
    BY <2>1 DEF Compensate, Released
  <2>3. trunkLease' \in {trunkLease, trunkLease \ {ch}, trunkLease \ {c}}
    BY <2>1 DEF Compensate, Released
  <2> QED
    BY <2>1, <2>2, <2>3 DEF c
<1> QED
  BY <1>1, <1>2, <1>3, <1>4, <1>5 DEF AdmitStep, AdmitFailure

\* What an admission's steps do to the channels: they set the call id of a
\* live channel or hang it up.
LEMMA AdmitChannels ==
    ASSUME TypeInv, NEW w \in Workers, NEW ch \in Channels, AdmitStep(w, ch) \/ AdmitFailure(w, ch)
    PROVE  /\ UNCHANGED <<lc, job>>
           /\ \/ fs' = fs /\ evq' = evq
              \/ /\ SetCallID(w, ch) /\ adm[w][ch].call \in Calls /\ fs[ch].st \in FsLive /\ evq' = evq
                 /\ fs' = [fs EXCEPT ![ch].cid = adm[w][ch].call] /\ Goto(w, ch, "admitted")
              \/ /\ UndoStep(w, ch) /\ fs[ch].st \in FsLive
                 /\ \E e \in TerminalEvent : Emit(ch, "gone", e)
<1>1. CASE UndoStep(w, ch)
  <2> DEFINE s == Head(adm[w][ch].undo)
  <2>1. Compensate(s, adm[w][ch].call, ch) /\ UNCHANGED <<lc, job>>
    BY <1>1 DEF UndoStep
  <2> HIDE DEF s
  <2>2. IF s = "hangup" /\ fs[ch].st \in FsLive
        THEN \E e \in HangupEvents(ch) : Emit(ch, "gone", e)
        ELSE UNCHANGED fsVars
    BY <2>1, Zenon DEF Compensate
  <2>3. HangupEvents(ch) \subseteq TerminalEvent
    BY DEF HangupEvents, TerminalEvent
  <2> QED
    BY <1>1, <2>1, <2>2, <2>3 DEF fsVars
<1>2. CASE SetCallID(w, ch)
  <2>1. adm[w][ch].call \in Calls
    BY <1>2 DEF SetCallID, TypeInv, AdmInv, AdmOK, At, CallPc
  <2> QED
    BY <1>2, <2>1 DEF SetCallID
<1>3. CASE \/ Lookup(w, ch) \/ AcquireOrg(w, ch) \/ AcquireTrunk(w, ch) \/ CreateInbound(w, ch)
           \/ Attribute(w, ch) \/ Reuse(w, ch) \/ BindOrg(w, ch) \/ BindTrunk(w, ch)
           \/ RefreshOrg(w, ch) \/ RefreshTrunk(w, ch) \/ Bind(w, ch) \/ AdmitFailure(w, ch)
  BY <1>3 DEF Lookup, AcquireOrg, AcquireTrunk, CreateInbound, Attribute, Reuse, BindOrg, BindTrunk,
     RefreshOrg, RefreshTrunk, Bind, AdmitFailure, AdmitFault, UndoFault, fsVars
<1> QED
  BY <1>1, <1>2, <1>3 DEF AdmitStep

\* The attempts and the markers change with a row that fails only.
LEMMA AdmitTables ==
    ASSUME TypeInv, NEW w \in Workers, NEW ch \in Channels, AdmitStep(w, ch) \/ AdmitFailure(w, ch)
    PROVE  \/ UNCHANGED <<attempt, marker>>
           \/ UndoStep(w, ch) /\ adm[w][ch].call \in Calls /\ mutate(adm[w][ch].call, "failed")
<1>1. CASE UndoStep(w, ch)
  BY <1>1, UndoWrites
<1>2. CASE \/ Lookup(w, ch) \/ AcquireOrg(w, ch) \/ AcquireTrunk(w, ch) \/ CreateInbound(w, ch)
           \/ Attribute(w, ch) \/ Reuse(w, ch) \/ BindOrg(w, ch) \/ BindTrunk(w, ch)
           \/ RefreshOrg(w, ch) \/ RefreshTrunk(w, ch) \/ Bind(w, ch) \/ SetCallID(w, ch)
           \/ AdmitFailure(w, ch)
  BY <1>2 DEF Lookup, AcquireOrg, AcquireTrunk, CreateInbound, Attribute, Reuse, BindOrg, BindTrunk,
     RefreshOrg, RefreshTrunk, Bind, SetCallID, AdmitFailure, AdmitFault, UndoFault, dbVars
<1> QED
  BY <1>1, <1>2 DEF AdmitStep

\* The outbox changes with the row that is created or fails only.
LEMMA AdmitOutbox ==
    ASSUME TypeInv, NEW w \in Workers, NEW ch \in Channels, AdmitStep(w, ch) \/ AdmitFailure(w, ch)
    PROVE  \/ outbox' = outbox
           \/ /\ CreateInbound(w, ch) /\ Existing(ch) = {}
              /\ \E d \in Calls : /\ row[d].state = "none" /\ outbox' = [outbox EXCEPT ![d] = <<"ringing">>]
                                  /\ row' = [row EXCEPT ![d] = [NoRow EXCEPT !.state = "ringing", !.sip = ch]]
           \/ UndoStep(w, ch) /\ adm[w][ch].call \in Calls /\ mutate(adm[w][ch].call, "failed")
<1>1. CASE UndoStep(w, ch)
  BY <1>1, UndoWrites
<1>2. CASE CreateInbound(w, ch)
  BY <1>2 DEF CreateInbound
<1>3. CASE \/ Lookup(w, ch) \/ AcquireOrg(w, ch) \/ AcquireTrunk(w, ch)
           \/ Attribute(w, ch) \/ Reuse(w, ch) \/ BindOrg(w, ch) \/ BindTrunk(w, ch)
           \/ RefreshOrg(w, ch) \/ RefreshTrunk(w, ch) \/ Bind(w, ch) \/ SetCallID(w, ch)
           \/ AdmitFailure(w, ch)
  BY <1>3 DEF Lookup, AcquireOrg, AcquireTrunk, Attribute, Reuse, BindOrg, BindTrunk,
     RefreshOrg, RefreshTrunk, Bind, SetCallID, AdmitFailure, AdmitFault, UndoFault, dbVars
<1> QED
  BY <1>1, <1>2, <1>3 DEF AdmitStep


\* An admission keeps the tables, keys and channels well formed.
LEMMA AdmitCoreInv ==
    ASSUME TypeInv, NEW w \in Workers, NEW ch \in Channels, AdmitStep(w, ch) \/ AdmitFailure(w, ch)
    PROVE  CoreInv'
<1> DEFINE c == adm[w][ch].call
<1>0. CoreInv /\ CoreTypeOK /\ c \in Calls \cup {NoCall}
  BY DEF TypeInv, CoreInv, AdmInv, Adm
<1>1. /\ row' \in [Calls -> Row] /\ attempt' \in [Channels -> Attempt]
      /\ marker' \in SUBSET Calls /\ outbox' \in [Calls -> Seq(LifecycleEvent)]
  <2>1. CASE UndoStep(w, ch) /\ c \in Calls /\ mutate(c, "failed")
    BY <1>0, <2>1, MutateType DEF LifecycleEvent, TerminalEvent
  <2>2. CASE UNCHANGED <<attempt, marker>>
    <3>1. row' \in [Calls -> Row]
      <4>1. CASE \E d \in Calls : row' = [row EXCEPT ![d] = [NoRow EXCEPT !.state = "ringing", !.sip = ch]]
        BY ZenonT(40), <1>0, <4>1, NewRow DEF CoreTypeOK
      <4>2. CASE c \in Calls /\ row' = [row EXCEPT ![c].trunk = TRUE]
        BY <1>0, <4>2, TrunkSet
      <4>3. CASE UndoStep(w, ch) /\ c \in Calls /\ mutate(c, "failed")
        BY <1>0, <4>3, MutateType DEF LifecycleEvent, TerminalEvent
      <4> QED
        BY <1>0, <4>1, <4>2, <4>3, AdmitRows DEF CoreTypeOK
    <3>2. outbox' \in [Calls -> Seq(LifecycleEvent)]
      <4>1. CASE \E d \in Calls : outbox' = [outbox EXCEPT ![d] = <<"ringing">>]
        <5>1. <<"ringing">> \in Seq(LifecycleEvent)
          BY DEF LifecycleEvent
        <5> QED
          BY <1>0, <4>1, <5>1 DEF CoreTypeOK
      <4>2. CASE UndoStep(w, ch) /\ c \in Calls /\ mutate(c, "failed")
        BY <1>0, <4>2, MutateType DEF LifecycleEvent, TerminalEvent
      <4>3. CASE outbox' = outbox
        BY <1>0, <4>3 DEF CoreTypeOK
      <4> QED
        BY <4>1, <4>2, <4>3, AdmitOutbox
    <3> QED
      BY <1>0, <2>2, <3>1, <3>2 DEF CoreTypeOK
  <2> QED
    BY <2>1, <2>2, AdmitTables
<1>2. orgLease' \in SUBSET (Calls \cup Channels) /\ trunkLease' \in SUBSET (Calls \cup Channels)
  <2>1. orgLease \in SUBSET (Calls \cup Channels) /\ trunkLease \in SUBSET (Calls \cup Channels)
    BY <1>0 DEF CoreTypeOK
  <2>2. \/ orgLease' \in {orgLease, orgLease \cup {ch}, orgLease \ {ch}, orgLease \ {c}}
        \/ c \in Calls /\ orgLease' \in {(orgLease \ {ch}) \cup {c}, orgLease \cup {c}}
    BY AdmitLeases
  <2>3. \/ trunkLease' \in {trunkLease, trunkLease \cup {ch}, trunkLease \ {ch}, trunkLease \ {c}}
        \/ c \in Calls /\ trunkLease' \in {(trunkLease \ {ch}) \cup {c}, trunkLease \cup {c}}
    BY AdmitLeases
  <2> HIDE DEF c
  <2>4. orgLease' \in SUBSET (Calls \cup Channels)
    BY <2>1, <2>2
  <2>5. trunkLease' \in SUBSET (Calls \cup Channels)
    BY <2>1, <2>3
  <2> QED
    BY <2>4, <2>5
<1>3. /\ binding' \in [Calls -> Channels \cup {NoChannel}]
      /\ owner' \in [Channels -> Calls \cup {NoCall}]
  BY <1>0, AdmitBindings, BindType, DeleteType DEF CoreTypeOK
<1>4. /\ fs' \in [Channels -> [st: FsState, cid: Calls \cup {NoCall}]]
      /\ evq' \in [Channels -> Seq(LifecycleEvent)]
  <2>1. CASE UNCHANGED <<fs, evq>>
    BY <1>0, <2>1 DEF CoreTypeOK
  <2>2. CASE evq' = evq /\ c \in Calls /\ fs' = [fs EXCEPT ![ch].cid = c]
    <3>1. /\ fs[ch] \in [st: FsState, cid: Calls \cup {NoCall}]
          /\ fs \in [Channels -> [st: FsState, cid: Calls \cup {NoCall}]]
      BY <1>0 DEF CoreTypeOK
    <3>2. [fs[ch] EXCEPT !.cid = c] \in [st: FsState, cid: Calls \cup {NoCall}]
      BY <2>2, <3>1
    <3>3. fs' = [fs EXCEPT ![ch] = [fs[ch] EXCEPT !.cid = c]]
      BY <2>2
    <3> QED
      BY <1>0, <2>2, <3>1, <3>2, <3>3 DEF CoreTypeOK
  <2>3. CASE \E e \in TerminalEvent : Emit(ch, "gone", e)
    BY <1>0, <2>3, EmitType DEF FsState, LifecycleEvent
  <2> QED
    BY <2>1, <2>2, <2>3, AdmitChannels
<1>5. lc' = lc /\ job' = job
  BY AdmitChannels
<1>6. faults' \in Nat
  <2>1. UNCHANGED faults \/ Fault
    BY DEF AdmitStep, AdmitFailure, Lookup, AcquireOrg, AcquireTrunk, CreateInbound, Attribute, Reuse,
       BindOrg, BindTrunk, RefreshOrg, RefreshTrunk, Bind, SetCallID, UndoStep, AdmitFault, UndoFault
  <2> QED
    BY <1>0, <2>1 DEF CoreTypeOK, Fault
<1> QED
  BY <1>0, <1>1, <1>2, <1>3, <1>4, <1>5, <1>6 DEF CoreInv, CoreTypeOK, LcHasCall, JobHasCall

\* A step of an admission keeps the type invariant.
LEMMA AdmitType ==
    ASSUME TypeInv, NEW w \in Workers, NEW ch \in Channels, AdmitStep(w, ch) \/ AdmitFailure(w, ch)
    PROVE  TypeInv'
<1>0. Progressed(w, ch) /\ AdmInv /\ RowInv
  BY AdmitProgress DEF TypeInv
<1>1. AdmInv'
  BY <1>0 DEF Progressed, AdmInv
<1>2. \A c \in Calls : /\ row[c].state # "none" => row'[c].state # "none"
                       /\ row'[c].state = "none" => row'[c] = row[c]
  BY AdmitKeepsRows
<1>3. \A c \in Calls : row'[c].state = "none" => row'[c] = NoRow
  BY <1>0, <1>2 DEF RowInv
<1>4. ASSUME NEW v \in Workers, NEW x \in Channels, adm'[v][x].call \in Calls
      PROVE  row'[adm'[v][x].call].state # "none"
  <2>1. CASE v # w \/ x # ch
    BY <1>0, <1>2, <1>4, <2>1 DEF Progressed, RowInv
  <2>2. CASE v = w /\ x = ch
    <3>1. CASE adm'[w][ch].call = adm[w][ch].call
      BY <1>0, <1>2, <1>4, <2>2, <3>1 DEF RowInv
    <3>2. CASE adm'[w][ch].call \in Existing(ch)
      BY <1>2, <2>2, <3>2 DEF Existing
    <3> QED
      BY <1>0, <2>2, <3>1, <3>2 DEF Progressed
  <2> QED
    BY <2>1, <2>2
<1>5. RowInv'
  BY <1>3, <1>4 DEF RowInv
<1> QED
  BY <1>1, <1>5, AdmitCoreInv DEF TypeInv

\* A worker that dies drops its unfinished admissions.
LEMMA CrashAdm ==
    ASSUME AdmInv, NEW w \in Workers, WorkerCrash(w)
    PROVE  /\ adm' \in [Workers -> [Channels -> Adm]]
           /\ \A v \in Workers, x \in Channels :
                 \/ adm'[v][x] = adm[v][x]
                 \/ /\ v = w /\ ~Finished(w, x) /\ adm'[v][x] \in Adm
                    /\ adm'[v][x].pc = "rejected" /\ adm'[v][x].undo = << >>
                    /\ adm'[v][x].call = adm[v][x].call
<1> DEFINE drop(x) == [pc |-> "rejected", call |-> adm[w][x].call, new |-> adm[w][x].new, undo |-> << >>]
           after == [x \in Channels |-> IF Finished(w, x) THEN adm[w][x] ELSE drop(x)]
<1>1. \A x \in Channels : adm[w][x] \in Adm
  BY DEF AdmInv
<1>2. \A x \in Channels : [adm[w][x] EXCEPT !.pc = "rejected", !.undo = << >>] = drop(x)
  BY <1>1, AdmSet
<1>3. \A x \in Channels : drop(x) \in Adm
  <2>1. "rejected" \in AdmPc /\ << >> \in Seq(Undo)
    BY DEF AdmPc
  <2>2. \A x \in Channels : adm[w][x].call \in Calls \cup {NoCall} /\ adm[w][x].new \in BOOLEAN
    BY <1>1 DEF Adm
  <2> QED
    BY <2>1, <2>2 DEF Adm
<1>3a. \A x \in Channels :
          drop(x).pc = "rejected" /\ drop(x).undo = << >> /\ drop(x).call = adm[w][x].call
  OBVIOUS
<1> HIDE DEF drop
<1>4. adm' = [adm EXCEPT ![w] = after]
  <2>1. adm' = [adm EXCEPT ![w] = [x \in Channels |-> IF Finished(w, x) THEN adm[w][x]
                  ELSE [adm[w][x] EXCEPT !.pc = "rejected", !.undo = << >>]]]
    BY DEF WorkerCrash, AdmInv
  <2>2. [x \in Channels |-> IF Finished(w, x) THEN adm[w][x]
           ELSE [adm[w][x] EXCEPT !.pc = "rejected", !.undo = << >>]] = after
    BY <1>2
  <2> QED
    BY <2>1, <2>2
<1>5. after \in [Channels -> Adm]
  BY <1>1, <1>3
<1>6. \A v \in Workers, x \in Channels : adm'[v][x] = IF v = w THEN after[x] ELSE adm[v][x]
  BY <1>4 DEF AdmInv
<1>7. adm' \in [Workers -> [Channels -> Adm]]
  BY <1>4, <1>5 DEF AdmInv
<1>8. \A x \in Channels : after[x] = IF Finished(w, x) THEN adm[w][x] ELSE drop(x)
  OBVIOUS
<1> HIDE DEF after
<1>9. ASSUME NEW v \in Workers, NEW x \in Channels
      PROVE  adm'[v][x] = adm[v][x] \/ (v = w /\ ~Finished(w, x) /\ adm'[v][x] = drop(x))
  BY <1>6, <1>8
<1> QED
  BY <1>3, <1>3a, <1>7, <1>9

\* The runtime's part of such a step is a restart, or nothing but the failure.
LEMMA CrashRuntime ==
    ASSUME NEW w \in Workers, WorkerCrash(w)
    PROVE  WorkerRestart \/ (Fault /\ UNCHANGED <<dbVars, redisVars, fsVars, lc, job>>)
BY DEF WorkerCrash

\* A channel appears.
LEMMA ArriveAdm ==
    ASSUME TypeInv, NEW ch \in Channels, FsArrive(ch)
    PROVE  /\ CoreInv'
           /\ adm' \in [Workers -> [Channels -> Adm]]
           /\ \A v \in Workers, x \in Channels :
                 \/ adm'[v][x] = adm[v][x]
                 \/ /\ x = ch /\ adm[v][x].pc = "none" /\ adm'[v][x] \in Adm
                    /\ adm'[v][x].pc = "lookup" /\ adm'[v][x].call = adm[v][x].call
                    /\ adm'[v][x].undo = adm[v][x].undo
           /\ fs' = [fs EXCEPT ![ch] = [st |-> "created", cid |-> fs[ch].cid]]
<1>0. CoreInv /\ CoreTypeOK /\ adm \in [Workers -> [Channels -> Adm]]
  BY DEF TypeInv, CoreInv, AdmInv
<1>1. fs' = [fs EXCEPT ![ch] = [st |-> "created", cid |-> fs[ch].cid]]
  <2>1. fs[ch] \in [st: FsState, cid: Calls \cup {NoCall}]
    BY <1>0 DEF CoreTypeOK
  <2>2. [fs[ch] EXCEPT !.st = "created"] = [st |-> "created", cid |-> fs[ch].cid]
    BY <2>1
  <2> QED
    BY <2>2 DEF FsArrive
<1>2. CoreInv'
  <2>1. fs' \in [Channels -> [st: FsState, cid: Calls \cup {NoCall}]]
    <3>1. /\ fs[ch] \in [st: FsState, cid: Calls \cup {NoCall}]
          /\ fs \in [Channels -> [st: FsState, cid: Calls \cup {NoCall}]] /\ "created" \in FsState
      BY <1>0 DEF CoreTypeOK, FsState, FsLive
    <3> QED
      BY <1>1, <3>1
  <2> QED
    BY <1>0, <2>1 DEF FsArrive, CoreInv, CoreTypeOK, LcHasCall, JobHasCall, dbVars, redisVars
<1> DEFINE next(v) == [pc |-> IF adm[v][ch].pc = "none" THEN "lookup" ELSE adm[v][ch].pc,
                       call |-> adm[v][ch].call, new |-> adm[v][ch].new, undo |-> adm[v][ch].undo]
<1>3. \A v \in Workers : next(v) \in Adm
  <2>1. \A v \in Workers : /\ adm[v][ch].pc \in AdmPc /\ adm[v][ch].call \in Calls \cup {NoCall}
                           /\ adm[v][ch].new \in BOOLEAN /\ adm[v][ch].undo \in Seq(Undo)
    BY <1>0 DEF Adm
  <2>2. "lookup" \in AdmPc
    BY DEF AdmPc
  <2> QED
    BY <2>1, <2>2 DEF Adm
<1>4. \A v \in Workers :
         [adm[v] EXCEPT ![ch].pc = IF @ = "none" THEN "lookup" ELSE @] = [adm[v] EXCEPT ![ch] = next(v)]
  <2> SUFFICES ASSUME NEW v \in Workers
               PROVE  [adm[v] EXCEPT ![ch].pc = IF @ = "none" THEN "lookup" ELSE @] =
                         [adm[v] EXCEPT ![ch] = next(v)]
    OBVIOUS
  <2>1. adm[v][ch] \in Adm
    BY <1>0
  <2>2. \A pc : [adm[v][ch] EXCEPT !.pc = pc] =
                   [pc |-> pc, call |-> adm[v][ch].call, new |-> adm[v][ch].new, undo |-> adm[v][ch].undo]
    BY <2>1 DEF Adm
  <2> QED
    BY <2>2
<1>5. \A v \in Workers : adm[v][ch].pc # "none" => next(v) = adm[v][ch]
  BY <1>0 DEF Adm
<1>6. \A v \in Workers : adm[v][ch].pc = "none" =>
         next(v).pc = "lookup" /\ next(v).call = adm[v][ch].call /\ next(v).undo = adm[v][ch].undo
  OBVIOUS
<1> HIDE DEF next
<1>7. adm' = [v \in Workers |-> [adm[v] EXCEPT ![ch] = next(v)]]
  BY <1>4 DEF FsArrive
<1>8. adm' \in [Workers -> [Channels -> Adm]]
  BY <1>0, <1>3, <1>7
<1>9. \A v \in Workers, x \in Channels : adm'[v][x] = IF x = ch THEN next(v) ELSE adm[v][x]
  BY <1>0, <1>7
<1>10. ASSUME NEW v \in Workers, NEW x \in Channels
       PROVE  \/ adm'[v][x] = adm[v][x]
              \/ x = ch /\ adm[v][x].pc = "none" /\ adm'[v][x] = next(v)
  BY <1>5, <1>9
<1> QED
  BY <1>1, <1>2, <1>3, <1>6, <1>8, <1>10

\* The type invariant is inductive.
LEMMA TypeInvStep == TypeInv /\ [Next]_vars => TypeInv'
<1> SUFFICES ASSUME TypeInv, [Next]_vars PROVE TypeInv'
  OBVIOUS
<1>0. CoreInv /\ AdmInv /\ RowInv
  BY DEF TypeInv
<1>1. ASSUME NEW ch \in Channels, FsArrive(ch) PROVE TypeInv'
  <2>1. ASSUME NEW v \in Workers, NEW x \in Channels
        PROVE  \/ adm'[v][x] = adm[v][x]
               \/ adm'[v][x] \in Adm /\ adm'[v][x].pc = "lookup" /\ adm'[v][x].call = adm[v][x].call
    BY <1>1, ArriveAdm
  <2>2. AdmInv'
    BY <1>0, <1>1, <2>1, ArriveAdm DEF AdmInv, AdmOK, CallPc
  <2>3. row' = row
    BY <1>1 DEF FsArrive, dbVars
  <2>4. RowInv'
    BY <1>0, <2>1, <2>3 DEF RowInv
  <2> QED
    BY <1>1, <2>2, <2>4, ArriveAdm DEF TypeInv
<1>2. ASSUME NEW w \in Workers, NEW ch \in Channels, AdmitStep(w, ch) \/ AdmitFailure(w, ch)
      PROVE  TypeInv'
  BY <1>2, AdmitType
<1>3. ASSUME NEW w \in Workers, WorkerCrash(w) PROVE TypeInv'
  <2>1. ASSUME NEW v \in Workers, NEW x \in Channels
        PROVE  \/ adm'[v][x] = adm[v][x]
               \/ adm'[v][x] \in Adm /\ adm'[v][x].pc = "rejected" /\ adm'[v][x].call = adm[v][x].call
    BY <1>0, <1>3, CrashAdm
  <2>2. AdmInv'
    BY <1>0, <1>3, <2>1, CrashAdm DEF AdmInv, AdmOK, CallPc
  <2>3. row' = row
    BY <1>3, CrashRuntime DEF WorkerRestart, dbVars
  <2>4. RowInv'
    BY <1>0, <2>1, <2>3 DEF RowInv
  <2>5. CoreInv'
    <3>1. CASE WorkerRestart
      BY <1>0, <3>1, CoreInvStep DEF CoreStep
    <3>2. CASE Fault /\ UNCHANGED <<dbVars, redisVars, fsVars, lc, job>>
      BY <1>0, <3>2 DEF Fault, dbVars, redisVars, fsVars, CoreInv, CoreTypeOK, LcHasCall, JobHasCall
    <3> QED
      BY <1>3, <3>1, <3>2, CrashRuntime
  <2> QED
    BY <2>2, <2>4, <2>5 DEF TypeInv
<1>4. ASSUME NEW id, LeaseExpire(id) PROVE TypeInv'
  <2>1. CoreInv'
    BY <1>0, <1>4 DEF LeaseExpire, dbVars, fsVars, CoreInv, CoreTypeOK, LcHasCall, JobHasCall
  <2>2. row' = row /\ adm' = adm
    BY <1>4 DEF LeaseExpire, dbVars
  <2> QED
    BY <1>0, <2>1, <2>2 DEF TypeInv, AdmInv, RowInv
<1>5. CASE InboundCore /\ UNCHANGED adm
  <2>1. CoreStep
    BY <1>5 DEF InboundCore, InboundLifecycle, CoreStep
  <2>2. \A c \in Calls : /\ row[c].state = "none" => row'[c] = NoRow
                         /\ row'[c].state = "none" <=> row[c].state = "none"
    BY <1>0, <2>1, CoreStepKeepsNoRow, CoreStepKeepsIdentity DEF RowInv
  <2> QED
    BY <1>0, <1>5, <2>1, <2>2, CoreInvStep DEF TypeInv, AdmInv, RowInv
<1>6. CASE UNCHANGED vars
  BY <1>6 DEF vars, coreVars, dbVars, redisVars, fsVars, TypeInv, CoreInv, CoreTypeOK,
     LcHasCall, JobHasCall, AdmInv, RowInv
<1> QED
  BY <1>1, <1>2, <1>3, <1>4, <1>5, <1>6 DEF Next

\* Every reachable state is well formed, for any number of workers, calls,
\* channels and failures (AdmitInbound and the runtime it shares).
THEOREM InboundTypeCorrect == Spec => []TypeOK
<1>1. TypeInv => TypeOK
  BY DEF TypeInv, CoreInv, AdmInv, TypeOK
<1> QED
  BY <1>1, TypeInvInit, TypeInvStep, PTL DEF Spec

(***************************************************************************)
(* What subscribers see                                                    *)
(***************************************************************************)
\* The steps of an admission are invisible, except those that create the row
\* and fail the call.
LEMMA AdmitVisible ==
    ASSUME TypeInv, NEW w \in Workers, NEW ch \in Channels, AdmitStep(w, ch) \/ AdmitFailure(w, ch)
    PROVE  \/ Quiet
           \/ \E c \in Calls : /\ row[c].state = "none" /\ outbox' = [outbox EXCEPT ![c] = <<"ringing">>]
                               /\ row' = [row EXCEPT ![c] = [NoRow EXCEPT !.state = "ringing", !.sip = ch]]
           \/ \E c \in Calls : mutate(c, "failed")
<1>0. CoreTypeOK
  BY DEF TypeInv, CoreInv
<1>1. CASE row' = row
  <2>1. CASE outbox' = outbox
    BY <1>1, <2>1, UnchangedIsQuiet
  <2>2. CASE \E c \in Calls : /\ row[c].state = "none" /\ outbox' = [outbox EXCEPT ![c] = <<"ringing">>]
                              /\ row' = [row EXCEPT ![c] = [NoRow EXCEPT !.state = "ringing", !.sip = ch]]
    BY <2>2
  <2>3. CASE \E c \in Calls : mutate(c, "failed")
    BY <2>3
  <2> QED
    BY <2>1, <2>2, <2>3, AdmitOutbox
<1>2. CASE CreateInbound(w, ch) /\ Existing(ch) = {}
  BY <1>2 DEF CreateInbound
<1>3. CASE /\ Attribute(w, ch) \/ Reuse(w, ch)
           /\ adm[w][ch].call \in Calls /\ row' = [row EXCEPT ![adm[w][ch].call].trunk = TRUE]
  <2>1. outbox' = outbox
    BY <1>3 DEF Attribute, Reuse
  <2> QED
    BY <1>0, <1>3, <2>1, TrunkSet DEF Quiet
<1> QED
  BY <1>1, <1>2, <1>3, AdmitRows

\* Creating the row begins the call.
LEMMA CreateInboundRefines ==
    ASSUME TypeInv, NEW ch \in Channels, NEW c \in Calls, row[c].state = "none",
           outbox' = [outbox EXCEPT ![c] = <<"ringing">>],
           row' = [row EXCEPT ![c] = [NoRow EXCEPT !.state = "ringing", !.sip = ch]]
    PROVE  Abstract!LifecycleNext
<1>1. row[c] = NoRow /\ row \in [Calls -> Row]
  BY DEF TypeInv, RowInv, CoreInv, CoreTypeOK
<1> DEFINE new == [NoRow EXCEPT !.state = "ringing", !.sip = ch]
           st == [x \in Calls |-> row[x].state]
           md == [x \in Calls |-> row[x].media]
<1>2. /\ NoRow.state = "none" /\ NoRow.media = "active"
      /\ new.state = "ringing" /\ new.media = "active"
  BY DEF NoRow
<1>3. st[c] = "none" /\ md' = md /\ st' = [st EXCEPT ![c] = "ringing"]
  <2> HIDE DEF new
  <2> QED
    BY <1>1, <1>2 DEF new
<1>4. Abstract!Begin(c)
  BY <1>3 DEF Abstract!Begin
<1> QED
  BY <1>4 DEF Abstract!LifecycleNext

\* However many workers admit the same channel, and whatever fails or dies on
\* the way, the rows and the outbox implement the promise made to subscribers.
THEOREM InboundRefinesLifecycle == Spec => ImplementsLifecycle
<1>1. Init => Abstract!LifecycleInit
  BY DEF Init, CoreInit, NoRow, Abstract!LifecycleInit
<1>2. TypeInv /\ TypeInv' /\ [Next]_vars => [Abstract!LifecycleNext]_(Abstract!lifecycleVars)
  <2> SUFFICES ASSUME TypeInv, TypeInv', [Next]_vars
               PROVE  Abstract!LifecycleNext \/ UNCHANGED Abstract!lifecycleVars
    OBVIOUS
  <2>1. CoreTypeOK /\ CoreTypeOK' /\ CoreInv
    BY DEF TypeInv, CoreInv
  <2>2. ASSUME NEW w \in Workers, NEW ch \in Channels, AdmitStep(w, ch) \/ AdmitFailure(w, ch)
        PROVE  Abstract!LifecycleNext \/ UNCHANGED Abstract!lifecycleVars
    <3>1. "failed" \in LifecycleEvent
      BY DEF LifecycleEvent, TerminalEvent
    <3> QED
      BY <2>1, <2>2, <3>1, AdmitVisible, QuietRefines, MutateRefines, CreateInboundRefines
  <2>3. ASSUME UNCHANGED <<row, outbox>> PROVE UNCHANGED Abstract!lifecycleVars
    BY <2>1, <2>3, UnchangedIsQuiet, QuietRefines
  <2>4. ASSUME NEW ch \in Channels, FsArrive(ch) PROVE UNCHANGED <<row, outbox>>
    BY <2>4 DEF FsArrive, dbVars
  <2>5. ASSUME NEW w \in Workers, WorkerCrash(w) PROVE UNCHANGED <<row, outbox>>
    BY <2>5, CrashRuntime DEF WorkerRestart, dbVars
  <2>6. ASSUME NEW id, LeaseExpire(id) PROVE UNCHANGED <<row, outbox>>
    BY <2>6 DEF LeaseExpire, dbVars
  <2>7. CASE InboundCore /\ UNCHANGED adm
    <3>1. CoreStep
      BY <2>7 DEF InboundCore, InboundLifecycle, CoreStep
    <3> QED
      BY <2>1, <3>1, CoreStepVisible, QuietRefines, MutateRefines DEF HandlerMutates
  <2>8. ASSUME UNCHANGED vars PROVE UNCHANGED <<row, outbox>>
    BY <2>8 DEF vars, coreVars, dbVars
  <2> QED
    BY <2>2, <2>3, <2>4, <2>5, <2>6, <2>7, <2>8 DEF Next
<1> QED
  BY TypeInvInit, TypeInvStep, <1>1, <1>2, PTL
  DEF Spec, ImplementsLifecycle, Abstract!LifecycleSpec

(***************************************************************************)
(* Any number of workers.                                                  *)
(*                                                                         *)
(* Whatever the workers do to each other's leases, the row of a dialog is  *)
(* the only call its channel, its bindings and its admissions know.        *)
(***************************************************************************)
\* The rows of the dialogs.
Placed == {p \in Calls \X Channels : row[p[1]].state # "none" /\ row[p[1]].sip = p[2]}

\* No call is dialled, every row belongs to a dialog, and a dialog has one row.
DialogInv ==
    /\ \A ch \in Channels : attempt[ch].status = "none"
    /\ job.chans = {}
    /\ \A c \in Calls : row[c].state # "none" => ~row[c].outbound /\ row[c].sip \in Channels
    /\ \A c, d \in Calls : row[c].state # "none" /\ row[d].state # "none" /\ row[c].sip = row[d].sip
                           => c = d

\* Every admission works on the row of its dialog.
WorkersInv ==
    \A w \in Workers, ch \in Channels : adm[w][ch].call \in Calls => adm[w][ch].call \in Existing(ch)

WorldInv == DialogInv /\ Linked(Placed) /\ CleanupInv /\ HangupInv
SharedInv == TypeInv /\ WorldInv /\ WorkersInv

\* It holds at the start.
LEMMA SharedInvInit == Init => SharedInv
<1> SUFFICES ASSUME Init PROVE SharedInv
  OBVIOUS
<1>1. TypeInv /\ CleanupInv /\ HangupInv
  BY TypeInvInit, CleanupInvInit DEF Init
<1>2. DialogInv
  BY DEF Init, CoreInit, DialogInv, NoAttempt, IdleJob, NoRow
<1>3. Linked(Placed)
  BY CallAssumption DEF Init, CoreInit, Linked, IdleLc, IdleJob
<1>4. WorkersInv
  BY CallAssumption DEF Init, WorkersInv, IdleAdm
<1> QED
  BY <1>1, <1>2, <1>3, <1>4 DEF SharedInv, WorldInv

\* The dialog of a call, and the call of a dialog.
LEMMA OneRowPerDialog ==
    ASSUME DialogInv, NEW c \in Calls, NEW ch, <<c, ch>> \in Placed
    PROVE  /\ row[c].state # "none" /\ row[c].sip = ch /\ ch \in Channels
           /\ \A d \in Calls : <<d, ch>> \in Placed => d = c
           /\ \A u : <<c, u>> \in Placed => u = ch
BY DEF DialogInv, Placed

\* The runtime leaves the dialogs alone.
LEMMA DialogRuntime ==
    ASSUME SharedInv, CoreStep
    PROVE  DialogInv' /\ Placed' = Placed /\ \A ch \in Channels : Existing(ch)' = Existing(ch)
<1>0. CoreInv /\ DialogInv /\ job \in Job
  BY DEF SharedInv, TypeInv, WorldInv, CoreInv, CoreTypeOK
<1>1. ASSUME NEW c \in Calls
      PROVE  /\ row'[c].state = "none" <=> row[c].state = "none"
             /\ row[c].state # "none" => row'[c].sip = row[c].sip /\ row'[c].outbound = row[c].outbound
  BY <1>0, CoreStepKeepsIdentity, CoreStepKeepsDialog DEF DialogInv
<1>2. \A ch \in Channels : attempt'[ch].status = "none"
  BY <1>0, CoreStepObserves DEF DialogInv
<1>3. job'.chans = {}
  <2>1. IdleJob.chans = {}
    BY DEF IdleJob
  <2>2. ASSUME Reconcile PROVE job'.chans = {}
    <3>1. CASE JobListOriginations
      <4>1. UnresolvedOriginations = {}
        BY <1>0 DEF UnresolvedOriginations, DialogInv, Unresolved
      <4> QED
        BY <1>0, <3>1, <4>1 DEF JobListOriginations, Job, DialogInv
    <3>2. CASE \/ JobListActive \/ JobRefreshOrg \/ JobListCleanup
      BY <2>1, <3>2 DEF JobListActive, JobRefreshOrg, JobListCleanup, IdleJob
    <3>3. CASE JobBind \/ \E c \in Calls : JobRefreshTrunk(c)
      BY <1>0, <3>3 DEF JobBind, JobRefreshTrunk, Job, DialogInv
    <3>4. CASE JobObserve
      BY <1>0, <3>4 DEF JobObserve, NextProbe, IdleJob, Job, DialogInv
    <3>5. CASE \E c \in Calls : JobCleanup(c)
      <4>1. PICK c \in Calls : JobCleanup(c)
        BY <3>5
      <4>2. job.pc \in CleanupPc
        BY <4>1 DEF JobCleanup
      <4>3. \/ job' = NextCleanup(c)
            \/ \E pc, d, t : job' = [job EXCEPT !.pc = pc, !.call = d, !.trunk = t]
            \/ \E pc : job' = [job EXCEPT !.pc = pc]
        BY <4>1, <4>2 DEF JobCleanup, CleanupPc
      <4> QED
        BY <1>0, <4>3 DEF NextCleanup, IdleJob, Job, DialogInv
    <3>6. CASE \E ch \in Channels : JobProbe(ch)
      BY <1>0, <3>6 DEF JobProbe, DialogInv
    <3> QED
      BY <2>2, <3>1, <3>2, <3>3, <3>4, <3>5, <3>6 DEF Reconcile
  <2>3. ASSUME Failure \/ WorkerRestart PROVE job'.chans = {}
    BY <1>0, <2>1, <2>3 DEF Failure, JobFail, LoseEvent, LcFail, WorkerRestart, NextCleanup, IdleJob, DialogInv
  <2>4. ASSUME NEW ch \in Channels, FreeSwitch(ch) PROVE job'.chans = {}
    BY <1>0, <2>4, FreeSwitchShape DEF DialogInv
  <2>5. ASSUME NEW ch \in Channels, Lifecycle(ch) PROVE job'.chans = {}
    BY <1>0, <2>5 DEF Lifecycle, LcBegin, LcSnapshot, LcRefreshOrg, LcRefreshTrunk, LcTransition,
       LcCleanup, DialogInv
  <2> QED
    BY <2>2, <2>3, <2>4, <2>5, ControlIsFreeSwitch DEF CoreStep
<1>4. DialogInv'
  BY <1>0, <1>1, <1>2, <1>3 DEF DialogInv
<1>5. Placed' = Placed
  BY <1>1 DEF Placed
<1>6. \A ch \in Channels : Existing(ch)' = Existing(ch)
  BY <1>1 DEF Existing
<1> QED
  BY <1>4, <1>5, <1>6

\* So it keeps every pointer on the rows of their dialogs.
LEMMA WorldRuntime ==
    ASSUME SharedInv, CoreStep PROVE WorldInv'
<1>0. CoreInv /\ WorldInv /\ DialogInv' /\ Placed' = Placed
  BY DialogRuntime DEF SharedInv, TypeInv
<1>1. CleanupInv' /\ HangupInv'
  BY <1>0, CleanupInvStep, HangupInvStep DEF WorldInv
<1>2. Linked(Placed)'
  <2> DEFINE P == Placed
             Q == Placed'
  <2>1. P \subseteq Q /\ Linked(P) /\ job.chans = {}
    BY <1>0 DEF WorldInv, DialogInv
  <2> QED
    BY <1>0, <2>1, LinkedStep DEF WorldInv, Linked
<1> QED
  BY <1>0, <1>1, <1>2 DEF WorldInv

\* A step of an admission keeps the dialog of every row, and ends at most the
\* call it is undoing.
LEMMA AdmitKeepsDialogs ==
    ASSUME TypeInv, NEW w \in Workers, NEW ch \in Channels, AdmitStep(w, ch) \/ AdmitFailure(w, ch),
           NEW d \in Calls, row[d].state # "none"
    PROVE  /\ row'[d].state # "none" /\ row'[d].sip = row[d].sip /\ row'[d].outbound = row[d].outbound
           /\ row[d].trunk => row'[d].trunk
           /\ Over(d) => Over(d)'
           /\ Over(d)' => Over(d) \/ (At(w, ch, "undo") /\ d = adm[w][ch].call)
<1>0. CoreTypeOK /\ row \in [Calls -> Row]
  BY DEF TypeInv, CoreInv, CoreTypeOK
<1>1. CASE row' = row
  BY <1>1 DEF Over
<1>2. CASE \E c \in Calls : row[c].state = "none" /\
              row' = [row EXCEPT ![c] = [NoRow EXCEPT !.state = "ringing", !.sip = ch]]
  <2>1. row'[d] = row[d]
    BY <1>0, <1>2
  <2> QED
    BY <2>1 DEF Over
<1>3. CASE adm[w][ch].call \in Calls /\ row' = [row EXCEPT ![adm[w][ch].call].trunk = TRUE]
  BY <1>0, <1>3, TrunkSet DEF Over
<1>4. CASE UndoStep(w, ch) /\ adm[w][ch].call \in Calls /\ mutate(adm[w][ch].call, "failed")
  <2>0. "failed" \in LifecycleEvent /\ At(w, ch, "undo")
    BY <1>4 DEF LifecycleEvent, TerminalEvent, UndoStep
  <2>1. /\ row'[d].trunk = row[d].trunk /\ row'[d].outbound = row[d].outbound
        /\ row'[d].sip = row[d].sip /\ row'[d].state # "none"
    BY <1>0, <1>4, <2>0, MutateKeepsIdentity
  <2>2. /\ Over(d) => Over(d)'
        /\ d # adm[w][ch].call => row'[d] = row[d]
    BY <1>0, <1>4, <2>0, MutateOver
  <2> QED
    BY <2>0, <2>1, <2>2 DEF Over
<1> QED
  BY <1>1, <1>2, <1>3, <1>4, AdmitRows

\* An admission adds the row of its dialog, unless there is one.
LEMMA DialogAdmit ==
    ASSUME SharedInv, NEW w \in Workers, NEW ch \in Channels, AdmitStep(w, ch) \/ AdmitFailure(w, ch)
    PROVE  /\ DialogInv' /\ Placed \subseteq Placed'
           /\ \A x \in Channels : x # ch => Existing(x)' = Existing(x)
<1>0. /\ TypeInv /\ CoreTypeOK /\ DialogInv /\ row \in [Calls -> Row]
      /\ attempt \in [Channels -> Attempt]
  BY DEF SharedInv, WorldInv, TypeInv, CoreInv, CoreTypeOK
<1>1. ASSUME NEW d \in Calls, row[d].state # "none"
      PROVE  row'[d].state # "none" /\ row'[d].sip = row[d].sip /\ row'[d].outbound = row[d].outbound
  BY <1>0, <1>1, AdmitKeepsDialogs
<1>2. ASSUME NEW d \in Calls, row[d].state = "none", row'[d].state # "none"
      PROVE  /\ Existing(ch) = {} /\ row'[d].sip = ch /\ ~row'[d].outbound
             /\ \A c \in Calls : c # d => row'[c] = row[c]
  <2>1. CASE Existing(ch) = {} /\ \E c \in Calls : row[c].state = "none" /\
                row' = [row EXCEPT ![c] = [NoRow EXCEPT !.state = "ringing", !.sip = ch]]
    <3>1. PICK c \in Calls : row[c].state = "none" /\
             row' = [row EXCEPT ![c] = [NoRow EXCEPT !.state = "ringing", !.sip = ch]]
      BY <2>1
    <3>2. \A x \in Calls : x # c => row'[x] = row[x]
      BY <1>0, <3>1
    <3>3. d = c /\ row'[c] = [NoRow EXCEPT !.state = "ringing", !.sip = ch]
      BY <1>0, <1>2, <3>1, <3>2
    <3> QED
      BY <2>1, <3>2, <3>3, NewRow
  <2>2. CASE row' = row
    BY <1>2, <2>2
  <2>3. CASE adm[w][ch].call \in Calls /\ row' = [row EXCEPT ![adm[w][ch].call].trunk = TRUE]
    BY <1>0, <1>2, <2>3, TrunkSet
  <2>4. CASE adm[w][ch].call \in Calls /\ mutate(adm[w][ch].call, "failed")
    BY <1>0, <1>2, <2>4, MutateKeepsIdentity DEF LifecycleEvent, TerminalEvent
  <2> QED
    BY <1>0, <2>1, <2>2, <2>3, <2>4, AdmitRows
<1>3. \A u \in Channels : attempt'[u].status = "none"
  <2>1. CASE attempt' = attempt
    BY <1>0, <2>1 DEF DialogInv
  <2>2. CASE \E c \in Calls : mutate(c, "failed")
    <3>1. PICK c \in Calls : attempt' = FinishAttempts(c) \/ attempt' = attempt
      BY <2>2 DEF mutate
    <3> QED
      BY <1>0, <3>1, FinishStatus DEF DialogInv
  <2> QED
    BY <1>0, <2>1, <2>2, AdmitTables
<1>4. job'.chans = {}
  BY <1>0, AdmitChannels DEF DialogInv
<1>5. \A c \in Calls : row'[c].state # "none" => ~row'[c].outbound /\ row'[c].sip \in Channels
  BY <1>0, <1>1, <1>2 DEF DialogInv
<1>6. ASSUME NEW c \in Calls, NEW d \in Calls, row'[c].state # "none", row'[d].state # "none",
             row'[c].sip = row'[d].sip
      PROVE  c = d
  <2>1. ASSUME NEW x \in Calls, NEW y \in Calls, row[x].state = "none", row'[x].state # "none",
               row[y].state # "none", row'[x].sip = row'[y].sip
        PROVE  FALSE
    BY <1>1, <1>2, <2>1 DEF Existing
  <2>2. CASE row[c].state # "none" /\ row[d].state # "none"
    BY <1>0, <1>1, <1>6, <2>2 DEF DialogInv
  <2>3. CASE row[c].state = "none" /\ row[d].state = "none"
    BY <1>2, <1>6, <2>3
  <2> QED
    BY <1>6, <2>1, <2>2, <2>3
<1>7. DialogInv'
  BY <1>3, <1>4, <1>5, <1>6 DEF DialogInv
<1>8. Placed \subseteq Placed'
  BY <1>1 DEF Placed
<1>9. ASSUME NEW x \in Channels, x # ch PROVE Existing(x)' = Existing(x)
  <2>1. \A d \in Calls : row'[d].state # "none" /\ row'[d].sip = x <=> row[d].state # "none" /\ row[d].sip = x
    BY <1>1, <1>2, <1>9
  <2> QED
    BY <2>1 DEF Existing
<1> QED
  BY <1>7, <1>8, <1>9

\* It points at the row of its dialog only, and marks only a call it ends.
LEMMA WorldAdmit ==
    ASSUME SharedInv, NEW w \in Workers, NEW ch \in Channels, AdmitStep(w, ch) \/ AdmitFailure(w, ch)
    PROVE  WorldInv'
<1> DEFINE c == adm[w][ch].call
<1>0. /\ TypeInv /\ CoreInv /\ CoreTypeOK /\ DialogInv /\ Linked(Placed) /\ CleanupInv /\ HangupInv
      /\ (c \in Calls => c \in Existing(ch)) /\ c = adm[w][ch].call
      /\ lc' = lc /\ job' = job /\ job.calls \subseteq Calls
  BY AdmitChannels DEF SharedInv, WorldInv, WorkersInv, TypeInv, CoreInv, CoreTypeOK, Job
<1>1. DialogInv' /\ Placed \subseteq Placed'
  BY DialogAdmit
<1>2. c \in Calls => <<c, ch>> \in Placed
  BY <1>0 DEF Existing, Placed
<1> HIDE DEF c
<1>3. \A d \in Calls : Over(d) => Over(d)'
  <2> SUFFICES ASSUME NEW d \in Calls, Over(d) PROVE Over(d)'
    OBVIOUS
  <2>1. row[d].state # "none"
    BY DEF Over, isTerminalState, TerminalState
  <2> QED
    BY <1>0, <2>1, AdmitKeepsDialogs
<1>4. CleanupInv'
  <2>1. \A d \in marker' : Over(d)'
    <3>1. CASE marker' = marker
      BY <1>0, <1>3, <3>1 DEF CleanupInv, CoreTypeOK
    <3>2. ASSUME NEW x \in Calls, mutate(x, "failed") PROVE \A d \in marker' : Over(d)'
      <4>1. "failed" \in LifecycleEvent /\ "failed" \in TerminalEvent
        BY DEF LifecycleEvent, TerminalEvent
      <4>2. marker' \subseteq marker \cup {x} /\ Over(x)'
        BY <1>0, <3>2, <4>1, MutateOver
      <4>3. marker \subseteq Calls /\ \A d \in marker : Over(d)
        BY <1>0 DEF CleanupInv, CoreTypeOK
      <4> QED
        BY <1>3, <4>2, <4>3
    <3> QED
      BY <1>0, <3>1, <3>2, AdmitTables
  <2>2. \A u \in Channels : lc[u].pc \in CleanupPc => lc[u].call \in Calls
    BY <1>0 DEF CoreInv, LcHasCall, CleanupPc
  <2>3. job'.pc \in CleanupPc => \A d \in job'.calls : Over(d)'
    BY <1>0, <1>3 DEF CleanupInv
  <2>4. \A u \in Channels : lc'[u].pc \in CleanupPc => row'[lc[u].call].state \in TerminalState
    BY <1>0, <1>3, <2>2 DEF CleanupInv, Over, isTerminalState
  <2> QED
    BY <1>0, <2>1, <2>3, <2>4 DEF CleanupInv, Over, isTerminalState
<1>5. HangupInv'
  <2>0. /\ fs \in [Channels -> [st: FsState, cid: Calls \cup {NoCall}]]
        /\ evq \in [Channels -> Seq(LifecycleEvent)]
    BY <1>0 DEF CoreTypeOK
  <2>1. CASE evq' = evq /\ \A u \in Channels : fs'[u].st = fs[u].st
    BY <1>0, <2>1 DEF HangupInv, NoEarlyHangup
  <2>2. CASE fs[ch].st \in FsLive /\ \E e \in TerminalEvent : Emit(ch, "gone", e)
    <3>1. fs[ch].st # "gone" /\ "gone" \in FsState
      BY <2>2 DEF FsLive, FsState
    <3>2. PICK e \in TerminalEvent : Emit(ch, "gone", e)
      BY <2>2
    <3>3. e \in LifecycleEvent
      BY <3>2 DEF LifecycleEvent
    <3> QED
      BY <1>0, <3>1, <3>2, <3>3, EmitKeepsHangup DEF Emit
  <2>3. fs' = [fs EXCEPT ![ch].cid = c] => \A u \in Channels : fs'[u].st = fs[u].st
    BY <2>0
  <2> QED
    BY <1>0, <2>1, <2>2, <2>3, AdmitChannels
<1>6. Linked(Placed)'
  <2>1. /\ \A u \in Channels : owner'[u] \in Calls => <<owner'[u], u>> \in Placed'
        /\ \A d \in Calls : binding'[d] \in Channels => <<d, binding'[d]>> \in Placed'
    <3>0. /\ binding \in [Calls -> Channels \cup {NoChannel}]
          /\ owner \in [Channels -> Calls \cup {NoCall}]
      BY <1>0 DEF CoreTypeOK
    <3>1. CASE UNCHANGED <<binding, owner>>
      BY <1>0, <1>1, <3>1 DEF Linked
    <3>2. CASE c \in Calls /\ ChannelBind(c, ch)
      BY <1>0, <1>1, <1>2, <3>0, <3>2 DEF Linked, ChannelBind
    <3>3. CASE c \in Calls /\ ChannelDelete(c)
      <4>1. /\ \A u \in Channels : owner'[u] \in {owner[u], NoCall}
            /\ \A d \in Calls : binding'[d] \in {binding[d], NoChannel}
        BY <3>0, <3>3 DEF ChannelDelete
      <4> QED
        BY <1>0, <1>1, <4>1, CallAssumption DEF Linked
    <3> QED
      BY <1>0, <3>1, <3>2, <3>3, AdmitBindings
  <2>2. \A u \in Channels : fs'[u].cid \in Calls => <<fs'[u].cid, u>> \in Placed'
    <3>0. fs \in [Channels -> [st: FsState, cid: Calls \cup {NoCall}]]
      BY <1>0 DEF CoreTypeOK
    <3>1. CASE \A u \in Channels : fs'[u].cid = fs[u].cid
      BY <1>0, <1>1, <3>1 DEF Linked
    <3>2. CASE c \in Calls /\ fs' = [fs EXCEPT ![ch].cid = c]
      BY <1>0, <1>1, <1>2, <3>0, <3>2 DEF Linked
    <3>3. ASSUME NEW e, Emit(ch, "gone", e) PROVE \A u \in Channels : fs'[u].cid = fs[u].cid
      BY <3>0, <3>3 DEF Emit
    <3> QED
      BY <1>0, <3>1, <3>2, <3>3, AdmitChannels
  <2>3. \A u \in Channels : lc'[u].pc # "idle" => <<lc'[u].call, u>> \in Placed'
    BY <1>0, <1>1 DEF Linked
  <2>4. job'.pc \in {"bind", "observe"} =>
          job'.call \in Calls /\ job'.chan \in Channels /\ <<job'.call, job'.chan>> \in Placed'
    BY <1>0, <1>1 DEF Linked
  <2> QED
    BY <2>1, <2>2, <2>3, <2>4 DEF Linked
<1> QED
  BY <1>1, <1>4, <1>5, <1>6 DEF WorldInv

\* A channel appears: nothing points at it yet.
LEMMA WorldArrive == ASSUME SharedInv, NEW ch \in Channels, FsArrive(ch) PROVE WorldInv' /\ WorkersInv'
<1>0. /\ TypeInv /\ WorldInv /\ WorkersInv
      /\ fs \in [Channels -> [st: FsState, cid: Calls \cup {NoCall}]]
  BY DEF SharedInv, TypeInv, CoreInv, CoreTypeOK
<1>1. /\ UNCHANGED <<row, attempt, marker, binding, owner, evq, lc, job>>
      /\ fs[ch].st = "none"
  BY DEF FsArrive, dbVars, redisVars
<1>2. \A x \in Channels : /\ fs'[x].cid = fs[x].cid
                          /\ fs'[x].st = "gone" <=> fs[x].st = "gone"
  <2>1. fs' = [fs EXCEPT ![ch] = [st |-> "created", cid |-> fs[ch].cid]]
    BY <1>0, ArriveAdm
  <2> QED
    BY <1>0, <1>1, <2>1
<1>3. Placed' = Placed /\ \A x \in Channels : Existing(x)' = Existing(x)
  BY <1>1 DEF Placed, Existing
<1>4. DialogInv' /\ CleanupInv'
  BY <1>0, <1>1 DEF WorldInv, DialogInv, CleanupInv, Over
<1>5. HangupInv'
  BY <1>0, <1>1, <1>2 DEF WorldInv, HangupInv, NoEarlyHangup
<1>6. Linked(Placed)'
  BY <1>0, <1>1, <1>2, <1>3 DEF WorldInv, Linked
<1>7. WorkersInv'
  <2>1. \A v \in Workers, x \in Channels : adm'[v][x].call = adm[v][x].call
    BY <1>0, ArriveAdm
  <2> QED
    BY <1>0, <1>3, <2>1 DEF WorkersInv
<1> QED
  BY <1>4, <1>5, <1>6, <1>7 DEF WorldInv

\* A worker dies: only the Handler has anything of the runtime to lose.
LEMMA WorldCrash == ASSUME SharedInv, NEW w \in Workers, WorkerCrash(w) PROVE WorldInv' /\ WorkersInv'
<1>0. TypeInv /\ WorldInv /\ WorkersInv /\ AdmInv
  BY DEF SharedInv, TypeInv
<1>1. row' = row
  BY CrashRuntime DEF WorkerRestart, dbVars
<1>2. ASSUME WorkerRestart PROVE WorldInv'
  BY <1>2, WorldRuntime DEF CoreStep
<1>3. ASSUME UNCHANGED <<dbVars, redisVars, fsVars, lc, job>> PROVE WorldInv'
  BY <1>0, <1>3
  DEF WorldInv, DialogInv, Linked, Placed, CleanupInv, HangupInv, NoEarlyHangup, Over,
      dbVars, redisVars, fsVars
<1>4. WorkersInv'
  <2>1. \A v \in Workers, x \in Channels : adm'[v][x].call = adm[v][x].call
    BY <1>0, CrashAdm
  <2>2. \A x \in Channels : Existing(x)' = Existing(x)
    BY <1>1 DEF Existing
  <2> QED
    BY <1>0, <2>1, <2>2 DEF WorkersInv
<1> QED
  BY <1>2, <1>3, <1>4, CrashRuntime

\* A lease expires: no pointer is a lease.
LEMMA WorldExpire == ASSUME SharedInv, NEW id, LeaseExpire(id) PROVE WorldInv' /\ WorkersInv'
<1>1. UNCHANGED <<row, attempt, marker, binding, owner, fs, evq, lc, job, adm>>
  BY DEF LeaseExpire, dbVars, fsVars
<1> QED
  BY <1>1
  DEF SharedInv, WorldInv, WorkersInv, DialogInv, Linked, Placed, Existing, CleanupInv, HangupInv,
      NoEarlyHangup, Over

\* An admission keeps its call, or takes the call of its dialog: the one it
\* found, the one it lost the race to, or the one it creates.
LEMMA WorkersAdmit ==
    ASSUME SharedInv, NEW w \in Workers, NEW ch \in Channels, AdmitStep(w, ch) \/ AdmitFailure(w, ch)
    PROVE  WorkersInv'
<1>0. TypeInv /\ WorkersInv /\ Progressed(w, ch)
  BY AdmitProgress DEF SharedInv
<1>1. \A x \in Channels : Existing(x) \subseteq Existing(x)'
  BY <1>0, AdmitKeepsDialogs DEF Existing
<1> SUFFICES ASSUME NEW v \in Workers, NEW x \in Channels, adm'[v][x].call \in Calls
             PROVE  adm'[v][x].call \in Existing(x)'
  BY DEF WorkersInv
<1>2. CASE adm'[v][x].call = adm[v][x].call
  BY <1>0, <1>1, <1>2 DEF WorkersInv
<1>3. CASE v = w /\ x = ch /\ adm'[w][ch].call \in Existing(ch)
  BY <1>1, <1>3
<1>4. CASE v = w /\ x = ch /\ row'[adm'[w][ch].call].state = "ringing" /\ row'[adm'[w][ch].call].sip = ch
  BY <1>4 DEF Existing
<1> QED
  BY <1>0, <1>2, <1>3, <1>4 DEF Progressed

\* The invariant of any number of workers is inductive.
LEMMA SharedInvStep == SharedInv /\ [Next]_vars => SharedInv'
<1> SUFFICES ASSUME SharedInv, [Next]_vars PROVE SharedInv'
  OBVIOUS
<1>1. TypeInv'
  BY TypeInvStep DEF SharedInv
<1>2. ASSUME NEW w \in Workers, NEW ch \in Channels, AdmitStep(w, ch) \/ AdmitFailure(w, ch)
      PROVE  WorldInv' /\ WorkersInv'
  BY <1>2, WorldAdmit, WorkersAdmit
<1>3. CASE InboundCore /\ UNCHANGED adm
  <2>1. CoreStep
    BY <1>3 DEF InboundCore, InboundLifecycle, CoreStep
  <2>2. WorldInv' /\ \A ch \in Channels : Existing(ch)' = Existing(ch)
    BY <2>1, WorldRuntime, DialogRuntime
  <2> QED
    BY <1>1, <1>3, <2>2 DEF SharedInv, WorkersInv
<1>4. CASE UNCHANGED vars
  <2>1. UNCHANGED <<row, attempt, marker, binding, owner, fs, evq, lc, job, adm>>
    BY <1>4 DEF vars, coreVars, dbVars, redisVars, fsVars
  <2>2. WorldInv' /\ WorkersInv'
    BY <2>1
    DEF SharedInv, WorldInv, WorkersInv, DialogInv, Linked, Placed, Existing, CleanupInv, HangupInv,
        NoEarlyHangup, Over
  <2> QED
    BY <1>1, <2>2 DEF SharedInv
<1> QED
  BY <1>1, <1>2, <1>3, <1>4, WorldArrive, WorldCrash, WorldExpire DEF Next, SharedInv

\* However many workers admit a dialog at once, and wherever they fail or die,
\* the dialog has one call and no pointer of it leads to another dialog
\* (CreateInbound, bindInboundChannel, ObserveLifecycle).
THEOREM DialogsNeverMix == Spec => []DialogsStayApart
<1>1. SharedInv => DialogsStayApart
  <2> SUFFICES ASSUME SharedInv PROVE DialogsStayApart
    OBVIOUS
  <2>1. DialogInv /\ Linked(Placed) /\ WorkersInv
    BY DEF SharedInv, WorldInv
  <2>2. \A c \in Calls, ch \in Channels : <<c, ch>> \in Placed => c \in Existing(ch)
    BY DEF Placed, Existing
  <2>3. ASSUME NEW ch \in Channels, NEW w \in Workers,
               NEW c \in Calls \cap {fs[ch].cid, owner[ch], adm[w][ch].call}
        PROVE  c \in Existing(ch)
    BY <2>1, <2>2 DEF Linked, WorkersInv
  <2>4. \A c \in Calls : binding[c] \in Channels => c \in Existing(binding[c])
    BY <2>1, <2>2 DEF Linked
  <2> QED
    BY <2>1, <2>3, <2>4 DEF DialogsStayApart, DialogInv
<1> QED
  BY SharedInvInit, SharedInvStep, <1>1, PTL DEF Spec

(***************************************************************************)
(* One worker.                                                             *)
(*                                                                         *)
(* With a second worker the compensation of one admission releases leases  *)
(* another admission of the same dialog relies on; the theorems of this    *)
(* part are about a deployment with one.                                   *)
(***************************************************************************)
\* The admission of a channel.
A(ch) == adm[Handler][ch]

Early    == {"none", "lookup", "acquireOrg", "acquireTrunk", "create"}
PlacedPc == {"attribute", "bindOrg", "bindTrunk", "bind", "setCallID", "admitted"}

\* Steps at which a lease is named by the channel, or already by the call.
OrgByChannel   == {"acquireTrunk", "create", "attribute", "bindOrg"}
TrunkByChannel == {"create", "attribute", "bindOrg", "bindTrunk"}
OrgByCall      == {"bindTrunk", "bind", "setCallID", "admitted"}
TrunkByCall    == {"bind", "setCallID", "admitted"}

\* An admission works on the row of its dialog, which does not end under it
\* while its channel is up.
AdmPlace(ch) ==
    /\ A(ch).pc \notin {"reuse", "refreshOrg", "refreshTrunk"}
    /\ \A i \in 1..Len(A(ch).undo) : A(ch).undo[i] # "reuse"
    /\ A(ch).pc \in Early => A(ch).call = NoCall /\ Existing(ch) = {}
    /\ A(ch).call \in Calls => row[A(ch).call].sip = ch
    /\ A(ch).pc \in PlacedPc => A(ch).call \in Calls
    /\ A(ch).pc \in PlacedPc \ {"attribute"} => row[A(ch).call].trunk
    /\ A(ch).pc \in PlacedPc /\ fs[ch].st # "gone" => ~Over(A(ch).call)
    /\ fs[ch].cid \in Calls => A(ch).pc = "admitted" /\ A(ch).call = fs[ch].cid

\* It has the leases its step has reached, under the name they have there.
AdmHolds(ch) ==
    /\ A(ch).pc \in OrgByChannel => ch \in orgLease
    /\ A(ch).pc \in TrunkByChannel => ch \in trunkLease
    /\ A(ch).pc \in OrgByCall /\ ~Over(A(ch).call) => A(ch).call \in orgLease
    /\ A(ch).pc \in TrunkByCall /\ ~Over(A(ch).call) => A(ch).call \in trunkLease
    /\ A(ch).pc \in {"setCallID", "admitted"} /\ ~Over(A(ch).call) => binding[A(ch).call] = ch
    /\ A(ch).pc \in {"none", "lookup", "acquireOrg"} => ch \notin orgLease
    /\ A(ch).pc \in {"none", "lookup", "acquireOrg", "acquireTrunk"} => ch \notin trunkLease

AdmissionInv == \A ch \in Channels : AdmPlace(ch) /\ AdmHolds(ch)
SoloInv == SharedInv /\ AdmissionInv

\* The invariant holds at the start.
LEMMA SoloInvInit == Init => SoloInv
<1> SUFFICES ASSUME Init PROVE SoloInv
  OBVIOUS
<1>1. SharedInv
  BY SharedInvInit
<1>4. ASSUME NEW ch \in Channels PROVE AdmPlace(ch) /\ AdmHolds(ch)
  <2>1. A(ch) = IdleAdm /\ fs[ch].cid = NoCall /\ orgLease = {} /\ trunkLease = {}
    BY InboundAssumption DEF Init, CoreInit, A
  <2>2. A(ch).pc = "none" /\ A(ch).call = NoCall /\ A(ch).undo = << >>
    BY <2>1 DEF IdleAdm
  <2>3. Existing(ch) = {}
    BY DEF Init, CoreInit, NoRow, Existing
  <2> QED
    BY <2>1, <2>2, <2>3, CallAssumption
    DEF AdmPlace, AdmHolds, Early, PlacedPc, OrgByChannel, TrunkByChannel, OrgByCall, TrunkByCall
<1> QED
  BY <1>1, <1>4 DEF SoloInv, SharedInv, AdmissionInv

\* A call in progress is ended by the hangup of its channel only.
LEMMA RuntimeEndsGone ==
    ASSUME SoloInv, CoreStep, NEW c \in Calls, NEW ch \in Channels, <<c, ch>> \in Placed,
           ~Over(c), fs'[ch].st # "gone"
    PROVE  ~Over(c)'
<1>0. CoreInv /\ DialogInv /\ HangupInv /\ Linked(Placed)
  BY DEF SoloInv, SharedInv, TypeInv, WorldInv
<1>1. SUFFICES ASSUME Over(c)' PROVE FALSE
  OBVIOUS
<1>2. PICK u \in Channels : lc[u].pc = "transition" /\ lc[u].call = c /\ lc[u].ev \in TerminalEvent
  BY <1>0, <1>1, CoreStepOver
<1>3. u = ch
  BY <1>0, <1>2, OneRowPerDialog DEF Linked
<1>4. fs[ch].st = "gone"
  BY <1>0, <1>2, <1>3 DEF HangupInv, NoEarlyHangup
<1> QED
  BY <1>0, <1>4, CoreStepStates

\* Leases named by a channel are taken by its admission only.
LEMMA RuntimeNamesCalls ==
    ASSUME CoreInv, CoreStep, NEW ch \in Channels
    PROVE  /\ ch \in orgLease' => ch \in orgLease
           /\ ch \in trunkLease' => ch \in trunkLease
<1>0. job \in Job /\ ch \notin Calls
  BY CallAssumption DEF CoreInv, CoreTypeOK
<1>1. ASSUME NEW u \in Channels, lc[u].pc # "idle" PROVE lc[u].call # ch
  BY <1>0, <1>1 DEF CoreInv, LcHasCall
<1>2. /\ \A c \in job.calls : c # ch
      /\ job.pc = "refreshOrg" => job.call # ch
  BY <1>0 DEF Job, CoreInv, JobHasCall
<1>3. \A pc, c, t : CleanupStep(pc, c, t) => orgLease' \subseteq orgLease /\ trunkLease' \subseteq trunkLease
  BY DEF CleanupStep, Released
<1> QED
  BY <1>1, <1>2, <1>3, CoreStepLeases

\* The runtime keeps what the admissions rely on.
LEMMA AdmissionRuntime ==
    ASSUME SoloInv, CoreStep, UNCHANGED adm PROVE AdmissionInv'
<1> SUFFICES ASSUME NEW ch \in Channels PROVE AdmPlace(ch)' /\ AdmHolds(ch)'
  BY DEF AdmissionInv
<1>0. /\ CoreInv /\ AdmInv /\ RowInv /\ DialogInv /\ CleanupInv /\ Linked(Placed)
      /\ AdmPlace(ch) /\ AdmHolds(ch) /\ A(ch)' = A(ch) /\ A(ch) \in Adm /\ SharedInv
  BY InboundAssumption DEF SoloInv, SharedInv, TypeInv, WorldInv, AdmissionInv, A, AdmInv
<1> DEFINE c == A(ch).call
<1>1. c \in Calls => <<c, ch>> \in Placed
  BY <1>0, InboundAssumption DEF AdmPlace, RowInv, Placed, A
<1>2. /\ \A d \in Calls : row'[d].trunk = row[d].trunk
      /\ Existing(ch)' = Existing(ch) /\ Placed' = Placed
      /\ fs'[ch].cid = fs[ch].cid
  BY <1>0, CoreStepKeepsIdentity, DialogRuntime, CoreStepKeepsCid
<1>3. fs[ch].st = "gone" => fs'[ch].st = "gone"
  BY <1>0, CoreStepStates
<1>4. c \in Calls => (Over(c) => Over(c)') /\ (~Over(c) /\ fs'[ch].st # "gone" => ~Over(c)')
  BY <1>0, <1>1, CoreStepOver, RuntimeEndsGone
<1>5. c \in Calls => row'[c].sip = ch
  BY <1>1, <1>2 DEF Placed
<1>6. AdmPlace(ch)'
  BY <1>0, <1>2, <1>3, <1>4, <1>5 DEF AdmPlace, PlacedPc, Over
<1>7. /\ ch \in orgLease' <=> ch \in orgLease
      /\ ch \in trunkLease' <=> ch \in trunkLease
  BY <1>0, RuntimeNamesCalls, CoreStepKeepsLeases, CallAssumption
<1>8. c \in Calls /\ ~Over(c) => /\ c \in orgLease => c \in orgLease'
                                 /\ c \in trunkLease => c \in trunkLease'
                                 /\ binding[c] = ch => binding'[c] = ch
  BY <1>0, <1>1, CoreStepKeepsLeases, CoreStepKeepsBinding, OneRowPerDialog
<1>9. c \in Calls /\ ~Over(c)' => ~Over(c)
  BY <1>4
<1>10. OrgByCall \cup TrunkByCall \subseteq PlacedPc
  BY DEF OrgByCall, TrunkByCall, PlacedPc
<1>11. AdmHolds(ch)'
  <2>1. A(ch).pc \in OrgByCall \cup TrunkByCall \cup {"setCallID", "admitted"} => c \in Calls
    BY <1>0, <1>10 DEF AdmPlace, PlacedPc
  <2> QED
    BY <1>0, <1>7, <1>8, <1>9, <2>1 DEF AdmHolds, Over
<1> QED
  BY <1>6, <1>11

\* An admission goes on with its call, or gives up.
Goes(ch, from, to) ==
    /\ A(ch).pc = from /\ A(ch)'.pc = to
    /\ A(ch)'.call = A(ch).call /\ A(ch)'.undo = A(ch).undo
GivesUp(ch) ==
    /\ A(ch).pc \notin {"none", "admitted", "rejected"} /\ A(ch)'.pc \in {"undo", "rejected"}
    /\ A(ch)'.call = A(ch).call
    /\ \A i \in 1..Len(A(ch)'.undo) : A(ch)'.undo[i] # "reuse"

\* No list of an error returns to the call.
LEMMA ErrorLists ==
    ASSUME NEW u \in {<<"hangup">>, <<"orgByChannel", "hangup">>,
                      <<"trunkByChannel", "orgByChannel", "hangup">>,
                      AfterBindOrgError, AfterBindTrunkError, AfterChannelError}
    PROVE  u \in Seq(Undo) /\ \A i \in 1..Len(u) : u[i] # "reuse"
<1>1. /\ "hangup" \in Undo /\ "reuse" \in Undo /\ "orgByChannel" \in Undo /\ "trunkByChannel" \in Undo
      /\ "markFailed" \in Undo /\ "trunkByCall" \in Undo /\ "orgByCall" \in Undo
  BY DEF Undo
<1>2. CASE u = <<"hangup">>
  BY <1>1, <1>2
<1>3. CASE u = <<"orgByChannel", "hangup">>
  BY <1>1, <1>3
<1>4. CASE u = <<"trunkByChannel", "orgByChannel", "hangup">>
  BY <1>1, <1>4
<1>5. CASE u = AfterBindOrgError
  BY <1>1, <1>5 DEF AfterBindOrgError
<1>6. CASE u = AfterBindTrunkError
  BY <1>1, <1>6 DEF AfterBindTrunkError
<1>7. CASE u = AfterChannelError
  BY <1>1, <1>7 DEF AfterChannelError
<1> QED
  BY <1>2, <1>3, <1>4, <1>5, <1>6, <1>7

\* The steps an admission that runs alone takes.
LEMMA SoloMoves ==
    ASSUME SoloInv, NEW ch \in Channels, AdmitStep(Handler, ch) \/ AdmitFailure(Handler, ch)
    PROVE  \/ GivesUp(ch)
           \/ /\ Goes(ch, "lookup", "acquireOrg")
              /\ UNCHANGED <<row, orgLease, trunkLease, binding, fs>>
           \/ /\ Goes(ch, "acquireOrg", "acquireTrunk") /\ CanAcquire(orgLease, ch, OrgLimit)
              /\ orgLease' = orgLease \cup {ch} /\ UNCHANGED <<row, trunkLease, binding, fs>>
           \/ /\ Goes(ch, "acquireTrunk", "create") /\ CanAcquire(trunkLease, ch, TrunkLimit)
              /\ trunkLease' = trunkLease \cup {ch} /\ UNCHANGED <<row, orgLease, binding, fs>>
           \/ /\ A(ch).pc = "create" /\ A(ch)'.pc = "attribute" /\ A(ch)'.undo = A(ch).undo
              /\ A(ch)'.call \in Calls /\ row[A(ch)'.call].state = "none"
              /\ row' = [row EXCEPT ![A(ch)'.call] = [NoRow EXCEPT !.state = "ringing", !.sip = ch]]
              /\ UNCHANGED <<orgLease, trunkLease, binding, fs>>
           \/ /\ Goes(ch, "attribute", "bindOrg") /\ row' = [row EXCEPT ![A(ch).call].trunk = TRUE]
              /\ UNCHANGED <<orgLease, trunkLease, binding, fs>>
           \/ /\ Goes(ch, "bindOrg", "bindTrunk") /\ orgLease' = (orgLease \ {ch}) \cup {A(ch).call}
              /\ UNCHANGED <<row, trunkLease, binding, fs>>
           \/ /\ Goes(ch, "bindTrunk", "bind") /\ trunkLease' = (trunkLease \ {ch}) \cup {A(ch).call}
              /\ UNCHANGED <<row, orgLease, binding, fs>>
           \/ /\ Goes(ch, "bind", "setCallID") /\ ChannelBind(A(ch).call, ch)
              /\ UNCHANGED <<row, orgLease, trunkLease, fs>>
           \/ /\ Goes(ch, "setCallID", "admitted") /\ fs' = [fs EXCEPT ![ch].cid = A(ch).call]
              /\ UNCHANGED <<row, orgLease, trunkLease, binding>>
<1>0. /\ AdmInv /\ AdmPlace(ch) /\ A(ch) \in Adm /\ Handler \in Workers
      /\ A(ch).pc \in CallPc => A(ch).call \in Calls
  BY InboundAssumption DEF SoloInv, SharedInv, TypeInv, AdmissionInv, A, AdmInv, AdmOK
<1>1. ASSUME NEW pc \in AdmPc, Goto(Handler, ch, pc)
      PROVE  A(ch)'.pc = pc /\ A(ch)'.call = A(ch).call /\ A(ch)'.undo = A(ch).undo
  <2>1. Moved(Handler, ch, pc, adm[Handler][ch].call, adm[Handler][ch].new, adm[Handler][ch].undo)
    BY <1>0, <1>1, GotoMoves
  <2> QED
    BY <2>1 DEF Moved, A
<1>2. ASSUME NEW u \in {<<"hangup">>, <<"orgByChannel", "hangup">>,
                        <<"trunkByChannel", "orgByChannel", "hangup">>,
                        AfterBindOrgError, AfterBindTrunkError, AfterChannelError},
             UndoBy(Handler, ch, u), A(ch).pc \notin {"none", "admitted", "rejected"}
      PROVE  GivesUp(ch)
  <2>1. u \in Seq(Undo) /\ \A i \in 1..Len(u) : u[i] # "reuse"
    BY ErrorLists
  <2>2. A(ch)'.pc = "undo" /\ A(ch)'.call = A(ch).call /\ A(ch)'.undo = u
    <3>1. Moved(Handler, ch, "undo", adm[Handler][ch].call, adm[Handler][ch].new, u)
      BY <1>0, <1>2, <2>1, UndoMoves
    <3> QED
      BY <3>1 DEF Moved, A
  <2> QED
    BY <1>2, <2>1, <2>2 DEF GivesUp
<1>3. CASE Lookup(Handler, ch)
  <2>1. A(ch).pc = "lookup" /\ Existing(ch) = {}
    BY <1>0, <1>3 DEF Lookup, At, AdmPlace, Early, A
  <2>2. Goto(Handler, ch, "acquireOrg") \/ UndoBy(Handler, ch, <<"hangup">>)
    BY <1>3, <2>1 DEF Lookup
  <2>3. UNCHANGED <<row, orgLease, trunkLease, binding, fs>>
    BY <1>3 DEF Lookup, dbVars, redisVars, fsVars
  <2> QED
    BY <1>1, <1>2, <2>1, <2>2, <2>3 DEF Goes, AdmPc
<1>4. CASE AcquireOrg(Handler, ch)
  <2>1. A(ch).pc = "acquireOrg" /\ UNCHANGED <<row, trunkLease, binding, fs>>
    BY <1>4 DEF AcquireOrg, At, A, dbVars, fsVars
  <2>2. \/ /\ CanAcquire(orgLease, ch, OrgLimit) /\ orgLease' = orgLease \cup {ch}
           /\ Goto(Handler, ch, "acquireTrunk")
        \/ UndoBy(Handler, ch, <<"hangup">>)
    BY <1>4 DEF AcquireOrg, Acquired
  <2> QED
    BY <1>1, <1>2, <2>1, <2>2 DEF Goes, AdmPc
<1>5. CASE AcquireTrunk(Handler, ch)
  <2>1. A(ch).pc = "acquireTrunk" /\ UNCHANGED <<row, orgLease, binding, fs>>
    BY <1>5 DEF AcquireTrunk, At, A, dbVars, fsVars
  <2>2. \/ /\ CanAcquire(trunkLease, ch, TrunkLimit) /\ trunkLease' = trunkLease \cup {ch}
           /\ Goto(Handler, ch, "create")
        \/ UndoBy(Handler, ch, <<"orgByChannel", "hangup">>)
    BY <1>5 DEF AcquireTrunk, Acquired
  <2> QED
    BY <1>1, <1>2, <2>1, <2>2 DEF Goes, AdmPc
<1>6. CASE CreateInbound(Handler, ch)
  <2>1. A(ch).pc = "create" /\ Existing(ch) = {}
    BY <1>0, <1>6 DEF CreateInbound, At, AdmPlace, Early, A
  <2>2. PICK c \in Calls :
           /\ row[c].state = "none"
           /\ row' = [row EXCEPT ![c] = [NoRow EXCEPT !.state = "ringing", !.sip = ch]]
           /\ adm' = [adm EXCEPT ![Handler][ch] = [@ EXCEPT !.pc = "attribute", !.call = c, !.new = TRUE]]
    BY <1>6, <2>1 DEF CreateInbound
  <2>3. Moved(Handler, ch, "attribute", c, TRUE, A(ch).undo)
    <3> DEFINE a == adm[Handler][ch]
    <3>0. a \in Adm
      BY <1>0 DEF A
    <3>1. [a EXCEPT !.pc = "attribute", !.call = c, !.new = TRUE] =
            [pc |-> "attribute", call |-> c, new |-> TRUE, undo |-> a.undo]
      <4> HIDE DEF a
      <4> QED
        BY <3>0, AdmCallSet
    <3>2. a.undo \in Seq(Undo) /\ "attribute" \in AdmPc
      BY <3>0 DEF Adm, AdmPc
    <3>3. adm' = [adm EXCEPT ![Handler] = [adm[Handler] EXCEPT ![ch] =
             [pc |-> "attribute", call |-> c, new |-> TRUE, undo |-> a.undo]]]
      BY <2>2, <3>1
    <3> QED
      BY <1>0, <3>2, <3>3, AdmWrite DEF A
  <2>4. A(ch)'.pc = "attribute" /\ A(ch)'.call = c /\ A(ch)'.undo = A(ch).undo
    BY <2>3 DEF Moved, A
  <2>5. UNCHANGED <<orgLease, trunkLease, binding, fs>>
    BY <1>6 DEF CreateInbound, redisVars, fsVars
  <2> QED
    BY <2>1, <2>2, <2>4, <2>5
<1>7. CASE Attribute(Handler, ch)
  <2>1. /\ A(ch).pc = "attribute" /\ UNCHANGED <<orgLease, trunkLease, binding, fs>>
        /\ row' = [row EXCEPT ![A(ch).call].trunk = TRUE] /\ Goto(Handler, ch, "bindOrg")
    BY <1>7 DEF Attribute, At, A, redisVars, fsVars
  <2> QED
    BY <1>1, <2>1 DEF Goes, AdmPc
<1>8. CASE BindOrg(Handler, ch)
  <2>1. A(ch).pc = "bindOrg" /\ UNCHANGED <<row, trunkLease, binding, fs>>
    BY <1>8 DEF BindOrg, At, A, dbVars, fsVars
  <2>2. \/ orgLease' = (orgLease \ {ch}) \cup {A(ch).call} /\ Goto(Handler, ch, "bindTrunk")
        \/ UndoBy(Handler, ch, AfterBindOrgError)
    BY <1>8 DEF BindOrg, BoundLease, A
  <2> QED
    BY <1>1, <1>2, <2>1, <2>2 DEF Goes, AdmPc
<1>9. CASE BindTrunk(Handler, ch)
  <2>1. A(ch).pc = "bindTrunk" /\ UNCHANGED <<row, orgLease, binding, fs>>
    BY <1>9 DEF BindTrunk, At, A, dbVars, fsVars
  <2>2. \/ trunkLease' = (trunkLease \ {ch}) \cup {A(ch).call} /\ Goto(Handler, ch, "bind")
        \/ UndoBy(Handler, ch, AfterBindTrunkError)
    BY <1>9 DEF BindTrunk, BoundLease, A
  <2> QED
    BY <1>1, <1>2, <2>1, <2>2 DEF Goes, AdmPc
<1>10. CASE Reuse(Handler, ch) \/ RefreshOrg(Handler, ch) \/ RefreshTrunk(Handler, ch)
  BY <1>0, <1>10 DEF Reuse, RefreshOrg, RefreshTrunk, At, AdmPlace, A
<1>11. CASE Bind(Handler, ch)
  <2>1. /\ A(ch).pc = "bind" /\ UNCHANGED <<row, orgLease, trunkLease, fs>>
        /\ ChannelBind(A(ch).call, ch) /\ Goto(Handler, ch, "setCallID")
    BY <1>11 DEF Bind, At, A, dbVars, fsVars
  <2> QED
    BY <1>1, <2>1 DEF Goes, AdmPc
<1>12. CASE SetCallID(Handler, ch)
  <2>1. A(ch).pc = "setCallID" /\ UNCHANGED <<row, orgLease, trunkLease>>
    BY <1>12 DEF SetCallID, At, A, dbVars
  <2>2. \/ /\ fs' = [fs EXCEPT ![ch].cid = A(ch).call] /\ binding' = binding
           /\ Goto(Handler, ch, "admitted")
        \/ UndoBy(Handler, ch, AfterChannelError) \/ UndoBy(Handler, ch, <<"hangup">>)
    BY <1>12 DEF SetCallID, UndoBinding, A
  <2> QED
    BY <1>1, <1>2, <2>1, <2>2 DEF Goes, AdmPc
<1>13. CASE At(Handler, ch, "undo") /\ Compensated(Handler, ch)
  <2>1. Moved(Handler, ch, AfterUndo(Head(A(ch).undo)), A(ch).call, A(ch).new, Tail(A(ch).undo))
    BY <1>0, <1>13, CompensatedMoves DEF A
  <2>2. EndsOnce(A(ch).undo) /\ 1 \in 1..Len(A(ch).undo)
    BY <1>0, <1>13 DEF AdmInv, AdmOK, At, A, EndsOnce
  <2>3. \A i \in 1..Len(A(ch).undo) : A(ch).undo[i] # "reuse"
    BY <1>0 DEF AdmPlace
  <2>4. Head(A(ch).undo) # "reuse" /\ \A i \in 1..Len(Tail(A(ch).undo)) : Tail(A(ch).undo)[i] # "reuse"
    BY <2>2, <2>3, UndoHead
  <2>5. /\ A(ch)'.pc = AfterUndo(Head(A(ch).undo)) /\ A(ch)'.call = A(ch).call
        /\ A(ch)'.undo = Tail(A(ch).undo)
    BY <2>1 DEF Moved, A
  <2> QED
    BY <1>13, <2>4, <2>5 DEF GivesUp, AfterUndo, At, A
<1>14. CASE AdmitFault(Handler, ch)
  <2>1. /\ UndoBy(Handler, ch, OnError(A(ch).pc, A(ch).new))
        /\ A(ch).pc \in AdmPc \ {"none", "undo", "admitted", "rejected"}
    BY <1>0, <1>14 DEF AdmitFault, Adm, A
  <2>2. OnError(A(ch).pc, A(ch).new) \in
           {<<"hangup">>, <<"orgByChannel", "hangup">>, <<"trunkByChannel", "orgByChannel", "hangup">>,
            AfterBindOrgError, AfterBindTrunkError, AfterChannelError}
    BY <2>1 DEF OnError, AdmPc
  <2> QED
    BY <1>2, <2>1, <2>2
<1> QED
  BY <1>3, <1>4, <1>5, <1>6, <1>7, <1>8, <1>9, <1>10, <1>11, <1>12, <1>13, <1>14
  DEF AdmitStep, AdmitFailure, UndoStep, UndoFault

\* The admission itself goes from what one of its steps needs to what the next
\* one needs.
LEMMA OwnAdmission ==
    ASSUME SoloInv, NEW ch \in Channels, AdmitStep(Handler, ch) \/ AdmitFailure(Handler, ch)
    PROVE  AdmPlace(ch)' /\ AdmHolds(ch)'
<1> DEFINE c == A(ch).call
           d == A(ch)'.call
           next == A(ch)'.pc
<1>0. /\ TypeInv /\ CoreTypeOK /\ AdmPlace(ch) /\ AdmHolds(ch) /\ Handler \in Workers /\ AdmInv
      /\ A(ch) \in Adm /\ adm[Handler][ch] = A(ch)
      /\ row \in [Calls -> Row] /\ binding \in [Calls -> Channels \cup {NoChannel}]
      /\ fs \in [Channels -> [st: FsState, cid: Calls \cup {NoCall}]]
  BY InboundAssumption DEF SoloInv, SharedInv, AdmissionInv, TypeInv, CoreInv, CoreTypeOK, AdmInv, A
<1>1. c \in Calls => row[c].state # "none" /\ row[c].sip = ch
  BY <1>0 DEF TypeInv, RowInv, AdmPlace, A
<1>2. ASSUME row' = row
      PROVE  Existing(ch)' = Existing(ch) /\ \A x : Over(x)' = Over(x)
  BY <1>2 DEF Existing, Over
<1>3. CASE GivesUp(ch)
  <2>1. fs'[ch].cid = fs[ch].cid
    <3>1. CASE fs' = fs
      BY <3>1
    <3>2. ASSUME Goto(Handler, ch, "admitted") PROVE FALSE
      <4>1. Moved(Handler, ch, "admitted", adm[Handler][ch].call, adm[Handler][ch].new, adm[Handler][ch].undo)
        BY <1>0, <3>2, GotoMoves DEF AdmPc, CallPc
      <4> QED
        BY <1>3, <4>1 DEF Moved, A, GivesUp
    <3>3. ASSUME NEW e, Emit(ch, "gone", e) PROVE fs'[ch].cid = fs[ch].cid
      BY <1>0, <3>3 DEF Emit
    <3> QED
      BY <1>0, <3>1, <3>2, <3>3, AdmitChannels
  <2>2. d \in Calls => row'[d].sip = ch
    BY <1>0, <1>1, <1>3, AdmitKeepsDialogs DEF GivesUp
  <2>3. fs'[ch].cid \notin Calls
    BY <1>0, <1>3, <2>1 DEF GivesUp, AdmPlace
  <2>4. next \in {"undo", "rejected"} /\ \A i \in 1..Len(A(ch)'.undo) : A(ch)'.undo[i] # "reuse"
    BY <1>3 DEF GivesUp
  <2>5. AdmPlace(ch)'
    BY <2>2, <2>3, <2>4 DEF AdmPlace, Early, PlacedPc
  <2>6. AdmHolds(ch)'
    BY <2>4 DEF AdmHolds, OrgByChannel, TrunkByChannel, OrgByCall, TrunkByCall
  <2> QED
    BY <2>5, <2>6
<1>4. CASE /\ Goes(ch, "lookup", "acquireOrg")
           /\ UNCHANGED <<row, orgLease, trunkLease, binding, fs>>
  <2>1. AdmPlace(ch)'
    BY <1>0, <1>2, <1>4 DEF Goes, AdmPlace, Early, PlacedPc
  <2>2. AdmHolds(ch)'
    BY <1>0, <1>4 DEF Goes, AdmHolds, OrgByChannel, TrunkByChannel, OrgByCall, TrunkByCall
  <2> QED
    BY <2>1, <2>2
<1>5. CASE /\ Goes(ch, "acquireOrg", "acquireTrunk") /\ CanAcquire(orgLease, ch, OrgLimit)
           /\ orgLease' = orgLease \cup {ch} /\ UNCHANGED <<row, trunkLease, binding, fs>>
  <2>1. AdmPlace(ch)'
    BY <1>0, <1>2, <1>5 DEF Goes, AdmPlace, Early, PlacedPc
  <2>2. AdmHolds(ch)'
    BY <1>0, <1>5 DEF Goes, AdmHolds, OrgByChannel, TrunkByChannel, OrgByCall, TrunkByCall
  <2> QED
    BY <2>1, <2>2
<1>6. CASE /\ Goes(ch, "acquireTrunk", "create") /\ CanAcquire(trunkLease, ch, TrunkLimit)
           /\ trunkLease' = trunkLease \cup {ch} /\ UNCHANGED <<row, orgLease, binding, fs>>
  <2>1. AdmPlace(ch)'
    BY <1>0, <1>2, <1>6 DEF Goes, AdmPlace, Early, PlacedPc
  <2>2. AdmHolds(ch)'
    BY <1>0, <1>6 DEF Goes, AdmHolds, OrgByChannel, TrunkByChannel, OrgByCall, TrunkByCall
  <2> QED
    BY <2>1, <2>2
<1>7. CASE /\ A(ch).pc = "create" /\ A(ch)'.pc = "attribute" /\ A(ch)'.undo = A(ch).undo
           /\ A(ch)'.call \in Calls /\ row[A(ch)'.call].state = "none"
           /\ row' = [row EXCEPT ![A(ch)'.call] = [NoRow EXCEPT !.state = "ringing", !.sip = ch]]
           /\ UNCHANGED <<orgLease, trunkLease, binding, fs>>
  <2>1. row'[d].sip = ch /\ row'[d].state = "ringing"
    BY <1>0, <1>7, NewRow
  <2>2. ~isTerminalState(row'[d].state)
    BY <2>1 DEF isTerminalState, TerminalState
  <2>3. AdmPlace(ch)'
    BY <1>0, <1>7, <2>1, <2>2 DEF AdmPlace, Early, PlacedPc, Over
  <2>4. AdmHolds(ch)'
    BY <1>0, <1>7 DEF AdmHolds, OrgByChannel, TrunkByChannel, OrgByCall, TrunkByCall
  <2> QED
    BY <2>3, <2>4
<1>8. CASE /\ Goes(ch, "attribute", "bindOrg") /\ row' = [row EXCEPT ![A(ch).call].trunk = TRUE]
           /\ UNCHANGED <<orgLease, trunkLease, binding, fs>>
  <2>0. c \in Calls /\ A(ch).pc = "attribute" /\ A(ch)'.pc = "bindOrg" /\ d = c /\ A(ch)'.undo = A(ch).undo
    BY <1>0, <1>8 DEF Goes, AdmPlace, PlacedPc
  <2>1. row'[c].sip = ch /\ row'[c].trunk /\ row'[c].state = row[c].state
    BY <1>0, <1>1, <1>8, <2>0, TrunkSet
  <2>3. AdmPlace(ch)'
    BY <1>0, <1>8, <2>0, <2>1 DEF AdmPlace, Early, PlacedPc, Over
  <2>4. AdmHolds(ch)'
    BY <1>0, <1>8, <2>0 DEF AdmHolds, OrgByChannel, TrunkByChannel, OrgByCall, TrunkByCall
  <2> QED
    BY <2>3, <2>4
<1>9. CASE /\ Goes(ch, "bindOrg", "bindTrunk") /\ orgLease' = (orgLease \ {ch}) \cup {A(ch).call}
           /\ UNCHANGED <<row, trunkLease, binding, fs>>
  <2>1. AdmPlace(ch)'
    BY <1>0, <1>2, <1>9 DEF Goes, AdmPlace, Early, PlacedPc, Over
  <2>2. AdmHolds(ch)'
    BY <1>0, <1>9 DEF Goes, AdmHolds, OrgByChannel, TrunkByChannel, OrgByCall, TrunkByCall
  <2> QED
    BY <2>1, <2>2
<1>10. CASE /\ Goes(ch, "bindTrunk", "bind") /\ trunkLease' = (trunkLease \ {ch}) \cup {A(ch).call}
            /\ UNCHANGED <<row, orgLease, binding, fs>>
  <2>1. AdmPlace(ch)'
    BY <1>0, <1>2, <1>10 DEF Goes, AdmPlace, Early, PlacedPc, Over
  <2>2. AdmHolds(ch)'
    BY <1>0, <1>2, <1>10 DEF Goes, AdmHolds, OrgByChannel, TrunkByChannel, OrgByCall, TrunkByCall, Over
  <2> QED
    BY <2>1, <2>2
<1>11. CASE /\ Goes(ch, "bind", "setCallID") /\ ChannelBind(A(ch).call, ch)
            /\ UNCHANGED <<row, orgLease, trunkLease, fs>>
  <2>0. c \in Calls
    BY <1>0, <1>11 DEF Goes, AdmPlace, PlacedPc
  <2>1. AdmPlace(ch)'
    BY <1>0, <1>2, <1>11 DEF Goes, AdmPlace, Early, PlacedPc, Over
  <2>2. binding'[c] = ch
    BY <1>0, <1>11, <2>0 DEF ChannelBind
  <2>3. AdmHolds(ch)'
    BY <1>0, <1>2, <1>11, <2>2
    DEF Goes, AdmHolds, OrgByChannel, TrunkByChannel, OrgByCall, TrunkByCall, Over
  <2> QED
    BY <2>1, <2>3
<1>12. CASE /\ Goes(ch, "setCallID", "admitted") /\ fs' = [fs EXCEPT ![ch].cid = A(ch).call]
            /\ UNCHANGED <<row, orgLease, trunkLease, binding>>
  <2>1. fs'[ch].cid = c /\ fs'[ch].st = fs[ch].st
    BY <1>0, <1>12
  <2>2. AdmPlace(ch)'
    BY <1>0, <1>2, <1>12, <2>1 DEF Goes, AdmPlace, Early, PlacedPc, Over
  <2>3. AdmHolds(ch)'
    BY <1>0, <1>2, <1>12 DEF Goes, AdmHolds, OrgByChannel, TrunkByChannel, OrgByCall, TrunkByCall, Over
  <2> QED
    BY <2>2, <2>3
<1> QED
  BY <1>3, <1>4, <1>5, <1>6, <1>7, <1>8, <1>9, <1>10, <1>11, <1>12, SoloMoves, ZenonT(150)

\* The other admissions keep their rows, their leases and their bindings.
LEMMA OtherAdmission ==
    ASSUME SoloInv, NEW ch \in Channels, AdmitStep(Handler, ch) \/ AdmitFailure(Handler, ch),
           NEW x \in Channels, x # ch
    PROVE  AdmPlace(x)' /\ AdmHolds(x)'
<1> DEFINE c == A(ch).call
           e == A(x).call
<1>0. /\ SharedInv /\ TypeInv /\ CoreTypeOK /\ DialogInv /\ AdmPlace(ch) /\ AdmPlace(x) /\ AdmHolds(x)
      /\ Handler \in Workers /\ adm[Handler][ch] = A(ch) /\ A(ch) \in Adm /\ A(x) \in Adm
      /\ binding \in [Calls -> Channels \cup {NoChannel}]
      /\ fs \in [Channels -> [st: FsState, cid: Calls \cup {NoCall}]]
  BY InboundAssumption
  DEF SoloInv, SharedInv, WorldInv, AdmissionInv, TypeInv, CoreInv, CoreTypeOK, AdmInv, A
<1>1. A(x)' = A(x)
  BY <1>0, AdmitProgress DEF Progressed, A
<1>2. /\ c \in Calls => row[c].state # "none" /\ row[c].sip = ch
      /\ e \in Calls => row[e].state # "none" /\ row[e].sip = x
      /\ c \in Calls \cup {NoCall} /\ e \in Calls \cup {NoCall}
  BY <1>0 DEF TypeInv, RowInv, AdmPlace, A, Adm
<1>3. e \in Calls => e # c
  BY <1>2
<1>4. Existing(x)' = Existing(x)
  BY <1>0, DialogAdmit
<1>5. fs'[x] = fs[x]
  BY <1>0, AdmitChannels DEF Emit
<1> HIDE DEF c, e
<1>6. ASSUME e \in Calls
      PROVE  /\ row'[e].sip = x /\ (row[e].trunk => row'[e].trunk)
             /\ isTerminalState(row'[e].state) <=> Over(e)
  <2>1. \A d \in Calls : row[d].state # "none" =>
           /\ row'[d].sip = row[d].sip /\ (row[d].trunk => row'[d].trunk)
           /\ Over(d) => Over(d)'
           /\ Over(d)' => Over(d) \/ d = adm[Handler][ch].call
    BY <1>0, AdmitKeepsDialogs
  <2>2. adm[Handler][ch].call = c
    BY <1>0 DEF c
  <2> QED
    BY <1>2, <1>3, <1>6, <2>1, <2>2 DEF Over
<1>7. /\ x \in orgLease' <=> x \in orgLease
      /\ x \in trunkLease' <=> x \in trunkLease
      /\ e \in Calls /\ e \in orgLease => e \in orgLease'
      /\ e \in Calls /\ e \in trunkLease => e \in trunkLease'
  <2>1. c # x /\ (e \in Calls => e # ch)
    BY <1>2, CallAssumption, InboundAssumption
  <2>2. adm[Handler][ch].call = c
    BY <1>0 DEF c
  <2> QED
    BY <1>0, <1>3, <2>1, <2>2, AdmitLeases
<1>8. e \in Calls => binding'[e] = binding[e]
  <2>1. adm[Handler][ch].call = c
    BY <1>0 DEF c
  <2> QED
    BY <1>0, <1>3, <2>1, AdmitBindings DEF ChannelBind, ChannelDelete
<1>9. AdmPlace(x)'
  BY <1>0, <1>1, <1>4, <1>5, <1>6 DEF AdmPlace, PlacedPc, Over, e
<1>10. AdmHolds(x)'
  <2>1. A(x).pc \in OrgByCall \cup TrunkByCall \cup {"setCallID", "admitted"} => e \in Calls
    BY <1>0 DEF AdmPlace, PlacedPc, OrgByCall, TrunkByCall, e
  <2>2. e \in Calls => (Over(A(x).call)' <=> Over(A(x).call)) /\ binding'[e] = binding[e]
    BY <1>1, <1>6, <1>8 DEF Over, e
  <2> QED
    BY <1>0, <1>1, <1>7, <2>1, <2>2 DEF AdmHolds, e
<1> QED
  BY <1>9, <1>10

\* The steps in which no admission and no runtime component is at work.
LEMMA SoloArrive == ASSUME SoloInv, NEW ch \in Channels, FsArrive(ch) PROVE AdmissionInv'
<1>0. /\ TypeInv /\ AdmissionInv /\ Handler \in Workers
      /\ fs \in [Channels -> [st: FsState, cid: Calls \cup {NoCall}]]
  BY InboundAssumption DEF SoloInv, SharedInv, TypeInv, CoreInv, CoreTypeOK
<1>1. /\ UNCHANGED <<row, orgLease, trunkLease, binding>>
      /\ fs[ch].st = "none"
  BY DEF FsArrive, dbVars, redisVars
<1>2. \A x \in Channels : /\ fs'[x].cid = fs[x].cid
                          /\ fs'[x].st = "gone" <=> fs[x].st = "gone"
  <2>1. fs' = [fs EXCEPT ![ch] = [st |-> "created", cid |-> fs[ch].cid]]
    BY <1>0, ArriveAdm
  <2> QED
    BY <1>0, <1>1, <2>1
<1>3. \A x \in Channels : Existing(x)' = Existing(x)
  BY <1>1 DEF Existing
<1>4. ASSUME NEW x \in Channels PROVE AdmPlace(x)' /\ AdmHolds(x)'
  <2>0. AdmPlace(x) /\ AdmHolds(x)
    BY <1>0 DEF AdmissionInv
  <2>1. CASE A(x)' = A(x)
    <3>1. AdmPlace(x)'
      BY <1>1, <1>2, <1>3, <2>0, <2>1 DEF AdmPlace, Over
    <3>2. AdmHolds(x)'
      BY <1>1, <2>0, <2>1 DEF AdmHolds, Over
    <3> QED
      BY <3>1, <3>2
  <2>2. CASE A(x).pc = "none" /\ A(x)'.pc = "lookup" /\ A(x)'.call = A(x).call /\ A(x)'.undo = A(x).undo
    <3>1. AdmPlace(x)'
      BY <1>1, <1>2, <1>3, <2>0, <2>2 DEF AdmPlace, Early, PlacedPc
    <3>2. AdmHolds(x)'
      BY <1>1, <2>0, <2>2 DEF AdmHolds, OrgByChannel, TrunkByChannel, OrgByCall, TrunkByCall
    <3> QED
      BY <3>1, <3>2
  <2> QED
    BY <1>0, <2>1, <2>2, ArriveAdm DEF A
<1> QED
  BY <1>4 DEF AdmissionInv

\* The only worker restarts: its admissions end where they are, and the leases
\* they took are left to expire.
LEMMA SoloCrash ==
    ASSUME SoloInv, Workers = {Handler}, NEW w \in Workers, WorkerCrash(w)
    PROVE  AdmissionInv'
<1>0. TypeInv /\ AdmissionInv /\ AdmInv /\ Handler \in Workers /\ w = Handler
  BY DEF SoloInv, SharedInv, TypeInv
<1>1. WorkerRestart
  BY <1>0 DEF WorkerCrash
<1>2. UNCHANGED <<row, orgLease, trunkLease, binding, fs>>
  BY <1>1 DEF WorkerRestart, dbVars, redisVars
<1>3. ASSUME NEW x \in Channels PROVE AdmPlace(x)' /\ AdmHolds(x)'
  <2>0. AdmPlace(x) /\ AdmHolds(x) /\ Existing(x)' = Existing(x)
    BY <1>0, <1>2 DEF AdmissionInv, Existing
  <2>1. CASE A(x)' = A(x)
    <3>1. AdmPlace(x)'
      BY <1>2, <2>0, <2>1 DEF AdmPlace, Over
    <3>2. AdmHolds(x)'
      BY <1>2, <2>0, <2>1 DEF AdmHolds, Over
    <3> QED
      BY <3>1, <3>2
  <2>2. CASE /\ A(x).pc \notin {"none", "admitted", "rejected"} /\ A(x)'.pc = "rejected"
             /\ A(x)'.undo = << >> /\ A(x)'.call = A(x).call
    <3>1. AdmPlace(x)'
      BY <1>2, <2>0, <2>2 DEF AdmPlace, Early, PlacedPc
    <3>2. AdmHolds(x)'
      BY <2>2 DEF AdmHolds, OrgByChannel, TrunkByChannel, OrgByCall, TrunkByCall
    <3> QED
      BY <3>1, <3>2
  <2> QED
    BY <1>0, <2>1, <2>2, CrashAdm DEF A, Finished
<1> QED
  BY <1>3 DEF AdmissionInv

\* A lease expires when nothing needs it.
LEMMA SoloExpire == ASSUME SoloInv, NEW id, LeaseExpire(id) PROVE AdmissionInv'
<1>0. /\ TypeInv /\ AdmissionInv /\ Handler \in Workers
      /\ \A x \in Channels : A(x) \in Adm
      /\ row \in [Calls -> Row]
  BY InboundAssumption DEF SoloInv, SharedInv, TypeInv, CoreInv, CoreTypeOK, AdmInv, A
<1>1. /\ UNCHANGED <<row, binding, fs, adm>>
      /\ orgLease' = orgLease \ {id} /\ trunkLease' = trunkLease \ {id}
  BY DEF LeaseExpire, dbVars, fsVars
<1>2. ASSUME NEW x \in Channels PROVE AdmPlace(x)' /\ AdmHolds(x)'
  <2>0. AdmPlace(x) /\ AdmHolds(x) /\ A(x)' = A(x)
    BY <1>0, <1>1 DEF AdmissionInv, A
  <2>1. AdmPlace(x)'
    BY <1>1, <2>0 DEF AdmPlace, Over, Existing
  <2>2. A(x).pc \in OrgByChannel \cup TrunkByChannel => x # id
    BY <1>0 DEF LeaseExpire, Finished, A, OrgByChannel, TrunkByChannel
  <2>3. A(x).pc \in OrgByCall \cup TrunkByCall /\ ~Over(A(x).call) => A(x).call # id
    <3>1. CASE A(x).pc \in {"bindTrunk", "bind", "setCallID"}
      BY <1>0, <3>1 DEF LeaseExpire, Finished, A
    <3>2. CASE A(x).pc = "admitted" /\ ~Over(A(x).call)
      <4>1. A(x).call \in Calls /\ row[A(x).call].trunk
        BY <2>0, <3>2 DEF AdmPlace, PlacedPc
      <4>2. row[A(x).call].state \in CallState /\ row[A(x).call].state # "none"
        BY <1>0, <4>1 DEF TypeInv, RowInv, Row, A
      <4>3. A(x).call \in ActiveCalls
        BY <3>2, <4>1, <4>2 DEF ActiveCalls, Over, isTerminalState, CallState
      <4> QED
        BY <4>3 DEF LeaseExpire
    <3> QED
      BY <3>1, <3>2 DEF OrgByCall, TrunkByCall
  <2>4. AdmHolds(x)'
    BY <1>1, <2>0, <2>2, <2>3 DEF AdmHolds, Over
  <2> QED
    BY <2>1, <2>4
<1> QED
  BY <1>2 DEF AdmissionInv

\* The invariant of a deployment with one worker is inductive.
LEMMA SoloInvStep == ASSUME Workers = {Handler} PROVE SoloInv /\ [Next]_vars => SoloInv'
<1> SUFFICES ASSUME SoloInv, [Next]_vars PROVE SoloInv'
  OBVIOUS
<1>1. SharedInv'
  BY SharedInvStep DEF SoloInv
<1>2. ASSUME NEW ch \in Channels, AdmitStep(Handler, ch) \/ AdmitFailure(Handler, ch)
      PROVE  AdmissionInv'
  BY <1>2, OwnAdmission, OtherAdmission DEF AdmissionInv
<1>3. CASE InboundCore /\ UNCHANGED adm
  <2>1. CoreStep
    BY <1>3 DEF InboundCore, InboundLifecycle, CoreStep
  <2> QED
    BY <1>1, <1>3, <2>1, AdmissionRuntime DEF SoloInv
<1>4. CASE UNCHANGED vars
  <2>1. UNCHANGED <<row, orgLease, trunkLease, binding, fs, adm>>
    BY <1>4 DEF vars, coreVars, dbVars, redisVars, fsVars
  <2>2. AdmissionInv'
    BY <2>1 DEF SoloInv, AdmissionInv, AdmPlace, AdmHolds, A, Existing, Over
  <2> QED
    BY <1>1, <2>2 DEF SoloInv
<1> QED
  BY <1>1, <1>2, <1>3, <1>4, SoloArrive, SoloCrash, SoloExpire DEF Next, SoloInv

\* With one worker the dialogs, the leases and the bindings of the admissions
\* and of the admitted calls agree in every reachable state.
THEOREM SoloInductive == ASSUME Workers = {Handler} PROVE Spec => []SoloInv
BY SoloInvInit, SoloInvStep, PTL DEF Spec

\* With one worker a call in progress counts against both limits, whichever
\* remote call fails and wherever the worker restarts (bindInboundChannel).
THEOREM AdmittedAreCounted == ASSUME Workers = {Handler} PROVE Spec => []AdmittedHoldsLeases
<1>1. SoloInv => AdmittedHoldsLeases
  <2> SUFFICES ASSUME SoloInv, NEW ch \in Channels, NEW c \in Calls,
                      fs[ch].cid = c, row[c].state \in LiveState
               PROVE  c \in orgLease /\ c \in trunkLease
    BY DEF AdmittedHoldsLeases
  <2>1. AdmPlace(ch) /\ AdmHolds(ch)
    BY DEF SoloInv, SharedInv, AdmissionInv
  <2>2. A(ch).pc = "admitted" /\ A(ch).call = c /\ ~Over(c)
    BY <2>1 DEF AdmPlace, Over, isTerminalState, LiveState, TerminalState
  <2> QED
    BY <2>1, <2>2 DEF AdmHolds, OrgByCall, TrunkByCall
<1> QED
  BY SoloInductive, <1>1, PTL

\* With one worker a call in progress can be controlled through its channel.
THEOREM AdmittedAreReachable == ASSUME Workers = {Handler} PROVE Spec => []AdmittedIsReachable
<1>1. SoloInv => AdmittedIsReachable
  <2> SUFFICES ASSUME SoloInv, NEW ch \in Channels, NEW c \in Calls,
                      fs[ch].cid = c, row[c].state \in LiveState
               PROVE  binding[c] = ch
    BY DEF AdmittedIsReachable
  <2>1. AdmPlace(ch) /\ AdmHolds(ch)
    BY DEF SoloInv, SharedInv, AdmissionInv
  <2>2. A(ch).pc = "admitted" /\ A(ch).call = c /\ ~Over(c)
    BY <2>1 DEF AdmPlace, Over, isTerminalState, LiveState, TerminalState
  <2> QED
    BY <2>1, <2>2 DEF AdmHolds
<1> QED
  BY SoloInductive, <1>1, PTL

(***************************************************************************)
(* The limits                                                              *)
(***************************************************************************)
\* Admissions that have a lease of the organization, or of the trunk, and
\* whose call, when there is one, has not ended.
HoldPc        == {"acquireTrunk", "create"} \cup PlacedPc
Running(ch)   == A(ch).call \in Calls => ~Over(A(ch).call)
OrgHolds(ch)  == A(ch).pc \in HoldPc /\ Running(ch)
TrunkHolds(ch) == A(ch).pc \in HoldPc \ {"acquireTrunk"} /\ Running(ch)
OrgHolders    == {ch \in Channels : OrgHolds(ch)}
TrunkHolders  == {ch \in Channels : TrunkHolds(ch)}

CountInv ==
    /\ IsFiniteSet(orgLease) /\ IsFiniteSet(trunkLease)
    /\ Cardinality(OrgHolders) <= OrgLimit
    /\ Cardinality(TrunkHolders) <= TrunkLimit

\* The name of the lease, at every step of the admission.
OrgName(ch)   == IF A(ch).pc \in OrgByChannel THEN ch ELSE A(ch).call
TrunkName(ch) == IF A(ch).pc \in TrunkByChannel THEN ch ELSE A(ch).call

\* Nobody holds anything at the start.
LEMMA CountInvInit == Init => CountInv
<1> SUFFICES ASSUME Init PROVE CountInv
  OBVIOUS
<1>1. \A ch \in Channels : A(ch).pc = "none"
  BY InboundAssumption DEF Init, A, IdleAdm
<1>2. OrgHolders = {} /\ TrunkHolders = {}
  BY <1>1 DEF OrgHolders, TrunkHolders, OrgHolds, TrunkHolds, HoldPc, PlacedPc
<1> QED
  BY <1>2, FS_EmptySet, InboundAssumption DEF Init, CoreInit, CountInv

\* Every holder has a lease of its own.
LEMMA HoldersCount ==
    ASSUME SoloInv, CountInv
    PROVE  /\ IsFiniteSet(OrgHolders) /\ Cardinality(OrgHolders) <= Cardinality(orgLease)
           /\ IsFiniteSet(TrunkHolders) /\ Cardinality(TrunkHolders) <= Cardinality(trunkLease)
<1>0. /\ \A ch \in Channels : AdmPlace(ch) /\ AdmHolds(ch)
      /\ IsFiniteSet(orgLease) /\ IsFiniteSet(trunkLease)
  BY DEF SoloInv, SharedInv, AdmissionInv, CountInv
<1>1. \A ch \in Channels : A(ch).pc \in PlacedPc => A(ch).call \in Calls /\ row[A(ch).call].sip = ch
  BY <1>0 DEF AdmPlace
<1>2. ASSUME NEW ch \in OrgHolders
      PROVE  /\ OrgName(ch) \in orgLease
             /\ OrgName(ch) = ch \/ (OrgName(ch) = A(ch).call /\ A(ch).pc \in PlacedPc)
  <2>1. ch \in Channels /\ A(ch).pc \in HoldPc /\ Running(ch) /\ AdmHolds(ch)
    BY <1>0 DEF OrgHolders, OrgHolds
  <2>2. CASE A(ch).pc \in OrgByChannel
    BY <2>1, <2>2 DEF OrgName, AdmHolds
  <2>3. CASE A(ch).pc \notin OrgByChannel
    <3>1. A(ch).pc \in OrgByCall /\ A(ch).pc \in PlacedPc
      BY <2>1, <2>3 DEF HoldPc, PlacedPc, OrgByChannel, OrgByCall
    <3> QED
      BY <1>1, <2>1, <2>3, <3>1 DEF OrgName, AdmHolds, Running
  <2> QED
    BY <2>2, <2>3
<1>3. ASSUME NEW ch \in TrunkHolders
      PROVE  /\ TrunkName(ch) \in trunkLease
             /\ TrunkName(ch) = ch \/ (TrunkName(ch) = A(ch).call /\ A(ch).pc \in PlacedPc)
  <2>1. ch \in Channels /\ A(ch).pc \in HoldPc \ {"acquireTrunk"} /\ Running(ch) /\ AdmHolds(ch)
    BY <1>0 DEF TrunkHolders, TrunkHolds
  <2>2. CASE A(ch).pc \in TrunkByChannel
    BY <2>1, <2>2 DEF TrunkName, AdmHolds
  <2>3. CASE A(ch).pc \notin TrunkByChannel
    <3>1. A(ch).pc \in TrunkByCall /\ A(ch).pc \in PlacedPc
      BY <2>1, <2>3 DEF HoldPc, PlacedPc, TrunkByChannel, TrunkByCall
    <3> QED
      BY <1>1, <2>1, <2>3, <3>1 DEF TrunkName, AdmHolds, Running
  <2> QED
    BY <2>2, <2>3
<1> DEFINE f == [ch \in OrgHolders |-> OrgName(ch)]
           g == [ch \in TrunkHolders |-> TrunkName(ch)]
<1>4. f \in Injection(OrgHolders, orgLease)
  <2>1. \A a, b \in OrgHolders : OrgName(a) = OrgName(b) => a = b
    BY <1>1, <1>2, CallAssumption DEF OrgHolders
  <2> QED
    BY <1>2, <2>1 DEF Injection, IsInjective
<1>5. g \in Injection(TrunkHolders, trunkLease)
  <2>1. \A a, b \in TrunkHolders : TrunkName(a) = TrunkName(b) => a = b
    BY <1>1, <1>3, CallAssumption DEF TrunkHolders
  <2> QED
    BY <1>3, <2>1 DEF Injection, IsInjective
<1> QED
  BY <1>0, <1>4, <1>5, FS_Injection

\* Every step adds at most one lease of each kind.
LEMMA LeaseGrowth ==
    ASSUME SoloInv, [Next]_vars
    PROVE  /\ \E x : orgLease' \subseteq orgLease \cup {x}
           /\ \E x : trunkLease' \subseteq trunkLease \cup {x}
<1>0. TypeInv /\ CoreInv
  BY DEF SoloInv, SharedInv, TypeInv
<1>1. ASSUME NEW w \in Workers, NEW ch \in Channels, AdmitStep(w, ch) \/ AdmitFailure(w, ch)
      PROVE  /\ \E x : orgLease' \subseteq orgLease \cup {x}
             /\ \E x : trunkLease' \subseteq trunkLease \cup {x}
  BY <1>0, <1>1, AdmitLeases
<1>2. CASE CoreStep
  <2>1. \A pc, c, t : CleanupStep(pc, c, t) => orgLease' \subseteq orgLease /\ trunkLease' \subseteq trunkLease
    BY DEF CleanupStep, Released
  <2> QED
    BY <1>0, <1>2, <2>1, CoreStepLeases
<1>3. CASE UNCHANGED <<orgLease, trunkLease>>
  BY <1>3
<1>4. ASSUME NEW id, LeaseExpire(id) PROVE orgLease' \subseteq orgLease /\ trunkLease' \subseteq trunkLease
  BY <1>4 DEF LeaseExpire
<1>5. ASSUME NEW ch \in Channels, FsArrive(ch) PROVE UNCHANGED <<orgLease, trunkLease>>
  BY <1>5 DEF FsArrive, redisVars
<1>6. ASSUME NEW w \in Workers, WorkerCrash(w) PROVE UNCHANGED <<orgLease, trunkLease>>
  BY <1>6, CrashRuntime DEF WorkerRestart, redisVars
<1>7. InboundCore => CoreStep
  BY DEF InboundCore, InboundLifecycle, CoreStep
<1>8. UNCHANGED vars => UNCHANGED <<orgLease, trunkLease>>
  BY DEF vars, coreVars, redisVars
<1> QED
  BY <1>1, <1>2, <1>3, <1>4, <1>5, <1>6, <1>7, <1>8 DEF Next

\* A new holder has just been let in by the limit.
TakesOrg(ch) ==
    /\ A(ch).pc = "acquireOrg" /\ CanAcquire(orgLease, ch, OrgLimit)
    /\ orgLease' = orgLease \cup {ch}
TakesTrunk(ch) ==
    /\ A(ch).pc = "acquireTrunk" /\ CanAcquire(trunkLease, ch, TrunkLimit)
    /\ trunkLease' = trunkLease \cup {ch}

LEMMA HoldersStep ==
    ASSUME Workers = {Handler}, SoloInv, [Next]_vars, NEW x \in Channels
    PROVE  /\ OrgHolds(x)' => OrgHolds(x) \/ TakesOrg(x)
           /\ TrunkHolds(x)' => TrunkHolds(x) \/ TakesTrunk(x)
<1>0. /\ TypeInv /\ CoreInv /\ AdmInv /\ AdmPlace(x) /\ Handler \in Workers /\ A(x) \in Adm
      /\ A(x).call \in Calls => row[A(x).call].state # "none"
  BY DEF SoloInv, SharedInv, TypeInv, AdmissionInv, RowInv, AdmInv, A
<1>1. ASSUME A(x)' = A(x) \/ (A(x)'.pc = A(x).pc /\ A(x)'.call = A(x).call),
             A(x).call \in Calls /\ Over(A(x).call) => isTerminalState(row'[A(x).call].state)
      PROVE  (OrgHolds(x)' => OrgHolds(x)) /\ (TrunkHolds(x)' => TrunkHolds(x))
  BY <1>1 DEF OrgHolds, TrunkHolds, Running, Over
<1>2. ASSUME A(x)'.pc \notin HoldPc PROVE ~OrgHolds(x)' /\ ~TrunkHolds(x)'
  BY <1>2 DEF OrgHolds, TrunkHolds
<1>3. ASSUME NEW ch \in Channels, AdmitStep(Handler, ch) \/ AdmitFailure(Handler, ch)
      PROVE  /\ OrgHolds(x)' => OrgHolds(x) \/ TakesOrg(x)
             /\ TrunkHolds(x)' => TrunkHolds(x) \/ TakesTrunk(x)
  <2>1. A(x).call \in Calls /\ Over(A(x).call) => isTerminalState(row'[A(x).call].state)
    <3>1. \A d \in Calls : row[d].state # "none" => (Over(d) => Over(d)')
      BY <1>0, <1>3, AdmitKeepsDialogs
    <3> QED
      BY <1>0, <3>1 DEF Over
  <2>2. CASE x # ch
    <3>1. A(x)' = A(x)
      BY <1>0, <1>3, <2>2, AdmitProgress DEF Progressed, A
    <3> QED
      BY <1>1, <2>1, <3>1
  <2>3. CASE x = ch
    <3>1. \/ A(x)'.pc \in {"undo", "rejected", "acquireOrg"}
          \/ A(x)'.pc = "acquireTrunk" /\ TakesOrg(x)
          \/ /\ A(x).pc = "acquireTrunk" /\ A(x)'.pc = "create" /\ A(x)'.call = A(x).call
             /\ TakesTrunk(x)
          \/ A(x).pc = "create" /\ A(x)'.pc = "attribute"
          \/ A(x).pc \in PlacedPc /\ A(x)'.pc \in PlacedPc /\ A(x)'.call = A(x).call
      BY <1>3, <2>3, SoloMoves DEF GivesUp, Goes, PlacedPc, TakesOrg, TakesTrunk
    <3>2. CASE A(x)'.pc \in {"undo", "rejected", "acquireOrg"}
      BY <1>2, <3>2 DEF HoldPc, PlacedPc
    <3>3. CASE A(x)'.pc = "acquireTrunk" /\ TakesOrg(x)
      BY <3>3 DEF TrunkHolds
    <3>4. A(x).pc \in {"acquireTrunk", "create"} => OrgHolds(x)
      BY <1>0, CallAssumption DEF AdmPlace, Early, OrgHolds, Running, HoldPc
    <3>5. A(x).pc = "create" => TrunkHolds(x)
      BY <1>0, CallAssumption DEF AdmPlace, Early, TrunkHolds, Running, HoldPc
    <3>6. CASE A(x).pc \in PlacedPc /\ A(x)'.pc \in PlacedPc /\ A(x)'.call = A(x).call
      BY <2>1, <3>6 DEF OrgHolds, TrunkHolds, Running, Over, HoldPc, PlacedPc
    <3> QED
      BY <3>1, <3>2, <3>3, <3>4, <3>5, <3>6
  <2> QED
    BY <2>2, <2>3
<1>4. CASE row' = row /\ A(x)' = A(x)
  BY <1>1, <1>4 DEF Over
<1>5. CASE InboundCore /\ UNCHANGED adm
  <2>1. CoreStep
    BY <1>5 DEF InboundCore, InboundLifecycle, CoreStep
  <2>2. \A d \in Calls : Over(d) => Over(d)'
    BY <1>0, <2>1, CoreStepOver
  <2>3. A(x)' = A(x)
    BY <1>5 DEF A
  <2> QED
    BY <1>1, <2>2, <2>3 DEF Over
<1>6. ASSUME NEW ch \in Channels, FsArrive(ch)
      PROVE  (row' = row /\ A(x)' = A(x)) \/ A(x)'.pc \notin HoldPc
  <2>1. row' = row
    BY <1>6 DEF FsArrive, dbVars
  <2>2. A(x)' = A(x) \/ A(x)'.pc = "lookup"
    BY <1>0, <1>6, ArriveAdm DEF A
  <2> QED
    BY <2>1, <2>2 DEF HoldPc, PlacedPc
<1>7. ASSUME NEW w \in Workers, WorkerCrash(w)
      PROVE  (row' = row /\ A(x)' = A(x)) \/ A(x)'.pc \notin HoldPc
  <2>1. row' = row
    BY <1>7, CrashRuntime DEF WorkerRestart, dbVars
  <2>2. A(x)' = A(x) \/ A(x)'.pc = "rejected"
    BY <1>0, <1>7, CrashAdm DEF A
  <2> QED
    BY <2>1, <2>2 DEF HoldPc, PlacedPc
<1>8. ASSUME NEW id, LeaseExpire(id) PROVE row' = row /\ A(x)' = A(x)
  BY <1>8 DEF LeaseExpire, dbVars, A
<1>9. UNCHANGED vars => row' = row /\ A(x)' = A(x)
  BY DEF vars, coreVars, dbVars, A
<1> QED
  BY <1>2, <1>3, <1>4, <1>5, <1>6, <1>7, <1>8, <1>9 DEF Next

\* A set that gains at most the element the limit has just let in keeps it.
LEMMA LimitKept ==
    ASSUME NEW H, NEW G, NEW L, NEW M, NEW Limit \in Nat,
           IsFiniteSet(H), IsFiniteSet(L), Cardinality(H) <= Cardinality(L), Cardinality(H) <= Limit,
           \A x \in G : x \in H \/ (x \notin L /\ CanAcquire(L, x, Limit) /\ M = L \cup {x})
    PROVE  Cardinality(G) <= Limit
<1>1. Cardinality(H) \in Nat /\ Cardinality(L) \in Nat
  BY FS_CardinalityType
<1>2. CASE G \subseteq H
  BY <1>1, <1>2, FS_Subset, FS_CardinalityType
<1>3. CASE ~(G \subseteq H)
  <2>1. PICK x \in G : x \notin L /\ CanAcquire(L, x, Limit) /\ M = L \cup {x}
    BY <1>3
  <2>2. Cardinality(L) < Limit
    BY <2>1 DEF CanAcquire
  <2>3. \A y \in G : y \in H \/ y = x
    BY <2>1
  <2>4. IsFiniteSet(H \cup {x}) /\ Cardinality(H \cup {x}) \in {Cardinality(H), Cardinality(H) + 1}
    BY FS_AddElement
  <2>5. Cardinality(G) <= Cardinality(H \cup {x}) /\ Cardinality(G) \in Nat
    BY <2>3, <2>4, FS_Subset, FS_CardinalityType
  <2> QED
    BY <1>1, <2>2, <2>4, <2>5
<1> QED
  BY <1>2, <1>3

LEMMA CountInvStep ==
    ASSUME Workers = {Handler} PROVE SoloInv /\ CountInv /\ [Next]_vars => CountInv'
<1> SUFFICES ASSUME SoloInv, CountInv, [Next]_vars PROVE CountInv'
  OBVIOUS
<1>1. IsFiniteSet(orgLease') /\ IsFiniteSet(trunkLease')
  <2>1. ASSUME NEW L, NEW M, IsFiniteSet(L), NEW x, M \subseteq L \cup {x} PROVE IsFiniteSet(M)
    BY <2>1, FS_AddElement, FS_Subset
  <2> QED
    BY <2>1, LeaseGrowth DEF CountInv
<1>2. /\ OrgLimit \in Nat /\ IsFiniteSet(orgLease) /\ Cardinality(OrgHolders) <= OrgLimit
      /\ IsFiniteSet(OrgHolders) /\ Cardinality(OrgHolders) <= Cardinality(orgLease)
  BY HoldersCount, InboundAssumption DEF CountInv
<1>2a. /\ TrunkLimit \in Nat /\ IsFiniteSet(trunkLease) /\ Cardinality(TrunkHolders) <= TrunkLimit
       /\ IsFiniteSet(TrunkHolders) /\ Cardinality(TrunkHolders) <= Cardinality(trunkLease)
  BY HoldersCount, InboundAssumption DEF CountInv
<1>3. \A x \in Channels : /\ TakesOrg(x) => x \notin orgLease
                          /\ TakesTrunk(x) => x \notin trunkLease
  BY DEF SoloInv, SharedInv, AdmissionInv, AdmHolds, TakesOrg, TakesTrunk
<1>4. \A x \in OrgHolders' : x \in OrgHolders \/ (/\ x \notin orgLease /\ CanAcquire(orgLease, x, OrgLimit)
                                                 /\ orgLease' = orgLease \cup {x})
  BY <1>3, HoldersStep DEF OrgHolders, TakesOrg
<1>5. \A x \in TrunkHolders' : x \in TrunkHolders \/ (/\ x \notin trunkLease
                                                     /\ CanAcquire(trunkLease, x, TrunkLimit)
                                                     /\ trunkLease' = trunkLease \cup {x})
  BY <1>3, HoldersStep DEF TrunkHolders, TakesTrunk
<1>6. Cardinality(OrgHolders') <= OrgLimit
  BY <1>2, <1>4, LimitKept
<1>7. Cardinality(TrunkHolders') <= TrunkLimit
  BY <1>2a, <1>5, LimitKept
<1> QED
  BY <1>1, <1>6, <1>7 DEF CountInv

\* With one worker the admitted channels that are up never exceed the plan's
\* concurrency nor the trunk's max_concurrent_calls, for any limits and any
\* number of dialogs, whatever fails (AcquireCallLease, BindCallLease).
THEOREM InboundLimitsHold == ASSUME Workers = {Handler} PROVE Spec => []InboundLimitsRespected
<1>1. SoloInv /\ CountInv => InboundLimitsRespected
  <2> SUFFICES ASSUME SoloInv, CountInv PROVE InboundLimitsRespected
    OBVIOUS
  <2> DEFINE up == {ch \in Channels : fs[ch].cid # NoCall /\ fs[ch].st \in FsLive}
  <2>1. ASSUME NEW ch \in up PROVE OrgHolds(ch) /\ TrunkHolds(ch)
    <3>1. fs[ch].cid \in Calls /\ fs[ch].st # "gone"
      BY DEF SoloInv, SharedInv, TypeInv, CoreInv, CoreTypeOK, FsLive
    <3>2. A(ch).pc = "admitted" /\ ~Over(A(ch).call)
      BY <3>1 DEF SoloInv, SharedInv, AdmissionInv, AdmPlace, PlacedPc
    <3> QED
      BY <3>2 DEF OrgHolds, TrunkHolds, Running, HoldPc, PlacedPc
  <2>2. up \subseteq OrgHolders /\ up \subseteq TrunkHolders
    BY <2>1 DEF OrgHolders, TrunkHolders
  <2>3. /\ IsFiniteSet(OrgHolders) /\ Cardinality(OrgHolders) <= OrgLimit
        /\ IsFiniteSet(TrunkHolders) /\ Cardinality(TrunkHolders) <= TrunkLimit
    BY HoldersCount DEF CountInv
  <2> HIDE DEF up
  <2>4. Cardinality(up) <= Cardinality(OrgHolders) /\ Cardinality(up) <= Cardinality(TrunkHolders)
    BY <2>2, <2>3, FS_Subset
  <2>5. Cardinality(up) \in Nat /\ Cardinality(OrgHolders) \in Nat /\ Cardinality(TrunkHolders) \in Nat
    BY <2>2, <2>3, FS_Subset, FS_CardinalityType
  <2>6. Cardinality(up) <= OrgLimit /\ Cardinality(up) <= TrunkLimit
    BY <2>3, <2>4, <2>5, InboundAssumption
  <2> QED
    BY <2>6 DEF InboundLimitsRespected, up
<1> QED
  BY SoloInvInit, SoloInvStep, CountInvInit, CountInvStep, <1>1, PTL DEF Spec

=============================================================================
