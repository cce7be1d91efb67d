------------------------------ MODULE VoiceEngine ------------------------------
(***************************************************************************)
(* One stream of the composable voice engine (media/engine/composable) and *)
(* the pump that plays what it says (media/session/manager.go).            *)
(*                                                                         *)
(* run reads the transcriber and starts and cancels responses; every       *)
(* response is a goroutine of its own, fenced by its generation; the       *)
(* control goroutine brings tool results; the pump reads events and audio  *)
(* and interrupts. What the stream's mutex covers is one step, and every   *)
(* send on a channel is one of its own.                                    *)
(***************************************************************************)
EXTENDS Naturals, Sequences, FiniteSets

CONSTANTS
    CallIds,      \* ids of the tool calls the model makes, each once
    NoCall,
    SttEvents,    \* events of the transcriber (bound)
    GenItems,     \* deltas and frames of one response (bound)
    EngineFaults, \* provider failures (bound)
    EventRoom,    \* length of the events channel, 32 in the code
    OutputRoom    \* frames the output queue takes

ASSUME EngineAssumption ==
    /\ NoCall \notin CallIds /\ IsFiniteSet(CallIds)
    /\ {SttEvents, EngineFaults} \subseteq Nat
    /\ {GenItems, EventRoom, OutputRoom} \subseteq Nat \ {0}

VARIABLES
    tools,        \* tool calls the model can make: none in a session without tools
    generation,   \* stream.generation
    active,       \* responseActive
    cancelOf,     \* the generation responseCancel cancels, 0 for nil
    canceledGens, \* generations whose context is canceled
    streamDone,   \* the stream's context is canceled: Close was called
    conversation, \* messages
    awaited,      \* pendingToolCalls of the stream
    answer,       \* the generate goroutine of each generation
    runner,       \* run
    submitter,    \* SubmitToolResult on the control goroutine
    eventsCh, shut, \* the events channel; run has closed both channels
    pump,         \* the pump's event goroutine
    playback,     \* playbackActive, suppressPlayback, frames in the output queue
    unanswered,   \* pendingToolCalls of the managed session
    heard, engineFaults,   \* transcriber events and failures so far
    late, announced,       \* items sent by a response after its end; last start played (history)
    panicked      \* a send on a closed channel

engineVars == <<tools, generation, active, cancelOf, canceledGens, streamDone, conversation,
                awaited, answer, runner, submitter, eventsCh, shut, pump, playback, unanswered,
                heard, engineFaults, late, announced, panicked>>
fenceVars == <<generation, active, cancelOf, canceledGens>>
talkVars == <<conversation, awaited>>
outerVars == <<tools, streamDone, shut, heard, engineFaults>>

\* Every event of the transcriber starts or cancels one answer, the pump may interrupt
\* again, tool results start one each, and run cancels at its end.
Gens == 1..(2 * SttEvents + Cardinality(CallIds) + 1)
ItemKinds == {"audio", "delta", "call", "none"}
NoItem == [kind |-> "none", of |-> NoCall]
Unstarted == [at |-> "none", open |-> TRUE, said |-> FALSE, calls |-> {}, todo |-> {},
              item |-> NoItem, left |-> 0, base |-> 0]

EngineTypeOK ==
    /\ generation \in Gens \cup {0} /\ active \in BOOLEAN
    /\ cancelOf \in Gens \cup {0} /\ canceledGens \subseteq Gens
    /\ active <=> cancelOf # 0
    /\ awaited \subseteq CallIds /\ unanswered \subseteq CallIds
    /\ \A g \in Gens :
         /\ answer[g].at \in {"none", "spawn", "llm", "loop", "send", "calls", "error",
                                "stop", "quit", "emit", "ended"}
         /\ answer[g].item.kind \in ItemKinds /\ answer[g].todo \subseteq answer[g].calls
         /\ answer[g].at = "send" <=> answer[g].item.kind # "none"
         /\ g > generation => answer[g].at = "none"
    /\ runner.at \in {"select", "cancel", "stopped", "started", "leave", "last", "wait", "gone"}
    /\ submitter.at \in {"idle", "submit", "started"}
    /\ Len(eventsCh) <= EventRoom
    /\ pump \in {"idle", "interrupt", "stopped", "gone"}
    /\ playback.queued \in 0..OutputRoom
    /\ shut <=> runner.at = "gone"
    /\ heard \in 0..SttEvents /\ engineFaults \in 0..EngineFaults

\* Start: instructions, if any, are the first message and change nothing here. A session with
\* tools is looked at without failures and with one item less per response (bound).
EngineInit ==
    /\ tools \in {{}, CallIds}
    /\ engineFaults = IF tools = {} THEN 0 ELSE EngineFaults
    /\ generation = 0 /\ active = FALSE /\ cancelOf = 0 /\ canceledGens = {}
    /\ streamDone = FALSE /\ conversation = <<>> /\ awaited = {}
    /\ answer = [g \in Gens |-> Unstarted]
    /\ runner = [at |-> "select", of |-> 0]
    /\ submitter = [at |-> "idle", call |-> NoCall, of |-> 0]
    /\ eventsCh = <<>> /\ shut = FALSE
    /\ pump = "idle"
    /\ playback = [active |-> FALSE, suppress |-> FALSE, queued |-> 0]
    /\ unanswered = {} /\ heard = 0
    /\ late = [g \in Gens |-> 0] /\ announced = 0 /\ panicked = FALSE

(***************************************************************************)
(* Helpers                                                                 *)
(***************************************************************************)
\* Mutant: the fence does not look at the generation.
IsCurrentAnyGeneration(g) == active

\* isCurrent.
IsCurrent(g) == generation = g /\ active

\* The context of a response: canceled itself, or with the stream.
CtxOver(g) == streamDone \/ g \in canceledGens

\* emit: it waits for room, or for the stream's context; a closed channel panics.
EmitEvent(type, of) ==
    \/ ~shut /\ Len(eventsCh) < EventRoom
       /\ eventsCh' = Append(eventsCh, [type |-> type, of |-> of]) /\ UNCHANGED panicked
    \/ streamDone /\ UNCHANGED <<eventsCh, panicked>>
    \/ shut /\ panicked' = TRUE /\ UNCHANGED eventsCh

\* cancelResponse up to its event: the generation moves on whether or not a response is active.
CancelResponse ==
    /\ generation' = generation + 1
    /\ active' = FALSE /\ cancelOf' = 0
    /\ canceledGens' = IF cancelOf = 0 THEN canceledGens ELSE canceledGens \cup {cancelOf}

\* A new generation becomes the current one; its goroutine is counted before it runs.
NewResponse(messages) ==
    /\ generation' = generation + 1
    /\ active' = TRUE /\ cancelOf' = generation + 1
    /\ conversation' = messages
    /\ answer' = [answer EXCEPT ![generation + 1].at = "spawn",
                                    ![generation + 1].base = Len(messages),
                                    ![generation + 1].left =
                                        IF tools = {} THEN GenItems ELSE GenItems - 1]

EngineFault == engineFaults < EngineFaults /\ engineFaults' = engineFaults + 1
GenAt(g, at) == answer[g].at = at

\* The next step of a goroutine; of one that has ended only its calls and its place are kept.
Goes(g, at) ==
    answer' = [answer EXCEPT ![g] =
        IF at # "ended" THEN [answer[g] EXCEPT !.at = at]
        ELSE [Unstarted EXCEPT !.at = "ended", !.calls = answer[g].calls,
                               !.base = answer[g].base]]

(***************************************************************************)
(* run                                                                     *)
(***************************************************************************)
Hears == runner.at = "select" /\ heard < SttEvents /\ heard' = heard + 1

\* handleTurn of the start of speech: the event first, the cancellation after it.
SpeechStarts ==
    /\ Hears /\ EmitEvent("speech", 0)
    /\ runner' = [at |-> "cancel", of |-> 0]
    /\ UNCHANGED <<tools, fenceVars, streamDone, talkVars, answer, submitter, shut, pump,
                   playback, unanswered, engineFaults, late, announced>>

RunCancels ==
    /\ runner.at \in {"cancel", "leave"} /\ CancelResponse
    /\ runner' = [runner EXCEPT !.at = CASE runner.at = "cancel" /\ active -> "stopped"
                                         [] runner.at = "cancel" /\ ~active -> "select"
                                         [] runner.at = "leave" /\ active -> "last"
                                         [] OTHER -> "wait"]
    /\ UNCHANGED <<outerVars, talkVars, answer, submitter, eventsCh, pump, playback, unanswered,
                   late, announced, panicked>>

RunEmitsStopped ==
    /\ runner.at \in {"stopped", "last"} /\ EmitEvent("stopped", 0)
    /\ runner' = [runner EXCEPT !.at = IF @ = "stopped" THEN "select" ELSE "wait"]
    /\ UNCHANGED <<fenceVars, outerVars, talkVars, answer, submitter, pump, playback, unanswered,
                   late, announced>>

\* handleTurn of an utterance: startResponse cancels what is still running.
Utterance ==
    /\ Hears
    /\ NewResponse(Append(conversation, [role |-> "user", of |-> 0, call |-> NoCall]))
    /\ canceledGens' = IF cancelOf = 0 THEN canceledGens ELSE canceledGens \cup {cancelOf}
    /\ runner' = [at |-> "started", of |-> generation + 1]
    /\ UNCHANGED <<tools, streamDone, awaited, submitter, eventsCh, shut, pump, playback,
                   unanswered, engineFaults, late, announced, panicked>>

RunEmitsStarted ==
    /\ runner.at = "started" /\ EmitEvent("started", runner.of)
    /\ Goes(runner.of, "llm")
    /\ runner' = [at |-> "select", of |-> 0]
    /\ UNCHANGED <<fenceVars, outerVars, talkVars, submitter, pump, playback, unanswered, late,
                   announced>>

\* The transcriber fails, which is a terminal event, or ends; or the context is over.
TranscriberFails ==
    /\ runner.at = "select" /\ EngineFault /\ EmitEvent("fatal", 0)
    /\ runner' = [at |-> "leave", of |-> 0]
    /\ UNCHANGED <<tools, fenceVars, streamDone, talkVars, answer, submitter, shut, pump,
                   playback, unanswered, heard, late, announced>>

TranscriberEnds ==
    /\ runner.at = "select"
    /\ IF streamDone THEN UNCHANGED engineFaults ELSE EngineFault
    /\ runner' = [at |-> "leave", of |-> 0]
    /\ UNCHANGED <<tools, fenceVars, streamDone, talkVars, answer, submitter, eventsCh, shut,
                   pump, playback, unanswered, heard, late, announced, panicked>>

\* responses.Wait, then the channels are closed.
RunReturns ==
    /\ runner.at = "wait"
    /\ \A g \in Gens : answer[g].at \in {"none", "ended"}
    /\ runner' = [at |-> "gone", of |-> 0] /\ shut' = TRUE
    /\ UNCHANGED <<tools, fenceVars, streamDone, talkVars, answer, submitter, eventsCh, pump,
                   playback, unanswered, heard, engineFaults, late, announced, panicked>>

(***************************************************************************)
(* generate                                                                *)
(***************************************************************************)
GenFrame == UNCHANGED <<fenceVars, outerVars, talkVars, runner, submitter, eventsCh, pump,
                        playback, unanswered, late, announced, panicked>>

\* Generate and StartTTS.
ProvidersStart(g) == GenAt(g, "llm") /\ ~CtxOver(g) /\ Goes(g, "loop") /\ GenFrame

\* failResponse: nothing is said of a response that is over.
ProviderErrs(g) ==
    /\ answer[g].at \in {"llm", "loop"} /\ EngineFault
    /\ Goes(g, IF CtxOver(g) \/ ~IsCurrent(g) THEN "ended" ELSE "error")
    /\ UNCHANGED <<tools, fenceVars, streamDone, shut, heard, talkVars, runner, submitter,
                   eventsCh, pump, playback, unanswered, late, announced, panicked>>

FailEmits(g) ==
    /\ GenAt(g, "error") /\ EmitEvent("error", 0) /\ Goes(g, "quit")
    /\ UNCHANGED <<fenceVars, outerVars, talkVars, runner, submitter, pump, playback, unanswered,
                   late, announced>>

GenCanceled(g) ==
    /\ answer[g].at \in {"llm", "loop"} /\ CtxOver(g) /\ Goes(g, "ended") /\ GenFrame

\* A text delta or usage of the model, or a frame of the voice once there is text: the check
\* comes first, the send after it.
Produces(g, kind) ==
    /\ GenAt(g, "loop") /\ answer[g].left > 0
    /\ IF kind = "delta" THEN answer[g].open ELSE answer[g].said
    /\ answer' = [answer EXCEPT
           ![g].left = @ - 1, ![g].said = TRUE,
           ![g].at = IF IsCurrent(g) THEN "send" ELSE "loop",
           ![g].item = IF IsCurrent(g) THEN [kind |-> kind, of |-> NoCall] ELSE NoItem]
    /\ GenFrame

\* The pieces of a tool call are collected; an incomplete one is an error event in the end.
CollectsCall(g, c) ==
    /\ GenAt(g, "loop") /\ answer[g].open
    /\ \A h \in Gens : c \notin answer[h].calls
    /\ answer' = [answer EXCEPT ![g].calls = @ \cup {c}, ![g].todo = @ \cup {c}]
    /\ GenFrame

\* The model is done: tool calls, or the rest of the text goes to the voice, or nothing was said.
ModelDone(g) ==
    /\ GenAt(g, "loop") /\ answer[g].open
    /\ answer' = [answer EXCEPT
           ![g].open = FALSE,
           ![g].at = CASE answer[g].calls # {} -> "calls"
                       [] answer[g].calls = {} /\ answer[g].said -> "loop"
                       [] OTHER -> "quit"]
    /\ GenFrame

PublishesCall(g, c) ==
    /\ GenAt(g, "calls") /\ c \in answer[g].todo
    /\ answer' = [answer EXCEPT
           ![g].todo = @ \ {c},
           ![g].at = IF IsCurrent(g) THEN "send" ELSE "calls",
           ![g].item = IF IsCurrent(g) THEN [kind |-> "call", of |-> c] ELSE NoItem]
    /\ GenFrame

\* Where the goroutine goes on after a send.
AfterSend(g) == answer' = [answer EXCEPT ![g].item = NoItem,
                                        ![g].at = IF answer[g].item.kind = "call"
                                                  THEN "calls" ELSE "loop"]
Counted(g) == late' = IF IsCurrent(g) THEN late ELSE [late EXCEPT ![g] = @ + 1]

SendsEvent(g) ==
    /\ answer[g].item.kind \in {"delta", "call"} /\ Len(eventsCh) < EventRoom
    /\ eventsCh' = Append(eventsCh, [type |-> answer[g].item.kind, of |-> answer[g].item.of])
    /\ AfterSend(g) /\ Counted(g)
    /\ UNCHANGED <<fenceVars, outerVars, talkVars, runner, submitter, pump, playback, unanswered,
                   announced, panicked>>

\* The output queue: a frame too many is an error.
HasRoom(p) == p.queued < OutputRoom
Pushed(p) == [p EXCEPT !.queued = @ + 1]
Popped(p) == [p EXCEPT !.queued = @ - 1]
Cleared(p) == [p EXCEPT !.queued = 0]

\* The pump takes the frame: it is dropped while playback is suppressed, and one too many ends
\* the pump.
SendsFrame(g) ==
    /\ answer[g].item.kind = "audio" /\ pump # "gone"
    /\ IF playback.suppress THEN UNCHANGED <<playback, pump>>
       ELSE IF HasRoom(playback)
       THEN playback' = Pushed(playback) /\ UNCHANGED pump
       ELSE pump' = "gone" /\ UNCHANGED playback
    /\ AfterSend(g) /\ Counted(g)
    /\ UNCHANGED <<fenceVars, outerVars, talkVars, runner, submitter, eventsCh, unanswered,
                   announced, panicked>>

\* A canceled send: generate returns from a frame, emitCurrent from an event.
SendCanceled(g) ==
    /\ GenAt(g, "send") /\ CtxOver(g)
    /\ IF answer[g].item.kind = "audio"
       THEN Goes(g, "ended")
       ELSE AfterSend(g)
    /\ GenFrame

\* awaitToolResults and stopResponse, for the current generation only.
Ends(g, messages, calls) ==
    /\ IF IsCurrent(g)
       THEN /\ active' = FALSE /\ cancelOf' = 0
            /\ conversation' = conversation \o messages
            /\ awaited' = awaited \cup calls /\ Goes(g, "emit")
       ELSE Goes(g, "ended") /\ UNCHANGED <<active, cancelOf, talkVars>>
    /\ UNCHANGED <<generation, canceledGens, outerVars, runner, submitter, eventsCh, pump, playback,
                   unanswered, late, announced, panicked>>

AwaitToolResults(g) ==
    /\ GenAt(g, "calls") /\ answer[g].todo = {}
    /\ Ends(g, <<[role |-> "calls", of |-> g, call |-> NoCall]>>, answer[g].calls)

\* The voice is done, early perhaps: what was said so far is the answer.
VoiceDone(g) ==
    GenAt(g, "loop") /\ Goes(g, IF answer[g].said THEN "stop" ELSE "quit") /\ GenFrame

StopResponse(g) ==
    \/ GenAt(g, "stop") /\ Ends(g, <<[role |-> "assistant", of |-> g, call |-> NoCall]>>, {})
    \/ GenAt(g, "quit") /\ Ends(g, <<>>, {})

GenEmitsStopped(g) ==
    /\ GenAt(g, "emit") /\ EmitEvent("stopped", 0) /\ Goes(g, "ended")
    /\ UNCHANGED <<fenceVars, outerVars, talkVars, runner, submitter, pump, playback, unanswered,
                   late, announced>>

(***************************************************************************)
(* Tool results                                                            *)
(***************************************************************************)
\* submitToolResult of the managed session: only the test for finished is under its mutex.
\* A result that the engine refuses ends the control connection, and the next one is sent
\* the call again.
ResultArrives(c) ==
    /\ submitter.at = "idle" /\ c \in unanswered /\ ~streamDone
    /\ submitter' = [at |-> "submit", call |-> c, of |-> 0]
    /\ UNCHANGED <<fenceVars, outerVars, talkVars, answer, runner, eventsCh, pump, playback,
                   unanswered, late, announced, panicked>>

\* SubmitToolResult. The last awaited result starts a response; one that is running is
\* superseded, its context is not canceled.
SubmitResult ==
    LET c == submitter.call
        messages == Append(conversation, [role |-> "tool", of |-> 0, call |-> c])
        idle == [at |-> "idle", call |-> NoCall, of |-> 0] IN
    /\ submitter.at = "submit"
    /\ awaited' = awaited \ {c}
    /\ IF c \notin awaited
       THEN submitter' = idle /\ UNCHANGED <<generation, active, cancelOf, conversation, answer,
                                             unanswered>>
       ELSE IF awaited # {c}
       THEN /\ conversation' = messages /\ submitter' = idle /\ unanswered' = unanswered \ {c}
            /\ UNCHANGED <<generation, active, cancelOf, answer>>
       ELSE /\ NewResponse(messages)
            /\ submitter' = [at |-> "started", call |-> c, of |-> generation + 1]
            /\ UNCHANGED unanswered
    /\ UNCHANGED <<canceledGens, outerVars, runner, eventsCh, pump, playback, late, announced,
                   panicked>>

SubmitEmitsStarted ==
    /\ submitter.at = "started" /\ EmitEvent("started", submitter.of)
    /\ Goes(submitter.of, "llm")
    /\ submitter' = [at |-> "idle", call |-> NoCall, of |-> 0]
    /\ unanswered' = unanswered \ {submitter.call}
    /\ UNCHANGED <<fenceVars, outerVars, talkVars, runner, pump, playback, late, announced>>

(***************************************************************************)
(* The pump                                                                *)
(***************************************************************************)
PumpFrame == UNCHANGED <<outerVars, talkVars, answer, runner, submitter, late>>

\* What an event does to playback. The start of speech silences what is playing.
Played(p, e) ==
    CASE e.type = "started" -> [p EXCEPT !.suppress = FALSE, !.active = TRUE]
      [] e.type = "stopped" -> [p EXCEPT !.active = FALSE]
      [] e.type = "speech" /\ p.active ->
             [Cleared(p) EXCEPT !.active = FALSE, !.suppress = TRUE]
      [] OTHER -> p

PumpHandles ==
    LET e == Head(eventsCh) IN
    /\ pump = "idle" /\ eventsCh # <<>>
    /\ eventsCh' = Tail(eventsCh)
    /\ playback' = Played(playback, e)
    /\ pump' = CASE e.type = "fatal" -> "gone"
                 [] e.type = "speech" /\ playback.active -> "interrupt"
                 [] OTHER -> "idle"
    /\ unanswered' = IF e.type = "call" THEN unanswered \cup {e.of} ELSE unanswered
    /\ announced' = IF e.type = "started" THEN e.of ELSE announced
    /\ PumpFrame /\ UNCHANGED <<fenceVars, panicked>>

\* stream.Interrupt cancels whatever is current by then; its event goes to the channel that
\* this goroutine empties.
PumpInterrupts ==
    /\ pump = "interrupt" /\ CancelResponse
    /\ pump' = IF active THEN "stopped" ELSE "idle"
    /\ PumpFrame /\ UNCHANGED <<eventsCh, playback, unanswered, announced, panicked>>

PumpEmitsStopped ==
    /\ pump = "stopped" /\ EmitEvent("stopped", 0) /\ pump' = "idle"
    /\ PumpFrame /\ UNCHANGED <<fenceVars, playback, unanswered, announced>>

PlaysFrame ==
    /\ pump # "gone" /\ playback.queued > 0
    /\ playback' = [Popped(playback) EXCEPT !.active = @ \/ ~playback.suppress]
    /\ PumpFrame /\ UNCHANGED <<fenceVars, eventsCh, pump, unanswered, announced, panicked>>

\* The closed channel, or the end of the session.
PumpLeaves ==
    /\ pump = "idle" /\ (streamDone \/ (shut /\ eventsCh = <<>>))
    /\ pump' = "gone"
    /\ PumpFrame /\ UNCHANGED <<fenceVars, eventsCh, playback, unanswered, announced, panicked>>

\* Close: the session is stopped from outside, or its pump has ended.
CloseEngine ==
    /\ ~streamDone /\ streamDone' = TRUE
    /\ UNCHANGED <<tools, fenceVars, talkVars, answer, runner, submitter, eventsCh, shut, pump,
                   playback, unanswered, heard, engineFaults, late, announced, panicked>>

(***************************************************************************)
(* Next                                                                    *)
(***************************************************************************)
RunStep == RunCancels \/ RunEmitsStopped \/ RunEmitsStarted \/ RunReturns
           \/ (streamDone /\ TranscriberEnds)
GenStep(g) ==
    \/ FailEmits(g) \/ GenCanceled(g) \/ SendsEvent(g) \/ SendsFrame(g) \/ SendCanceled(g)
    \/ AwaitToolResults(g) \/ StopResponse(g) \/ GenEmitsStopped(g)
    \/ \E c \in tools : PublishesCall(g, c)
ProviderStep(g) ==
    \/ ProvidersStart(g) \/ ProviderErrs(g) \/ ModelDone(g) \/ VoiceDone(g)
    \/ \E kind \in {"delta", "audio"} : Produces(g, kind)
    \/ \E c \in tools : CollectsCall(g, c)
SubmitStep == SubmitResult \/ SubmitEmitsStarted
PumpStep == PumpHandles \/ PumpInterrupts \/ PumpEmitsStopped \/ PumpLeaves

EngineNext ==
    /\ ~panicked
    /\ \/ SpeechStarts \/ Utterance \/ TranscriberFails \/ TranscriberEnds \/ RunStep
       \/ \E g \in Gens : GenStep(g) \/ ProviderStep(g)
       \/ \E c \in tools : ResultArrives(c)
       \/ SubmitStep \/ PumpStep \/ PlaysFrame \/ CloseEngine

(***************************************************************************)
(* Properties                                                              *)
(***************************************************************************)
\* A response that counts as active has a goroutine that will end it: no order of speech,
\* interruptions and tool results leaves the caller waiting for a response nobody makes.
ActiveIsServed ==
    active /\ runner.at # "gone" =>
        /\ cancelOf = generation /\ generation \notin canceledGens
        /\ answer[generation].at \notin {"none"} \cup (IF streamDone THEN {} ELSE {"ended"})

\* Once it is over, canceled or superseded, a response lets through at most the one frame or
\* event it had checked before.
StaleIsBounded == \A g \in Gens : late[g] <= 1

\* A response that is active and whose start the pump has handled is not silenced by an
\* earlier interruption.
ActiveIsAudible ==
    active /\ announced = generation /\ pump = "idle" => ~playback.suppress

\* An answer stands in the conversation after what it answers: between the messages it was
\* made from and itself there are only results of older tool calls. Every result comes once,
\* after its call.
ConversationSound ==
    \A k \in 1..Len(conversation) :
        LET m == conversation[k] IN
        /\ m.role \in {"assistant", "calls"} =>
               \A j \in (answer[m.of].base + 1)..(k - 1) : conversation[j].role = "tool"
        /\ m.role = "tool" =>
               /\ \E j \in 1..(k - 1) : /\ conversation[j].role = "calls"
                                        /\ m.call \in answer[conversation[j].of].calls
               /\ \A j \in 1..(k - 1) : conversation[j].call # m.call

\* What the engine promises about responses, playback and the conversation.
EngineSound == ActiveIsServed /\ StaleIsBounded /\ ActiveIsAudible /\ ConversationSound

\* Close was called and run or a response still goes on.
EngineLingers == streamDone /\ ~panicked /\ runner.at # "gone"
=============================================================================
