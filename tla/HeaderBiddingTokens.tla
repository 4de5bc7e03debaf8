------------------------ MODULE HeaderBiddingTokens ------------------------
(***************************************************************************)
(* The tokens of header bidding: UnityAds.getToken: and the web            *)
(* application's UADSApiToken, over the chain of readers that              *)
(* UADSHeaderBiddingTokenReaderBuilder builds: SCAR signals, a serial      *)
(* queue, the bridge with its mediator, the native generator with its wait *)
(* for the privacy response, and the storage of the web's tokens.          *)
(*                                                                         *)
(* Four kinds of threads meet here: the serial queue, which carries out    *)
(* one call after the other; the main thread, on which timeouts fire; the  *)
(* loading of the privacy response, which starts generations of its own;   *)
(* and whoever asks for a token synchronously, past the queue.             *)
(*                                                                         *)
(* A configuration may bring a token of its own, the first token, which    *)
(* the storage gives while it has no other.  An empty storage and none are *)
(* the same.  One initialization is modelled.                              *)
(*                                                                         *)
(* The timeouts are read once, when the readers are built, which may be    *)
(* before there is a configuration: the timeout of a token is then zero.   *)
(***************************************************************************)
EXTENDS Integers, FiniteSets, ScarSignals, SequencesExt

CONSTANTS
  \* How a process is set up: the configuration that the readers are built
  \* with, whether the experiment of the privacy wait is on in it, its two
  \* timeouts in milliseconds; for which requests the Google SDK has signals,
  \* whether the configurations that follow bring a token, and a bound: the
  \* calls of the web application.
  Setups,
  MaxTokens  \* bound: tokens of the web application

ASSUME RequestsAssumption == IsFiniteSet(Requests)
ASSUME TokensAssumption ==
  /\ Setups \subseteq [privacyWait : BOOLEAN, hbTokenTimeout : Int,
                       privacyWaitTimeout : Int, signalled : SUBSET Requests,
                       configToken : BOOLEAN, calls : Nat]
  /\ MaxTokens \in Nat

VARIABLES
  setup,        \* how this process is set up
  status,       \* the initialization state of the SDK
  calls,        \* the blocks on the serial queue, the first one running
  running,      \* how far that one is
  tokens,       \* UADSTokenStorage: queue
  peekMode,     \* UADSTokenStorage: peekMode
  firstToken,   \* UADSTokenStorage: whether there is a firstToken
  queueCreated, \* the bridge's tokenQueueIsCreated
  observers, armed, firing,                          \* the bridge's mediator
  privacyObservers, privacyArmed, privacyFiring,     \* the privacy storage's
  privacy,      \* the privacy response: unknown, saved but untold, known
  generations,  \* native generations under way off the serial queue
  asked,        \* history: the requests in their order
  answers,      \* history: what the completion of each was called with
  peeked,       \* history: tokens that were read without being removed
  lost,         \* history: tokens removed for nobody
  made, used,   \* bounds: tokens and calls of the web application
  saved         \* whether the configuration has been loaded and saved

\* Whole seconds, as the mediators take them.
TokenTimeout == setup.hbTokenTimeout \div 1000
PrivacyTimeout == setup.privacyWaitTimeout \div 1000

Bridge == INSTANCE Mediator WITH Observers <- Requests
Privacy == INSTANCE Mediator
             WITH Observers <- Requests, observers <- privacyObservers,
                  armed <- privacyArmed, firing <- privacyFiring

bridgeVars == <<observers, armed, firing>>
privacyVars == <<privacyObservers, privacyArmed, privacyFiring>>
storageVars == <<tokens, peekMode, firstToken, peeked>>
serialVars == <<calls, running>>
boundVars == <<made, used, saved, setup>>
vars == <<status, serialVars, storageVars, queueCreated, bridgeVars,
          privacyVars, privacy, generations, asked, answers, lost,
          boundVars, scar>>

Status == {"NOT_INITIALIZED", "INITIALIZING", "INITIALIZED_SUCCESSFULLY",
           "INITIALIZED_FAILED"}

\* A completion is called with a token of the web, with the first one or a
\* native one, or with an invalid one, which the caller sees as nil.
Answers == [kind : {"web"}, token : 1..MaxTokens]
             \cup [kind : {"first", "native", "none"}, token : {0}]
Web(t) == [kind |-> IF t = 0 THEN "first" ELSE "web", token |-> t]
None == [kind |-> "none", token |-> 0]
Native == [kind |-> "native", token |-> 0]

Calls == [op : {"get"}, req : Requests]
           \cup [op : {"create", "append"}, new : Seq(1..MaxTokens)]
           \cup [op : {"delete"}] \cup [op : {"peek"}, mode : BOOLEAN]
           \cup [op : {"init"}, given : BOOLEAN]

Steps == {"start", "take", "hand", "privacy", "subscribe", "generate"}
Start == [step |-> "start", left |-> 0, token |-> 0, removed |-> FALSE]

TypeOK ==
  /\ status \in Status
  /\ calls \in Seq(Calls)
  /\ running \in [step : Steps, left : 0..Cardinality(Requests),
                  token : 0..MaxTokens, removed : BOOLEAN]
  /\ tokens \in Seq(1..MaxTokens) /\ {peekMode, firstToken} \subseteq BOOLEAN
  /\ queueCreated \in BOOLEAN
  /\ Bridge!MediatorTypeOK /\ Privacy!MediatorTypeOK
  /\ privacy \in {"unknown", "saved", "known"}
  /\ generations \in 0..(2 * Cardinality(Requests))
  /\ asked \in Seq(Requests) /\ IsInjective(asked)
  /\ answers \in [Requests -> Seq(Answers)]
  /\ peeked \subseteq 1..MaxTokens /\ lost \in 0..MaxTokens
  /\ made \in 0..MaxTokens /\ setup \in Setups /\ used \in 0..setup.calls
  /\ saved \in BOOLEAN
  /\ ScarTypeOK

Init ==
  /\ setup \in Setups
  /\ status = "NOT_INITIALIZED"
  /\ calls = <<>> /\ running = Start
  /\ tokens = <<>> /\ peekMode = FALSE /\ firstToken = FALSE
  /\ queueCreated = FALSE
  /\ Bridge!MediatorInit /\ Privacy!MediatorInit
  /\ privacy = "unknown" /\ generations = 0
  /\ asked = <<>> /\ answers = [r \in Requests |-> <<>>]
  /\ peeked = {} /\ lost = 0 /\ made = 0 /\ used = 0
  /\ saved = FALSE
  /\ ScarInit

-----------------------------------------------------------------------------
\* The injected completion: a valid token gets its identifier on the way.
Tell(r, answer) ==
  /\ answers' = [answers EXCEPT ![r] = Append(@, answer)]
  /\ IF answer # None /\ r \in setup.signalled
       THEN Inject(r) ELSE UNCHANGED scar

\* notifyObserversSeparatelyWithObjectsAndRemove: of the bridge's mediator.
NotifyHead(answer) ==
  IF observers = <<>>
    THEN UNCHANGED <<bridgeVars, answers, scar>>
    ELSE Bridge!NotifyFirst /\ Tell(Head(observers), answer)

Post(call) == calls' = Append(calls, call)

\* getToken: of the publisher.
Ask(r) ==
  /\ ~ Contains(asked, r)
  /\ asked' = Append(asked, r)
  /\ Post([op |-> "get", req |-> r])
  /\ IF r \in setup.signalled THEN RequestSignals(r) ELSE UNCHANGED scar
  /\ UNCHANGED <<status, running, storageVars, queueCreated, bridgeVars,
                 privacyVars, privacy, generations, answers, lost, boundVars>>

\* UADSApiToken, there only once initialization has begun.  The tokens of a
\* web application that has been reset are deleted the same way.
WebCall ==
  /\ status # "NOT_INITIALIZED" /\ used < setup.calls
  /\ used' = used + 1
  /\ \/ \E n \in 0..(MaxTokens - made), op \in {"create", "append"} :
          /\ made' = made + n
          /\ Post([op |-> op, new |-> [i \in 1..n |-> made + i]])
     \/ Post([op |-> "delete"]) /\ UNCHANGED made
     \/ \E mode \in BOOLEAN :
          Post([op |-> "peek", mode |-> mode]) /\ UNCHANGED made
  /\ UNCHANGED <<status, running, storageVars, queueCreated, bridgeVars,
                 privacyVars, privacy, generations, asked, answers, lost,
                 saved, setup, scar>>

\* saveConfiguration:, once the configuration has been loaded and before
\* there is a web application.
SaveConfiguration ==
  /\ setup.configToken /\ ~ saved
  /\ status = "INITIALIZING" /\ used = 0
  /\ saved' = TRUE
  /\ Post([op |-> "init", given |-> TRUE])
  /\ UNCHANGED <<status, running, storageVars, queueCreated, bridgeVars,
                 privacyVars, privacy, generations, asked, answers, lost,
                 made, used, setup, scar>>

\* The modules are told of a failure one after the other: the first saves the
\* configuration in use, which may be one without a token; then there is no
\* first token any more, and no other.  To forget a first token that there
\* never was changes nothing, and is left out.
PostFailure ==
  LET forget == <<[op |-> "init", given |-> FALSE]>>
      again == <<[op |-> "init", given |-> TRUE]>>
      delete == <<[op |-> "delete"]>>
  IN  IF ~ setup.configToken
        THEN calls' = calls \o delete
        ELSE \E save \in {<<>>, again} :
               calls' = calls \o save \o forget \o delete

\* A failure deletes the tokens, after a success as well.
SetStatus ==
  /\ \/ status = "NOT_INITIALIZED" /\ status' = "INITIALIZING"
        /\ Post([op |-> "delete"])
     \/ status = "INITIALIZING" /\ status' = "INITIALIZED_SUCCESSFULLY"
        /\ UNCHANGED calls
     \/ status \in {"INITIALIZING", "INITIALIZED_SUCCESSFULLY"}
        /\ status' = "INITIALIZED_FAILED" /\ PostFailure
  /\ UNCHANGED <<running, storageVars, queueCreated, bridgeVars, privacyVars,
                 privacy, generations, asked, answers, lost, boundVars, scar>>

-----------------------------------------------------------------------------
\* A mutant: the token stays.
ReadToken == tokens # <<>> /\ UNCHANGED storageVars

\* UADSTokenStorage getToken: the oldest token, which stays in peek mode.
TakeToken ==
  /\ tokens # <<>>
  /\ IF peekMode THEN UNCHANGED tokens /\ peeked' = peeked \cup {Head(tokens)}
                 ELSE tokens' = Tail(tokens) /\ UNCHANGED peeked
  /\ UNCHANGED <<peekMode, firstToken>>

\* The synchronous getToken of the publisher, past the queue.
GetTokenNow ==
  /\ TakeToken
  /\ UNCHANGED <<status, serialVars, queueCreated, bridgeVars, privacyVars,
                 privacy, generations, asked, answers, lost, boundVars, scar>>

\* The block that has run leaves the queue.
Done == calls' = Tail(calls) /\ running' = Start

GoTo(step, left) ==
  /\ running' = [Start EXCEPT !.step = step, !.left = left]
  /\ UNCHANGED calls

\* One pass less of the loop over the observers.
NextPass == IF running.left <= 1 THEN Done ELSE GoTo("take", running.left - 1)

Running(step) == calls # <<>> /\ running.step = step

\* Once there is a queue of tokens nothing is generated any more.
FirstStep == IF queueCreated THEN "take"
             ELSE IF setup.privacyWait THEN "privacy" ELSE "generate"

\* getTokenIfAllowed:, then getToken: of the bridge: the state is read when
\* the block runs, the observer is saved before a token is looked for.
StartGet ==
  /\ Running("start") /\ Head(calls).op = "get"
  /\ LET r == Head(calls).req IN
     IF status \in {"NOT_INITIALIZED", "INITIALIZED_FAILED"}
       THEN Tell(r, None) /\ Done /\ UNCHANGED bridgeVars
       ELSE /\ Bridge!Subscribe(r, TokenTimeout)
            /\ GoTo(FirstStep, 1)
            /\ UNCHANGED <<answers, scar>>
  /\ UNCHANGED <<status, storageVars, queueCreated, privacyVars, privacy,
                 generations, asked, lost, boundVars>>

\* A mutant: one observer is notified, however many tokens have come.
StartStoreOnce ==
  /\ Running("start") /\ Head(calls).op \in {"create", "append"}
  /\ LET new == Head(calls).new IN
     /\ tokens' = IF Head(calls).op = "create" THEN new ELSE tokens \o new
     /\ queueCreated' = (queueCreated \/ new # <<>>)
     /\ IF new = <<>> \/ observers = <<>> THEN Done ELSE GoTo("take", 1)
  /\ UNCHANGED <<status, peekMode, firstToken, peeked, bridgeVars, privacyVars,
                 privacy, generations, asked, answers, lost, boundVars, scar>>

\* createTokens: and appendTokens: of the bridge.  The observers are counted
\* once, before the first of them is notified.
StartStore ==
  /\ Running("start") /\ Head(calls).op \in {"create", "append"}
  /\ LET new == Head(calls).new IN
     /\ tokens' = IF Head(calls).op = "create" THEN new ELSE tokens \o new
     /\ queueCreated' = (queueCreated \/ new # <<>>)
     /\ IF new = <<>> \/ observers = <<>>
          THEN Done ELSE GoTo("take", Len(observers))
  /\ UNCHANGED <<status, peekMode, firstToken, peeked, bridgeVars, privacyVars,
                 privacy, generations, asked, answers, lost, boundVars, scar>>

\* setInitToken: of the bridge: with a token, observers are notified.
StartInit ==
  /\ Running("start") /\ Head(calls).op = "init"
  /\ LET given == Head(calls).given IN
     /\ firstToken' = given
     /\ queueCreated' = (queueCreated \/ given)
     /\ IF ~ given \/ observers = <<>>
          THEN Done ELSE GoTo("take", Len(observers))
  /\ UNCHANGED <<status, tokens, peekMode, peeked, bridgeVars, privacyVars,
                 privacy, generations, asked, answers, lost, boundVars, scar>>

StartOther ==
  /\ Running("start")
  /\ \/ Head(calls).op = "delete" /\ tokens' = <<>> /\ UNCHANGED peekMode
     \/ Head(calls).op = "peek" /\ peekMode' = Head(calls).mode
        /\ UNCHANGED tokens
  /\ Done
  /\ UNCHANGED <<status, queueCreated, firstToken, peeked, bridgeVars,
                 privacyVars, privacy, generations, asked, answers, lost,
                 boundVars, scar>>

HandOver(token, removed) ==
  /\ running' = [running EXCEPT !.step = "hand", !.token = token,
                                !.removed = removed]
  /\ UNCHANGED calls

\* notifyIfThereIsValidToken: the token is out of the storage before the
\* mediator is asked for the observer it is for.  A first token stays.
Take ==
  /\ Running("take")
  /\ IF tokens # <<>> THEN TakeToken /\ HandOver(Head(tokens), ~ peekMode)
     ELSE /\ UNCHANGED storageVars
          /\ IF firstToken THEN HandOver(0, FALSE) ELSE NextPass
  /\ UNCHANGED <<status, queueCreated, bridgeVars, privacyVars, privacy,
                 generations, asked, answers, lost, boundVars, scar>>

Hand ==
  /\ Running("hand")
  /\ NotifyHead(Web(running.token))
  /\ lost' = IF observers = <<>> /\ running.removed THEN lost + 1 ELSE lost
  /\ NextPass
  /\ UNCHANGED <<status, storageVars, queueCreated, privacyVars, privacy,
                 generations, asked, boundVars>>

\* getToken: of the privacy wait: the response is looked for, and only then
\* waited for.
LookForPrivacy ==
  /\ Running("privacy")
  /\ GoTo(IF privacy = "unknown" THEN "subscribe" ELSE "generate", 1)
  /\ UNCHANGED <<status, storageVars, queueCreated, bridgeVars, privacyVars,
                 privacy, generations, asked, answers, lost, boundVars, scar>>

WaitForPrivacy ==
  /\ Running("subscribe")
  /\ Privacy!Subscribe(Head(calls).req, PrivacyTimeout)
  /\ Done
  /\ UNCHANGED <<status, storageVars, queueCreated, bridgeVars, privacy,
                 generations, asked, answers, lost, boundVars, scar>>

\* The native generators answer at once; the Swift one may have no token.
Generate ==
  /\ Running("generate")
  /\ \E answer \in {Native, None} : NotifyHead(answer)
  /\ Done
  /\ UNCHANGED <<status, storageVars, queueCreated, privacyVars, privacy,
                 generations, asked, lost, boundVars>>

SerialStep ==
  \/ StartGet \/ StartStore \/ StartInit \/ StartOther \/ Take \/ Hand
  \/ LookForPrivacy \/ WaitForPrivacy \/ Generate

-----------------------------------------------------------------------------
\* saveResponse: of the privacy storage: first saved, then told.  Only the
\* privacy wait looks.
SavePrivacy ==
  /\ setup.privacyWait
  /\ privacy = "unknown" /\ status # "NOT_INITIALIZED"
  /\ privacy' = "saved"
  /\ UNCHANGED <<status, serialVars, storageVars, queueCreated, bridgeVars,
                 privacyVars, generations, asked, answers, lost, boundVars,
                 scar>>

TellPrivacy ==
  /\ privacy = "saved"
  /\ privacy' = "known"
  /\ Privacy!NotifyAllAndRemove
  /\ generations' = generations + Len(privacyObservers)
  /\ UNCHANGED <<status, serialVars, storageVars, queueCreated, bridgeVars,
                 asked, answers, lost, boundVars, scar>>

\* A generation that has waited for the privacy response runs on the thread
\* that calls it, the one of the response or the main thread.
FinishGeneration ==
  /\ generations > 0
  /\ generations' = generations - 1
  /\ \E answer \in {Native, None} : NotifyHead(answer)
  /\ UNCHANGED <<status, serialVars, storageVars, queueCreated, privacyVars,
                 privacy, asked, lost, boundVars>>

PrivacyStep == SavePrivacy \/ TellPrivacy \/ FinishGeneration

\* The timeouts of both mediators fire on the main thread.
MainIsFree == firing \cup privacyFiring = {}

TimeOut(r) ==
  /\ MainIsFree
  /\ \/ Bridge!TakeTimeout(r) /\ UNCHANGED privacyVars
     \/ Privacy!TakeTimeout(r) /\ UNCHANGED bridgeVars
  /\ UNCHANGED <<status, serialVars, storageVars, queueCreated, privacy,
                 generations, asked, answers, lost, boundVars, scar>>

\* The removal, and the timeout closure of the bridge that follows it.
GiveUp(r) ==
  /\ Bridge!RemoveObserver(r)
  /\ Tell(r, None)
  /\ UNCHANGED <<status, serialVars, storageVars, queueCreated, privacyVars,
                 privacy, generations, asked, lost, boundVars>>

GiveUpPrivacy(r) ==
  /\ Privacy!RemoveObserver(r)
  /\ generations' = generations + 1
  /\ UNCHANGED <<status, serialVars, storageVars, queueCreated, bridgeVars,
                 privacy, asked, answers, lost, boundVars, scar>>

MainStep == \E r \in Requests : TimeOut(r) \/ GiveUp(r) \/ GiveUpPrivacy(r)

ScarStep(r) ==
  /\ KeepSignals(r) \/ SendSignals(r)
  /\ UNCHANGED <<status, serialVars, storageVars, queueCreated, bridgeVars,
                 privacyVars, privacy, generations, asked, answers, lost,
                 boundVars>>

Next ==
  \/ WebCall \/ SaveConfiguration \/ SetStatus \/ GetTokenNow
  \/ \E r \in Requests : Ask(r) \/ ScarStep(r)
  \/ SerialStep \/ PrivacyStep \/ MainStep

\* Blocks run and timers fire; a response that was saved is told, and the
\* generations it starts come to their end.  Nobody else has to do anything.
Fairness ==
  /\ WF_vars(SerialStep) /\ WF_vars(MainStep)
  /\ WF_vars(TellPrivacy) /\ WF_vars(FinishGeneration)

Spec == Init /\ [][Next]_vars /\ Fairness

-----------------------------------------------------------------------------
\* Who was never told of a token of the web first.
ServedOtherwise ==
  {r \in Requests : answers[r] # <<>> /\ answers[r][1].kind # "web"}

\* notifyObserversAndCleanQueue and notifyIfThereIsValidToken take a token
\* for an observer they have counted before, and the mediator drops it when
\* that observer is gone.  No token is ever dropped but for an observer that
\* got another answer meanwhile, one token each.
LostTokensAreAccountedFor == lost <= Cardinality(ServedOtherwise)

\* tokenQueueIsCreated is never reset, and from then on no native token is
\* generated: whoever waits when the serial queue is idle waits because the
\* storage has no token, not even a first one, or before that because a
\* generation, or the privacy response it waits for, is still to come.  No
\* wake-up is lost.
WaitingIsForAReason ==
  calls = <<>> /\ observers # <<>> =>
    IF queueCreated THEN tokens = <<>> /\ ~ firstToken
    ELSE Len(observers) <= generations + Len(privacyObservers)

\* The storage is read from the serial queue and past it by getToken, the
\* observers go when their time is out: requests are nevertheless served in
\* the order in which they were made, older tokens first, and no token
\* twice, unless the web application has had it peeked at.
OldTokensGoToOldRequests ==
  \A i, j \in DOMAIN asked :
    \A a \in ToSet(answers[asked[i]]), b \in ToSet(answers[asked[j]]) :
      i < j /\ a.kind = "web" /\ b.kind = "web" =>
        a.token < b.token \/ (a.token = b.token /\ a.token \in peeked)

\* What the server gets with the signals and what it gets with the token of
\* one request bear the same identifier, whichever of the two comes first
\* and however the two callbacks interleave.
SignalsMatchToken ==
  \A r \in Requests :
    scar[r].posted # "none" /\ scar[r].shown # "none" =>
      scar[r].posted = scar[r].shown

\* The readers implement the promise: an observer is told once, in its turn;
\* only one whose timeout was already being handled when it was notified is
\* told twice, and then the second answer is none.
Promise ==
  INSTANCE TokenPromise
    WITH Requests <- Requests, waiting <- observers,
         told <- [r \in Requests |->
                   [i \in DOMAIN answers[r] |->
                     IF answers[r][i] = None THEN "null" ELSE "token"]]

IsTokenPromise == Promise!Spec

\* The timeout of a token is zero for a process whose readers were built before
\* there was a configuration, or with one that sets less than a second.  A
\* request then waits until there is a token, and that may be for ever, in two
\* cases: the web application has begun to send tokens and none is left, or
\* the privacy response that its generation waits for has no timeout either.
MayWaitForEver ==
  /\ TokenTimeout <= 0
  /\ IF queueCreated THEN tokens = <<>> /\ ~ firstToken
     ELSE PrivacyTimeout <= 0 /\ Len(observers) <= Len(privacyObservers)

\* Each request is answered in the end, whatever the web application and the
\* privacy response do: by a token, or by its timeout at the latest.  Who is
\* not keeps waiting for a reason that no step takes away: also without a
\* timeout nobody is forgotten beside a token.
EveryRequestIsAnswered ==
  \A r \in Requests :
    <>[](Contains(asked, r) =>
           answers[r] # <<>> \/ (Contains(observers, r) /\ MayWaitForEver))
=============================================================================
