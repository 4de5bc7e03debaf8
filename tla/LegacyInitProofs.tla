-------------------------- MODULE LegacyInitProofs --------------------------
(***************************************************************************)
(* Proofs about LegacyInit, for any configurations, retries, connections,  *)
(* reinitializations and ends of the process: what the web application     *)
(* that runs was created from, when an initialization completes, how many  *)
(* requests a chain makes, and that no state is left listening.            *)
(***************************************************************************)
EXTENDS LegacyInit, SequenceFacts, TLAPS

-----------------------------------------------------------------------------
(***************************************************************************)
(* The inductive invariant: the operation on the queue.                    *)
(***************************************************************************)
\* The state an operation stands for: Retry and NetworkError go back to one.
Place(op) == IF op.state \in {"Retry", "NetworkError"} THEN op.back
             ELSE op.state

Early   == {"LoadConfigFile", "Reset", "InitModules"}
Caching == {"LoadCache", "LoadCacheConfigAndWebView",
            "CheckForUpdatedWebView", "CleanCache"}
Loading == Caching \cup {"LoadWeb", "Create"}
Background == {"CheckForCachedWebViewUpdate", "DownloadLatestWebView",
               "UpdateCache"}
Configured == Loading \cup Background

\* A state that goes back knows where; one that loads a page has a
\* configuration, which was made for this version of the SDK.
OperationFits(op, version) ==
  /\ op \in Operation
  /\ op.state \in {"Retry", "NetworkError"} => op.back \in Requesting
  /\ Place(op) \in Configured => op.config # NoConfig
  /\ Place(op) \in Loading => op.config.sdk = version

\* There is one operation at a time.
OneRuns ==
  \/ queue = <<>>
  \/ /\ queue = <<running>> /\ OperationFits(running, sdkVersion)

-----------------------------------------------------------------------------
(***************************************************************************)
(* The inductive invariant: requests, listeners and the application.       *)
(***************************************************************************)
\* The tries an operation has used; a wait for the network that is not over
\* has used one more than the retries.
Tries(op) == IF op.state = "NetworkError" /\ op.wait # "woken"
             THEN op.retries + 1 ELSE op.retries
Bound(made) == MaxRetries + 1 + made.wakes

\* A chain makes a request for each try and each connection.
RequestsFit(op, made) ==
  /\ made.config <= Bound(made) /\ made.web <= Bound(made)
  /\ Place(op) \in Early => made.config = 0
  /\ Place(op) \in Early \cup Caching \cup {"Config",
                                            "CheckForCachedWebViewUpdate"}
       => made.web = 0
  /\ Place(op) = "Config" => made.config <= Tries(op) + made.wakes
  /\ Place(op) \in {"LoadWeb", "DownloadLatestWebView"} =>
       made.web <= Tries(op) + made.wakes
RequestsAreCounted ==
  IF queue = <<>> THEN requests = NoRequests ELSE RequestsFit(running, requests)

\* A wait for the network is over when it no longer runs; whoever listens
\* stops next, or waits.
NetworkIsAwaited == Runs("NetworkError") /\ running.wait # "no"
ListenersStop ==
  /\ listening \in {0, 1}
  /\ \A i \in DOMAIN mainQ : mainQ[i] = "listen" =>
       \/ i + 1 \in DOMAIN mainQ /\ mainQ[i + 1] = "unlisten"
       \/ i = Len(mainQ) /\ NetworkIsAwaited
  /\ listening = 1 =>
       IF mainQ = <<>> THEN NetworkIsAwaited ELSE Head(mainQ) = "unlisten"

\* Create finds the page its configuration asks for, unless the download could
\* not be written.
PageFits(c, saved, content) ==
  c.source = "file" /\ c.hash # NoHash /\ saved => content = c.hash
FileIsWhatIsCreated ==
  Runs("Create") => PageFits(running.config, running.saved, webFile)

\* An application that is initialized has said so.
InitializedHasSaidSo ==
  currentApp # NoApp => (currentApp.initialized => currentApp.said)

VersionsAreCounted == sdkVersion <= restarts + 1

IInv ==
  /\ TypeOK /\ OneRuns /\ VersionsAreCounted
  /\ RequestsAreCounted /\ ListenersStop
  /\ FileIsWhatIsCreated /\ VerifiedIsCreated /\ ConfigurationIsOwn
  /\ InitializedHasSaidSo /\ CompletedHasSaidSo

-----------------------------------------------------------------------------
(***************************************************************************)
(* Operations, and the queue of one.                                       *)
(***************************************************************************)
NamedOperations == States \ {"Retry", "NetworkError"}

\* What Op makes.
LEMMA OperationType ==
  ASSUME NEW state \in States, NEW c \in Config \cup {NoConfig}
  PROVE  Op(state, c) \in Operation
<1>1. MaxRetries \in Nat
  BY BoundAssumption
<1>2. 0 \in 0..MaxRetries
  BY <1>1
<1> QED BY <1>2 DEF Op, Operation

LEMMA NewOperationFits ==
  ASSUME NEW state \in NamedOperations, NEW c \in Config \cup {NoConfig},
         NEW version,
         state \in Configured => c # NoConfig,
         state \in Loading => c.sdk = version
  PROVE  /\ OperationFits(Op(state, c), version)
         /\ Place(Op(state, c)) = state /\ Tries(Op(state, c)) = 0
<1>1. Op(state, c) \in Operation /\ state \in States
  BY OperationType DEF NamedOperations
<1>2. state \notin {"Retry", "NetworkError"}
  BY DEF NamedOperations
<1>3. PICK op \in Operation : op = Op(state, c)
  BY <1>1
<1>4. op.state = state /\ op.config = c /\ op.retries = 0
  BY <1>3 DEF Op
<1>5. Place(op) = state /\ Tries(op) = 0
  BY <1>2, <1>4 DEF Place, Tries
<1>6. OperationFits(op, version)
  BY <1>2, <1>4, <1>5 DEF OperationFits
<1> QED BY <1>3, <1>5, <1>6

LEMMA ConfigTypes ==
  /\ DefaultConfig \in Config /\ DefaultConfig # NoConfig
  /\ \A c \in Config : c # NoConfig /\ c.sdk \in Nat
                       /\ c.hash \in Versions \cup {NoHash}
<1>1. DefaultConfig \in Config
  BY DEF DefaultConfig, Config
<1> QED BY <1>1, NoConfigAssumption DEF Config

\* The operation on the queue, and what becomes of it.
LEMMA QueueOfOne ==
  ASSUME OneRuns, queue # <<>>
  PROVE  /\ queue = <<running>> /\ OperationFits(running, sdkVersion)
         /\ Tail(queue) = <<>>
         /\ \A op : Continue(op) => queue' = <<op>>
         /\ \A how : Waits(how) => queue' = <<[running EXCEPT !.wait = how]>>
         /\ Return => queue' = <<Op("Done", NoConfig)>>
         /\ Fail => queue' = <<Op("Error", running.config)>>
         /\ \A state : GoTo(state) => queue' = <<Op(state, running.config)>>
<1>1. queue = <<running>> /\ OperationFits(running, sdkVersion)
  BY DEF OneRuns
<1>2. PICK op : op = running
  OBVIOUS
<1>3. queue = <<op>>
  BY <1>1, <1>2
<1>4. Tail(queue) = <<>>
  BY <1>3
<1>5. \A x : Append(<<>>, x) = <<x>>
  OBVIOUS
<1>6. \A x : Continue(x) => queue' = <<x>>
  BY <1>4, <1>5 DEF Continue
<1>7. \A how : Waits(how) => queue' = <<[op EXCEPT !.wait = how]>>
  BY <1>3 DEF Waits
<1>8. Return => queue' = <<Op("Done", NoConfig)>>
  BY <1>3 DEF Return
<1>9. \A state : GoTo(state) => queue' = <<Op(state, running.config)>>
  BY <1>6 DEF GoTo
<1> QED BY <1>1, <1>2, <1>4, <1>6, <1>7, <1>8, <1>9 DEF Fail

LEMMA Heads ==
  ASSUME NEW op
  PROVE  /\ queue' = <<op>> => queue' # <<>> /\ running' = op
         /\ \A state : queue' = <<op>> => (Runs(state)' <=> op.state = state)
<1>1. ASSUME queue' = <<op>> PROVE queue' # <<>> /\ running' = op
  BY <1>1 DEF running
<1> QED BY <1>1 DEF Runs

\* The fields of the operation that runs.
LEMMA RunningTypes ==
  ASSUME NEW version, NEW op, OperationFits(op, version)
  PROVE  /\ op.state \in States /\ op.config \in Config \cup {NoConfig}
         /\ op.local \in Config \cup {NoConfig} /\ op.retries \in 0..MaxRetries
         /\ op.wait \in {"no", "waiting", "woken"} /\ op.saved \in BOOLEAN
         /\ op.data \in Versions \cup {NoContent}
         /\ MaxRetries \in Nat /\ op.retries \in Nat
         /\ op.state \notin {"Retry", "NetworkError"} => Place(op) = op.state
         /\ op.state \in Configured => op.config \in Config
         /\ op.state \in Loading => op.config.sdk = version
<1>1. op \in Operation /\ MaxRetries \in Nat
  BY BoundAssumption DEF OperationFits
<1>2. /\ op.state \in States /\ op.config \in Config \cup {NoConfig}
      /\ op.local \in Config \cup {NoConfig} /\ op.retries \in 0..MaxRetries
      /\ op.wait \in {"no", "waiting", "woken"} /\ op.saved \in BOOLEAN
      /\ op.data \in Versions \cup {NoContent}
  BY <1>1 DEF Operation
<1>3. op.state \in Configured => op.state \notin {"Retry", "NetworkError"}
  BY DEF Configured, Loading, Caching, Background
<1>4. op.state \in Loading => op.state \in Configured
  BY DEF Configured
<1>5. op.state \notin {"Retry", "NetworkError"} => Place(op) = op.state
  BY DEF Place
<1> QED BY <1>1, <1>2, <1>3, <1>4, <1>5 DEF OperationFits

\* A failed request is tried again, by one more try.
LEMMA TryingAgain ==
  ASSUME OneRuns, queue # <<>>, running.state \in Requesting,
         TryAgain(running.config)
  PROVE  \E op \in Operation :
           /\ queue' = <<op>> /\ OperationFits(op, sdkVersion)
           /\ op.state \in {"Retry", "NetworkError"} /\ op.wait = "no"
           /\ Place(op) = running.state /\ Tries(op) = running.retries + 1
<1>1. PICK h : h = running
  OBVIOUS
<1>2. OperationFits(h, sdkVersion) /\ h.state \in Requesting
  BY <1>1, QueueOfOne
<1>3. /\ h.config \in Config \cup {NoConfig} /\ h.retries \in 0..MaxRetries
      /\ MaxRetries \in Nat /\ h.retries \in Nat
      /\ h.state \in Configured => h.config # NoConfig
      /\ h.state \in Loading => h.config.sdk = sdkVersion
  BY <1>2, RunningTypes DEF OperationFits, Requesting
<1>4. "Retry" \in States /\ "NetworkError" \in States
  BY DEF States
<1>5. CASE h.retries < MaxRetries
  <2>1. PICK op : op = [Op("Retry", h.config)
                          EXCEPT !.back = h.state, !.retries = h.retries + 1]
    OBVIOUS
  <2>2. /\ op.state = "Retry" /\ op.config = h.config /\ op.wait = "no"
        /\ op.back = h.state /\ op.retries = h.retries + 1
    BY <2>1 DEF Op
  <2>3. h.retries + 1 \in 0..MaxRetries
    BY <1>3, <1>5
  <2>4. op \in Operation
    BY <1>2, <1>3, <1>4, <2>1, <2>3 DEF Op, Operation
  <2>5. Place(op) = h.state /\ Tries(op) = h.retries + 1
    BY <2>2 DEF Place, Tries
  <2>6. OperationFits(op, sdkVersion)
    BY <1>2, <1>3, <2>2, <2>4, <2>5 DEF OperationFits
  <2>7. queue' = <<op>>
    BY <1>1, <1>5, <2>1, QueueOfOne DEF TryAgain
  <2> QED BY <1>1, <2>2, <2>4, <2>5, <2>6, <2>7
<1>6. CASE ~ (h.retries < MaxRetries)
  <2>1. PICK op : op = [Op("NetworkError", h.config)
                          EXCEPT !.back = h.state, !.retries = h.retries]
    OBVIOUS
  <2>2. /\ op.state = "NetworkError" /\ op.config = h.config
        /\ op.back = h.state /\ op.retries = h.retries /\ op.wait = "no"
    BY <2>1 DEF Op
  <2>4. op \in Operation
    BY <1>2, <1>3, <1>4, <2>1 DEF Op, Operation
  <2>5. Place(op) = h.state /\ Tries(op) = h.retries + 1
    BY <2>2 DEF Place, Tries
  <2>6. OperationFits(op, sdkVersion)
    BY <1>2, <1>3, <2>2, <2>4, <2>5 DEF OperationFits
  <2>7. queue' = <<op>>
    BY <1>1, <1>6, <2>1, QueueOfOne DEF TryAgain
  <2> QED BY <1>1, <2>2, <2>4, <2>5, <2>6, <2>7
<1> QED BY <1>5, <1>6

\* The state that is gone back to has the tries that are used up.
LEMMA GoingBack ==
  ASSUME OneRuns, queue # <<>>, running.state \in {"Retry", "NetworkError"},
         GoBack
  PROVE  \E op \in Operation :
           /\ queue' = <<op>> /\ OperationFits(op, sdkVersion)
           /\ op.state \in Requesting /\ op.state = Place(running)
           /\ Place(op) = Place(running) /\ Tries(op) = running.retries
<1>1. PICK h : h = running
  OBVIOUS
<1>2. OperationFits(h, sdkVersion) /\ h.state \in {"Retry", "NetworkError"}
  BY <1>1, QueueOfOne
<1>3. /\ h.config \in Config \cup {NoConfig} /\ h.retries \in 0..MaxRetries
      /\ h.back \in Requesting /\ Place(h) = h.back
      /\ h.back \in Configured => h.config # NoConfig
      /\ h.back \in Loading => h.config.sdk = sdkVersion
  BY <1>2, RunningTypes DEF OperationFits, Place
<1>4. h.back \in States /\ h.back \notin {"Retry", "NetworkError"}
  BY <1>3 DEF States, Requesting
<1>5. PICK op : op = [Op(h.back, h.config) EXCEPT !.retries = h.retries]
  OBVIOUS
<1>6. /\ op.state = h.back /\ op.config = h.config /\ op.retries = h.retries
  BY <1>5 DEF Op
<1>7. op \in Operation
  BY <1>3, <1>4, <1>5 DEF Op, Operation
<1>8. Place(op) = h.back /\ Tries(op) = h.retries
  BY <1>4, <1>6 DEF Place, Tries
<1>9. OperationFits(op, sdkVersion)
  BY <1>3, <1>4, <1>6, <1>7, <1>8 DEF OperationFits
<1>10. queue' = <<op>>
  BY <1>1, <1>5, QueueOfOne DEF GoBack
<1> QED BY <1>1, <1>3, <1>6, <1>7, <1>8, <1>9, <1>10

\* A state that waits, or wakes up, is the same otherwise.
LEMMA Waiting ==
  ASSUME OneRuns, queue # <<>>, NEW how \in {"waiting", "woken"}, Waits(how)
  PROVE  \E op \in Operation :
           /\ queue' = <<op>> /\ OperationFits(op, sdkVersion)
           /\ op.state = running.state /\ op.wait = how
           /\ Place(op) = Place(running) /\ op.retries = running.retries
           /\ op.config = running.config /\ op.saved = running.saved
<1>1. PICK h : h = running
  OBVIOUS
<1>2. OperationFits(h, sdkVersion)
  BY <1>1, QueueOfOne
<1>3. PICK op : op = [h EXCEPT !.wait = how]
  OBVIOUS
<1>4. h \in Operation
  BY <1>2 DEF OperationFits
<1>5. /\ op.state = h.state /\ op.config = h.config /\ op.back = h.back
      /\ op.retries = h.retries /\ op.wait = how /\ op.saved = h.saved
      /\ op \in Operation
  BY <1>3, <1>4 DEF Operation
<1>6. Place(op) = Place(h)
  BY <1>5 DEF Place
<1>7. OperationFits(op, sdkVersion)
  BY <1>2, <1>5, <1>6 DEF OperationFits
<1>8. queue' = <<op>>
  BY <1>1, <1>3, QueueOfOne
<1> QED BY <1>1, <1>5, <1>6, <1>7, <1>8

-----------------------------------------------------------------------------
(***************************************************************************)
(* What an operation may rely on, and how it is handed on.                 *)
(***************************************************************************)
Sound(op, version, made, file, app) ==
  /\ OperationFits(op, version) /\ RequestsFit(op, made)
  /\ op.state = "Create" => PageFits(op.config, op.saved, file)
  /\ op.state = "Complete" => app # NoApp /\ app.said

HeadIsSound ==
  IF queue = <<>> THEN requests = NoRequests
  ELSE /\ queue = <<running>>
       /\ Sound(running, sdkVersion, requests, webFile, currentApp)

LEMMA HeadsAreSound ==
  HeadIsSound <=> /\ OneRuns /\ RequestsAreCounted /\ FileIsWhatIsCreated
                  /\ CompletedHasSaidSo
BY DEF HeadIsSound, Sound, OneRuns, RequestsAreCounted, FileIsWhatIsCreated,
       CompletedHasSaidSo, Runs

Made == [config : Nat, web : Nat, wakes : 0..MaxWakes]
Counting == Early \cup Caching \cup {"Config", "LoadWeb",
              "CheckForCachedWebViewUpdate", "DownloadLatestWebView"}

\* No request is made: what was counted still fits.
LEMMA CountsCarryOver ==
  ASSUME NEW version, NEW h, OperationFits(h, version),
         NEW op, OperationFits(op, version),
         NEW made \in Made, RequestsFit(h, made),
         \/ Place(op) \notin Counting
         \/ Place(h) \in Early /\ Place(op) \in Early \cup {"Config"}
         \/ /\ Place(h) \in Caching \cup {"CheckForCachedWebViewUpdate"}
            /\ Place(op) \in Caching \cup {"LoadWeb", "DownloadLatestWebView"}
         \/ Place(op) = Place(h) /\ Tries(op) = Tries(h)
  PROVE  RequestsFit(op, made)
<1>1. /\ made.config \in Nat /\ made.web \in Nat /\ made.wakes \in Nat
  BY BoundAssumption DEF Made
<1>2. Tries(op) \in Nat /\ Tries(h) \in Nat
  BY RunningTypes DEF Tries
<1>3. CASE Place(op) \notin Counting
  BY <1>3 DEF RequestsFit, Counting
<1>4. CASE Place(h) \in Early /\ Place(op) \in Early \cup {"Config"}
  BY <1>1, <1>2, <1>4 DEF RequestsFit, Early, Caching
<1>5. CASE /\ Place(h) \in Caching \cup {"CheckForCachedWebViewUpdate"}
           /\ Place(op) \in Caching \cup {"LoadWeb", "DownloadLatestWebView"}
  BY <1>1, <1>2, <1>5 DEF RequestsFit, Early, Caching
<1>6. CASE Place(op) = Place(h) /\ Tries(op) = Tries(h)
  BY <1>6 DEF RequestsFit
<1> QED BY <1>3, <1>4, <1>5, <1>6

\* A request is made: it is one more try, or the last of its state.
LEMMA CountsGoOn ==
  ASSUME NEW version, NEW h, OperationFits(h, version),
         NEW op, OperationFits(op, version),
         NEW made \in Made, RequestsFit(h, made), NEW next,
         \/ /\ h.state = "Config" /\ next = [made EXCEPT !.config = @ + 1]
            /\ \/ Place(op) = "Config" /\ Tries(op) = h.retries + 1
               \/ Place(op) \in Caching
               \/ Place(op) \notin Counting
         \/ /\ h.state \in {"LoadWeb", "DownloadLatestWebView"}
            /\ next = [made EXCEPT !.web = @ + 1]
            /\ \/ Place(op) = h.state /\ Tries(op) = h.retries + 1
               \/ Place(op) \notin Counting
  PROVE  RequestsFit(op, next)
<1>1. /\ made.config \in Nat /\ made.web \in Nat /\ made.wakes \in Nat
  BY BoundAssumption DEF Made
<1>2. /\ h.retries \in Nat /\ h.retries <= MaxRetries /\ MaxRetries \in Nat
      /\ h.state \in {"Config", "LoadWeb", "DownloadLatestWebView"} =>
           Place(h) = h.state /\ Tries(h) = h.retries
  BY RunningTypes DEF Tries
<1>3. CASE /\ h.state = "Config" /\ next = [made EXCEPT !.config = @ + 1]
           /\ \/ Place(op) = "Config" /\ Tries(op) = h.retries + 1
              \/ Place(op) \in Caching
              \/ Place(op) \notin Counting
  <2>1. /\ next.config = made.config + 1 /\ next.web = made.web
        /\ next.wakes = made.wakes
    BY <1>3 DEF Made
  <2>2. made.config <= h.retries + made.wakes /\ made.web = 0
    BY <1>2, <1>3 DEF RequestsFit
  <2>3. /\ next.config <= h.retries + 1 + next.wakes /\ next.web = 0
        /\ next.config <= Bound(next) /\ next.web <= Bound(next)
    BY <1>1, <1>2, <2>1, <2>2 DEF Bound
  <2>4. CASE Place(op) = "Config" /\ Tries(op) = h.retries + 1
    BY <2>3, <2>4 DEF RequestsFit, Early
  <2>5. CASE Place(op) \in Caching
    BY <2>3, <2>5 DEF RequestsFit, Early, Caching
  <2>6. CASE Place(op) \notin Counting
    BY <2>3, <2>6 DEF RequestsFit, Counting
  <2> QED BY <1>3, <2>4, <2>5, <2>6
<1>4. CASE /\ h.state \in {"LoadWeb", "DownloadLatestWebView"}
           /\ next = [made EXCEPT !.web = @ + 1]
           /\ \/ Place(op) = h.state /\ Tries(op) = h.retries + 1
              \/ Place(op) \notin Counting
  <2>1. /\ next.web = made.web + 1 /\ next.config = made.config
        /\ next.wakes = made.wakes
    BY <1>4 DEF Made
  <2>2. made.web <= h.retries + made.wakes /\ made.config <= Bound(made)
    BY <1>2, <1>4 DEF RequestsFit
  <2>3. /\ next.web <= h.retries + 1 + next.wakes
        /\ next.config <= Bound(next) /\ next.web <= Bound(next)
    BY <1>1, <1>2, <2>1, <2>2 DEF Bound
  <2>4. CASE Place(op) = h.state /\ Tries(op) = h.retries + 1
    BY <1>4, <2>3, <2>4 DEF RequestsFit, Early, Caching
  <2>5. CASE Place(op) \notin Counting
    BY <2>3, <2>5 DEF RequestsFit, Counting
  <2> QED BY <1>4, <2>4, <2>5
<1> QED BY <1>3, <1>4

\* A chain starts without requests.
LEMMA CountsBegin ==
  ASSUME NEW op,
         Place(op) \in {"LoadConfigFile", "CheckForCachedWebViewUpdate"}
  PROVE  RequestsFit(op, NoRequests)
<1>1. NoRequests.config = 0 /\ NoRequests.web = 0 /\ NoRequests.wakes = 0
  BY DEF NoRequests
<1>2. MaxRetries \in Nat
  BY BoundAssumption
<1> QED BY <1>1, <1>2 DEF RequestsFit, Bound

\* The step of an operation that makes a sound one of the next.
HandsOn ==
  \E op \in Operation :
    /\ queue' = <<op>>
    /\ Sound(op, sdkVersion, requests', webFile', currentApp')

\* A new operation that makes no requirements is sound.
LEMMA PlainIsSound ==
  ASSUME TypeOK, HeadIsSound, queue # <<>>, UNCHANGED requests,
         NEW state \in NamedOperations \ {"Create", "Complete"},
         NEW c \in Config \cup {NoConfig},
         queue' = <<Op(state, c)>>,
         state \in Configured => c # NoConfig,
         state \in Loading => c.sdk = sdkVersion,
         \/ state \notin Counting
         \/ Place(running) \in Early /\ state \in Early \cup {"Config"}
         \/ /\ Place(running) \in Caching \cup {"CheckForCachedWebViewUpdate"}
            /\ state \in Caching \cup {"LoadWeb", "DownloadLatestWebView"}
  PROVE  HandsOn
<1>1. PICK h, op, version :
        h = running /\ op = Op(state, c) /\ version = sdkVersion
  OBVIOUS
<1>2. OperationFits(h, version) /\ RequestsFit(h, requests)
  BY <1>1 DEF HeadIsSound, Sound
<1>3. OperationFits(op, version) /\ Place(op) = state /\ op.state = state
  BY <1>1, NewOperationFits DEF Op
<1>4. requests \in Made
  BY DEF TypeOK, Made
<1>5. RequestsFit(op, requests)
  BY <1>1, <1>2, <1>3, <1>4, CountsCarryOver
<1>6. op \in Operation
  BY <1>3 DEF OperationFits
<1> QED BY <1>1, <1>3, <1>5, <1>6 DEF HandsOn, Sound

\* The operation that runs, when there is one.
LEMMA WhatRuns ==
  ASSUME TypeOK, HeadIsSound, NEW state, Runs(state)
  PROVE  /\ queue # <<>> /\ OneRuns /\ running.state = state
         /\ OperationFits(running, sdkVersion) /\ RequestsFit(running, requests)
         /\ running.config \in Config \cup {NoConfig}
         /\ running.local \in Config \cup {NoConfig}
         /\ running.retries \in 0..MaxRetries
         /\ state \notin {"Retry", "NetworkError"} => Place(running) = state
         /\ state \in Configured => running.config \in Config
         /\ state \in Loading => running.config.sdk = sdkVersion
         /\ requests \in Made
<1>1. queue # <<>> /\ running.state = state
  BY DEF Runs
<1>2. queue = <<running>> /\ OperationFits(running, sdkVersion)
      /\ RequestsFit(running, requests)
  BY <1>1 DEF HeadIsSound, Sound
<1>3. OneRuns
  BY <1>1, <1>2 DEF OneRuns
<1>4. requests \in Made
  BY DEF TypeOK, Made
<1>5. PICK h, version : h = running /\ version = sdkVersion
  OBVIOUS
<1>6. OperationFits(h, version) /\ h.state = state
  BY <1>1, <1>2, <1>5
<1>7. /\ h.config \in Config \cup {NoConfig}
      /\ h.local \in Config \cup {NoConfig} /\ h.retries \in 0..MaxRetries
      /\ h.state \notin {"Retry", "NetworkError"} => Place(h) = h.state
      /\ h.state \in Configured => h.config \in Config
      /\ h.state \in Loading => h.config.sdk = version
  BY <1>6, RunningTypes
<1> QED BY <1>1, <1>2, <1>3, <1>4, <1>5, <1>6, <1>7

\* The states that lead to a configuration.
LEMMA EarlyStates ==
  ASSUME TypeOK, HeadIsSound,
         \/ LoadConfigFile \/ ResetNoApp \/ EndReset \/ ResetTimesOut
         \/ InitModules
  PROVE  HandsOn
<1>1. UNCHANGED requests
  BY DEF LoadConfigFile, ResetNoApp, EndReset, ResetTimesOut, InitModules,
         OnlyQueue, OnlyQueues, counters
<1>2. PICK state \in {"LoadConfigFile", "Reset", "InitModules"} : Runs(state)
  BY DEF LoadConfigFile, ResetNoApp, EndReset, ResetTimesOut, InitModules
<1>3. /\ queue # <<>> /\ OneRuns /\ Place(running) \in Early
      /\ running.config \in Config \cup {NoConfig}
      /\ configFile \in Config \cup {NoConfig}
  BY <1>2, WhatRuns DEF Early, TypeOK
<1>4. \E next \in {"Reset", "InitModules", "Config", "Error"},
         c \in Config \cup {NoConfig} : queue' = <<Op(next, c)>>
  <2>1. CASE LoadConfigFile
    BY <1>3, <2>1, QueueOfOne DEF LoadConfigFile
  <2>2. CASE ResetNoApp \/ EndReset
    BY <1>3, <2>2, QueueOfOne DEF ResetNoApp, EndReset
  <2>3. CASE ResetTimesOut
    BY <1>3, <2>3, QueueOfOne DEF ResetTimesOut
  <2>4. CASE InitModules
    BY <1>3, <2>4, QueueOfOne DEF InitModules
  <2> QED BY <2>1, <2>2, <2>3, <2>4
<1>5. PICK next \in {"Reset", "InitModules", "Config", "Error"},
           c \in Config \cup {NoConfig} : queue' = <<Op(next, c)>>
  BY <1>4
<1>6. /\ next \in NamedOperations \ {"Create", "Complete"}
      /\ next \notin Configured /\ next \notin Loading
      /\ next \notin Counting \/ next \in Early \cup {"Config"}
  BY <1>5 DEF NamedOperations, States, Configured, Loading, Caching,
              Background, Counting, Early
<1> QED BY <1>1, <1>3, <1>5, <1>6, PlainIsSound

\* States that wait.
LEMMA WaitingStates ==
  ASSUME TypeOK, HeadIsSound, queue # <<>>, UNCHANGED requests,
         \/ running.state = "Reset" /\ Waits("waiting")
         \/ running.state = "Reset" /\ Waits("woken")
         \/ /\ running.state = "NetworkError" /\ running.wait = "no"
            /\ Waits("waiting")
  PROVE  HandsOn
<1>1. OneRuns /\ OperationFits(running, sdkVersion)
      /\ RequestsFit(running, requests)
  BY DEF HeadIsSound, Sound, OneRuns
<1>2. PICK how \in {"waiting", "woken"} :
        /\ Waits(how)
        /\ \/ running.state = "Reset"
           \/ /\ running.state = "NetworkError" /\ running.wait = "no"
              /\ how = "waiting"
  OBVIOUS
<1>3. PICK op \in Operation :
        /\ queue' = <<op>> /\ OperationFits(op, sdkVersion)
        /\ op.state = running.state /\ op.wait = how
        /\ Place(op) = Place(running) /\ op.retries = running.retries
  BY <1>1, <1>2, Waiting
<1>4. PICK h, version : h = running /\ version = sdkVersion
  OBVIOUS
<1>5. Tries(op) = Tries(h)
  BY <1>2, <1>3, <1>4 DEF Tries
<1>6. requests \in Made
  BY DEF TypeOK, Made
<1>7. RequestsFit(op, requests)
  BY <1>1, <1>3, <1>4, <1>5, <1>6, CountsCarryOver
<1>8. op.state \notin {"Create", "Complete"}
  BY <1>2, <1>3
<1> QED BY <1>3, <1>7, <1>8 DEF HandsOn, Sound

\* States that go back to another.
LEMMA StatesGoBack ==
  ASSUME TypeOK, HeadIsSound, Retry \/ EndNetworkError
  PROVE  HandsOn
<1>1. UNCHANGED requests /\ GoBack
  BY DEF Retry, EndNetworkError, OnlyQueue, OnlyQueues, counters
<1>2. /\ running.state \in {"Retry", "NetworkError"} /\ queue # <<>> /\ OneRuns
      /\ OperationFits(running, sdkVersion) /\ RequestsFit(running, requests)
      /\ requests \in Made
      /\ running.state = "NetworkError" => running.wait = "woken"
  BY WhatRuns DEF Retry, EndNetworkError
<1>3. PICK op \in Operation :
        /\ queue' = <<op>> /\ OperationFits(op, sdkVersion)
        /\ op.state \in Requesting
        /\ Place(op) = Place(running) /\ Tries(op) = running.retries
  BY <1>1, <1>2, GoingBack
<1>4. PICK h, version : h = running /\ version = sdkVersion
  OBVIOUS
<1>5. Tries(op) = Tries(h)
  BY <1>2, <1>3, <1>4 DEF Tries
<1>6. RequestsFit(op, requests)
  BY <1>2, <1>3, <1>4, <1>5, CountsCarryOver
<1>7. op.state \notin {"Create", "Complete"}
  BY <1>3 DEF Requesting
<1> QED BY <1>1, <1>3, <1>6, <1>7 DEF HandsOn, Sound

\* Failed requests.
LEMMA FailedRequests ==
  ASSUME TypeOK, HeadIsSound, ConfigFails \/ WebFails
           \/ (DownloadFails /\ running.retries < MaxRetries)
  PROVE  HandsOn
<1>1. TryAgain(running.config)
  BY DEF ConfigFails, WebFails, DownloadFails
<1>2. \/ Runs("Config") /\ requests' = [requests EXCEPT !.config = @ + 1]
      \/ /\ Runs("LoadWeb") \/ Runs("DownloadLatestWebView")
         /\ requests' = [requests EXCEPT !.web = @ + 1]
  BY DEF ConfigFails, WebFails, DownloadFails, Requested
<1>3. PICK state \in Requesting : Runs(state)
  BY <1>2 DEF Requesting
<1>4. /\ running.state = state /\ queue # <<>> /\ OneRuns
      /\ OperationFits(running, sdkVersion) /\ RequestsFit(running, requests)
      /\ requests \in Made
  BY <1>3, WhatRuns
<1>5. PICK op \in Operation :
        /\ queue' = <<op>> /\ OperationFits(op, sdkVersion)
        /\ op.state \in {"Retry", "NetworkError"}
        /\ Place(op) = running.state /\ Tries(op) = running.retries + 1
  BY <1>1, <1>4, TryingAgain
<1>6. PICK h, version, made, next :
        /\ h = running /\ version = sdkVersion
        /\ made = requests /\ next = requests'
  OBVIOUS
<1>7. \/ h.state = "Config" /\ next = [made EXCEPT !.config = @ + 1]
      \/ /\ h.state \in {"LoadWeb", "DownloadLatestWebView"}
         /\ next = [made EXCEPT !.web = @ + 1]
  BY <1>2, <1>6 DEF Runs
<1>8. RequestsFit(op, next)
  BY <1>4, <1>5, <1>6, <1>7, CountsGoOn
<1> QED BY <1>5, <1>6, <1>8 DEF HandsOn, Sound

\* A state that creates the page finds it in the file.
LEMMA CreatingIsSound ==
  ASSUME TypeOK, HeadIsSound, NEW c \in Config, c.sdk = sdkVersion,
         queue' = <<Op("Create", c)>>, requests' \in Made,
         requests'.config <= Bound(requests'), requests'.web <= Bound(requests'),
         PageFits(c, TRUE, webFile')
  PROVE  HandsOn
<1>1. "Create" \in NamedOperations /\ "Create" \notin Counting
  BY DEF NamedOperations, States, Counting, Early, Caching
<1>2. c # NoConfig
  BY ConfigTypes
<1>3. PICK op, version, made :
        op = Op("Create", c) /\ version = sdkVersion /\ made = requests'
  OBVIOUS
<1>4. OperationFits(op, version) /\ Place(op) = "Create"
  BY <1>1, <1>2, <1>3, NewOperationFits
<1>5. op.state = "Create" /\ op.config = c /\ op.saved = TRUE
  BY <1>3 DEF Op
<1>6. RequestsFit(op, made)
  BY <1>1, <1>3, <1>4 DEF RequestsFit, Counting
<1>7. op \in Operation
  BY <1>4 DEF OperationFits
<1> QED BY <1>3, <1>4, <1>5, <1>6, <1>7 DEF HandsOn, Sound

\* The configuration has come, or the game is disabled.
LEMMA ConfigStates ==
  ASSUME TypeOK, HeadIsSound,
         (\E c \in Served : ConfigReceived(c)) \/ ConfigIsDisabled
  PROVE  HandsOn
<1>1. Runs("Config") /\ requests' = [requests EXCEPT !.config = @ + 1]
  BY DEF ConfigReceived, ConfigIsDisabled
<1>2. /\ running.state = "Config" /\ queue # <<>> /\ OneRuns
      /\ OperationFits(running, sdkVersion) /\ RequestsFit(running, requests)
      /\ requests \in Made /\ running.config \in Config \cup {NoConfig}
  BY <1>1, WhatRuns
<1>3. sdkVersion \in Nat
  BY BoundAssumption DEF TypeOK
<1>4. ASSUME NEW op \in Operation, queue' = <<op>>,
             OperationFits(op, sdkVersion),
             \/ Place(op) \in Caching
             \/ Place(op) \notin Counting,
             op.state \notin {"Create", "Complete"}
      PROVE  HandsOn
  <2>1. PICK h, version, made, next :
          /\ h = running /\ version = sdkVersion
          /\ made = requests /\ next = requests'
    OBVIOUS
  <2>2. RequestsFit(op, next)
    BY <1>1, <1>2, <1>4, <2>1, CountsGoOn
  <2> QED BY <1>4, <2>1, <2>2 DEF HandsOn, Sound
<1>5. ASSUME NEW c \in Served, ConfigReceived(c) PROVE HandsOn
  <2>1. PICK received :
          received = [hash |-> c.hash, delay |-> c.delay,
                      source |-> c.source, sdk |-> sdkVersion]
    OBVIOUS
  <2>2. received \in Config /\ received.sdk = sdkVersion /\ received # NoConfig
    BY <1>3, <2>1, ServedAssumption, ConfigTypes DEF Config
  <2>3. CASE c.delay
    <3>1. PICK op : op = [Op("LoadCacheConfigAndWebView", received)
                            EXCEPT !.local = running.config]
      OBVIOUS
    <3>2. queue' = <<op>>
      BY <1>2, <1>5, <2>1, <2>3, <3>1, QueueOfOne DEF ConfigReceived
    <3>3. /\ op.state = "LoadCacheConfigAndWebView" /\ op.config = received
      BY <3>1 DEF Op
    <3>4. op \in Operation
      <4>1. Op("LoadCacheConfigAndWebView", received) \in Operation
        BY <2>2, OperationType DEF States
      <4> QED BY <1>2, <3>1, <4>1 DEF Operation
    <3>5. Place(op) = "LoadCacheConfigAndWebView"
      BY <3>3 DEF Place
    <3>6. OperationFits(op, sdkVersion) /\ Place(op) \in Caching
      BY <2>2, <3>3, <3>4, <3>5 DEF OperationFits, Caching
    <3> QED BY <1>4, <3>2, <3>3, <3>4, <3>6
  <2>4. CASE ~ c.delay
    <3>1. PICK op : op = Op("LoadCache", received)
      OBVIOUS
    <3>2. queue' = <<op>>
      BY <1>2, <1>5, <2>1, <2>4, <3>1, QueueOfOne DEF ConfigReceived
    <3>3. "LoadCache" \in NamedOperations /\ "LoadCache" \in Caching
      BY DEF NamedOperations, States, Caching
    <3>4. /\ OperationFits(op, sdkVersion) /\ Place(op) = "LoadCache"
          /\ op.state = "LoadCache"
      BY <2>2, <3>1, <3>3, NewOperationFits DEF Op
    <3>5. op \in Operation
      BY <3>4 DEF OperationFits
    <3> QED BY <1>4, <3>2, <3>3, <3>4, <3>5
  <2> QED BY <2>3, <2>4
<1>6. ASSUME ConfigIsDisabled PROVE HandsOn
  <2>1. PICK op : op = Op("Error", DefaultConfig)
    OBVIOUS
  <2>2. queue' = <<op>>
    BY <1>2, <1>6, <2>1, QueueOfOne DEF ConfigIsDisabled
  <2>3. /\ "Error" \in NamedOperations
        /\ "Error" \notin Configured \cup Loading \cup Counting
    BY DEF NamedOperations, States, Configured, Loading, Caching, Background,
           Counting, Early
  <2>4. /\ OperationFits(op, sdkVersion) /\ Place(op) = "Error"
        /\ op.state = "Error"
    BY <2>1, <2>3, ConfigTypes, NewOperationFits DEF Op
  <2>5. op \in Operation
    BY <2>4 DEF OperationFits
  <2> QED BY <1>4, <2>2, <2>3, <2>4, <2>5
<1> QED BY <1>5, <1>6

\* The states that look for the page in the file.
LEMMA CachingStates ==
  ASSUME TypeOK, HeadIsSound,
         \/ LoadCache \/ LoadCacheConfigAndWebView \/ CheckForUpdatedWebView
         \/ CleanCache
  PROVE  HandsOn
<1>1. UNCHANGED requests
  BY DEF LoadCache, LoadCacheConfigAndWebView, CheckForUpdatedWebView,
         CleanCache, OnlyQueue, OnlyQueues, counters
<1>2. PICK state \in Caching : Runs(state)
  BY DEF LoadCache, LoadCacheConfigAndWebView, CheckForUpdatedWebView,
         CleanCache, Caching
<1>3. /\ running.state = state /\ queue # <<>> /\ OneRuns
      /\ OperationFits(running, sdkVersion) /\ RequestsFit(running, requests)
      /\ requests \in Made /\ running.config \in Config
      /\ running.config # NoConfig /\ running.config.sdk = sdkVersion
      /\ running.local \in Config \cup {NoConfig}
      /\ Place(running) = state
  <2>1. state \in Loading /\ state \in Configured
        /\ state \notin {"Retry", "NetworkError"}
    BY DEF Loading, Configured, Caching
  <2> QED BY <1>2, <2>1, WhatRuns, ConfigTypes
<1>4. requests.config <= Bound(requests) /\ requests.web <= Bound(requests)
  BY <1>3 DEF RequestsFit
<1>5. ASSUME queue' = <<Op("LoadWeb", running.config)>> PROVE HandsOn
  <2>1. "LoadWeb" \in NamedOperations \ {"Create", "Complete"}
    BY DEF NamedOperations, States
  <2> QED BY <1>1, <1>3, <1>5, <2>1, PlainIsSound
<1>6. ASSUME NEW c \in Config, c.sdk = sdkVersion,
             webFile' = webFile, NEW hash \in FileHashes, hash = c.hash,
             queue' = <<Op("Create", c)>>
      PROVE  HandsOn
  <2>1. PageFits(c, TRUE, webFile)
    <3>1. ASSUME c.hash # NoHash PROVE webFile = c.hash
      <4>1. c.hash \in Versions
        BY <3>1, ConfigTypes
      <4>2. hash # NoContent
        BY <1>6, <4>1, NothingAssumption
      <4> QED BY <1>6, <4>2 DEF FileHashes
    <3> QED BY <3>1 DEF PageFits
  <2> QED BY <1>1, <1>3, <1>4, <1>6, <2>1, CreatingIsSound
<1>7. CASE LoadCache
  <2>1. webFile' = webFile
    BY <1>7 DEF LoadCache, OnlyQueue, OnlyQueues, files
  <2>2. PICK hash \in FileHashes : CreateOrLoad(hash = running.config.hash)
    BY <1>7 DEF LoadCache
  <2>3. CASE hash = running.config.hash
    <3>1. queue' = <<Op("Create", running.config)>>
      BY <1>3, <2>2, <2>3, QueueOfOne DEF CreateOrLoad
    <3> QED BY <1>3, <1>6, <2>1, <2>3, <3>1
  <2>4. CASE hash # running.config.hash
    <3>1. queue' = <<Op("LoadWeb", running.config)>>
      BY <1>3, <2>2, <2>4, QueueOfOne DEF CreateOrLoad
    <3> QED BY <1>5, <3>1
  <2> QED BY <2>3, <2>4
<1>8. CASE LoadCacheConfigAndWebView
  <2>1. PICK next \in {"CheckForUpdatedWebView", "CleanCache"} :
          queue' = <<[running EXCEPT !.state = next]>>
    BY <1>3, <1>8, QueueOfOne DEF LoadCacheConfigAndWebView
  <2>2. PICK h, version, op :
          /\ h = running /\ version = sdkVersion
          /\ op = [h EXCEPT !.state = next]
    OBVIOUS
  <2>3. h \in Operation /\ h.state = state
    BY <1>3, <2>2 DEF OperationFits
  <2>4. /\ op \in Operation /\ op.state = next /\ op.config = h.config
        /\ op.retries = h.retries
    BY <2>2, <2>3 DEF Operation, States
  <2>5. Place(op) = next /\ next \in Caching
        /\ next \notin {"Retry", "NetworkError", "Create", "Complete"}
    BY <2>4 DEF Place, Caching
  <2>6. OperationFits(op, version)
    BY <1>3, <2>2, <2>4, <2>5 DEF OperationFits
  <2>7. RequestsFit(op, requests)
    BY <1>3, <2>2, <2>5, <2>6, CountsCarryOver
  <2> QED BY <1>1, <2>1, <2>2, <2>4, <2>5, <2>6, <2>7 DEF HandsOn, Sound
<1>9. CASE CheckForUpdatedWebView
  <2>1. webFile' = webFile
    BY <1>9 DEF CheckForUpdatedWebView, files
  <2>2. PICK hash \in FileHashes :
          IF hash # NoContent /\ LocalFits(hash)
          THEN Continue(Op("Create", running.local))
          ELSE CreateOrLoad(hash = running.config.hash)
    BY <1>9 DEF CheckForUpdatedWebView
  <2>3. CASE hash # NoContent /\ LocalFits(hash)
    <3>1. queue' = <<Op("Create", running.local)>>
      BY <1>3, <2>2, <2>3, QueueOfOne
    <3>2. /\ running.local \in Config /\ hash = running.local.hash
          /\ running.local.sdk = sdkVersion
      BY <1>3, <2>3 DEF LocalFits
    <3> QED BY <1>6, <2>1, <3>1, <3>2
  <2>4. CASE ~(hash # NoContent /\ LocalFits(hash)) /\ hash = running.config.hash
    <3>1. queue' = <<Op("Create", running.config)>>
      BY <1>3, <2>2, <2>4, QueueOfOne DEF CreateOrLoad
    <3> QED BY <1>3, <1>6, <2>1, <2>4, <3>1
  <2>5. CASE ~(hash # NoContent /\ LocalFits(hash)) /\ hash # running.config.hash
    <3>1. queue' = <<Op("LoadWeb", running.config)>>
      BY <1>3, <2>2, <2>5, QueueOfOne DEF CreateOrLoad
    <3> QED BY <1>5, <3>1
  <2> QED BY <2>3, <2>4, <2>5
<1>10. CASE CleanCache
  <2>1. queue' = <<Op("LoadWeb", running.config)>>
    BY <1>3, <1>10, QueueOfOne DEF CleanCache
  <2> QED BY <1>5, <2>1
<1> QED BY <1>7, <1>8, <1>9, <1>10

\* The page is there, or was not got.
LEMMA PageStates ==
  ASSUME TypeOK, HeadIsSound,
         \/ \E r \in Versions, s \in BOOLEAN : WebReceived(r, s)
         \/ WebIsMalformed \/ WebIsDownloaded \/ WebIsRemote
  PROVE  HandsOn
<1>1. Runs("LoadWeb")
  BY DEF WebReceived, WebIsMalformed, WebIsDownloaded, WebIsRemote
<1>2. /\ running.state = "LoadWeb" /\ queue # <<>> /\ OneRuns
      /\ OperationFits(running, sdkVersion) /\ RequestsFit(running, requests)
      /\ requests \in Made /\ running.config \in Config
      /\ running.config # NoConfig /\ running.config.sdk = sdkVersion
  <2>1. "LoadWeb" \in Loading /\ "LoadWeb" \in Configured
    BY DEF Loading, Configured
  <2> QED BY <1>1, <2>1, WhatRuns, ConfigTypes
<1>3. /\ "Error" \in NamedOperations \ {"Create", "Complete"}
      /\ "Error" \notin Configured \cup Loading \cup Counting
      /\ "Create" \in NamedOperations /\ "Create" \notin Counting
      /\ "Create" \in States /\ "Error" \in States
  BY DEF NamedOperations, States, Configured, Loading, Caching, Background,
         Counting, Early
<1>4. ASSUME NEW op \in Operation, queue' = <<op>>,
             op.state \in {"Create", "Error"}, op.config = running.config,
             Requested,
             op.state = "Create" => PageFits(op.config, op.saved, webFile')
      PROVE  HandsOn
  <2>1. PICK h, version, made, next :
          /\ h = running /\ version = sdkVersion
          /\ made = requests /\ next = requests'
    OBVIOUS
  <2>2. Place(op) = op.state
    BY <1>4 DEF Place
  <2>3. OperationFits(op, version)
    BY <1>2, <1>4, <2>1, <2>2 DEF OperationFits
  <2>4. RequestsFit(op, next)
    BY <1>2, <1>3, <1>4, <2>1, <2>2, <2>3, CountsGoOn DEF Requested
  <2> QED BY <1>4, <2>1, <2>3, <2>4 DEF HandsOn, Sound
<1>5. ASSUME NEW r \in Versions, NEW s \in BOOLEAN, WebReceived(r, s)
      PROVE  HandsOn
  <2>1. PICK state \in {"Create", "Error"} :
          state = IF running.config.hash \in {NoHash, r}
                  THEN "Create" ELSE "Error"
    OBVIOUS
  <2>2. PICK op : op = [Op(state, running.config) EXCEPT !.saved = s]
    OBVIOUS
  <2>3. queue' = <<op>>
    BY <1>2, <1>5, <2>1, <2>2, QueueOfOne DEF WebReceived
  <2>4. op.state = state /\ op.config = running.config /\ op.saved = s
    BY <2>2 DEF Op
  <2>5. op \in Operation
    <3>1. Op(state, running.config) \in Operation
      BY <1>2, <1>3, OperationType
    <3> QED BY <2>2, <3>1 DEF Operation
  <2>6. state = "Create" => PageFits(op.config, op.saved, webFile')
    BY <1>5, <2>1, <2>4 DEF PageFits, WebReceived
  <2>7. Requested
    BY <1>5 DEF WebReceived
  <2> QED BY <1>4, <2>3, <2>4, <2>5, <2>6, <2>7
<1>6. ASSUME WebIsDownloaded PROVE HandsOn
  <2>1. PICK state \in {"Create", "Error"} : GoTo(state)
    BY <1>6 DEF WebIsDownloaded, Fail
  <2>2. PICK op : op = Op(state, running.config)
    OBVIOUS
  <2>3. queue' = <<op>>
    BY <1>2, <2>1, <2>2, QueueOfOne
  <2>4. op.state = state /\ op.config = running.config /\ op \in Operation
    BY <1>2, <1>3, <2>2, OperationType DEF Op
  <2>5. PageFits(op.config, op.saved, webFile')
    BY <1>6, <2>4 DEF PageFits, WebIsDownloaded
  <2>6. Requested
    BY <1>6 DEF WebIsDownloaded
  <2> QED BY <1>4, <2>3, <2>4, <2>5, <2>6
<1>7. ASSUME WebIsMalformed PROVE HandsOn
  <2>1. queue' = <<Op("Error", running.config)>> /\ UNCHANGED requests
    BY <1>2, <1>7, QueueOfOne
    DEF WebIsMalformed, OnlyQueue, OnlyQueues, counters
  <2> QED BY <1>2, <1>3, <2>1, PlainIsSound
<1>8. ASSUME WebIsRemote PROVE HandsOn
  <2>1. queue' = <<Op("Create", running.config)>> /\ UNCHANGED requests
    BY <1>2, <1>8, QueueOfOne DEF WebIsRemote, OnlyQueue, OnlyQueues, counters
  <2>2. PageFits(running.config, TRUE, webFile')
    BY <1>8 DEF PageFits, WebIsRemote
  <2>3. requests.config <= Bound(requests) /\ requests.web <= Bound(requests)
    BY <1>2 DEF RequestsFit
  <2> QED BY <1>2, <2>1, <2>2, <2>3, CreatingIsSound
<1> QED BY <1>5, <1>6, <1>7, <1>8

\* The creation is over, and the initialization with it.
LEMMA EndingStates ==
  ASSUME TypeOK, HeadIsSound, InitializedHasSaidSo,
         \/ CreateOnMain /\ Fail
         \/ CreateTimesOut \/ CreateEnds \/ Complete \/ Error
         \/ NetworkErrorTimesOut
  PROVE  HandsOn
<1>1. UNCHANGED requests
  BY DEF CreateOnMain, CreateTimesOut, CreateEnds, Complete, Error,
         NetworkErrorTimesOut, OnlyQueues, counters
<1>2. PICK state \in {"Create", "Complete", "Error", "NetworkError"} :
        Runs(state)
  BY DEF CreateOnMain, CreateTimesOut, CreateEnds, Complete, Error,
         NetworkErrorTimesOut
<1>3. /\ running.state = state /\ queue # <<>> /\ OneRuns
      /\ OperationFits(running, sdkVersion) /\ RequestsFit(running, requests)
      /\ requests \in Made /\ running.config \in Config \cup {NoConfig}
  BY <1>2, WhatRuns
<1>4. /\ "Error" \in NamedOperations \ {"Create", "Complete"}
      /\ "Error" \notin Configured \cup Loading \cup Counting
      /\ "Done" \in NamedOperations \ {"Create", "Complete"}
      /\ "Done" \notin Configured \cup Loading \cup Counting
      /\ "Complete" \in NamedOperations
      /\ "Complete" \notin Configured \cup Loading \cup Counting
  BY DEF NamedOperations, States, Configured, Loading, Caching, Background,
         Counting, Early
<1>5. CASE Fail
  <2>1. queue' = <<Op("Error", running.config)>>
    BY <1>3, <1>5, QueueOfOne
  <2> QED BY <1>1, <1>3, <1>4, <2>1, PlainIsSound
<1>6. CASE Complete \/ Error
  <2>1. queue' = <<Op("Done", NoConfig)>>
    BY <1>3, <1>6, QueueOfOne DEF Complete, Error
  <2> QED BY <1>1, <1>3, <1>4, <2>1, PlainIsSound
<1>7. CASE CreateEnds
  <2>1. PICK success \in BOOLEAN :
          /\ CreationIsOver(success)
          /\ GoTo(IF success THEN "Complete" ELSE "Error")
    BY <1>7 DEF CreateEnds
  <2>2. CASE success = FALSE
    <3>1. queue' = <<Op("Error", running.config)>>
      BY <1>3, <2>1, <2>2, QueueOfOne
    <3> QED BY <1>1, <1>3, <1>4, <3>1, PlainIsSound
  <2>3. CASE success = TRUE
    <3>1. queue' = <<Op("Complete", running.config)>>
      BY <1>3, <2>1, <2>3, QueueOfOne
    <3>2. currentApp' = currentApp /\ currentApp # NoApp /\ currentApp.said
      BY <2>1, <2>3 DEF CreationIsOver, Done, InitializedHasSaidSo
    <3>3. PICK op, h, version :
            /\ op = Op("Complete", running.config)
            /\ h = running /\ version = sdkVersion
      OBVIOUS
    <3>4. OperationFits(op, version) /\ Place(op) = "Complete"
          /\ op.state = "Complete"
      BY <1>3, <1>4, <3>3, NewOperationFits DEF Op
    <3>5. RequestsFit(op, requests)
      BY <1>3, <1>4, <3>3, <3>4, CountsCarryOver
    <3>6. op \in Operation
      BY <3>4 DEF OperationFits
    <3> QED BY <1>1, <3>1, <3>2, <3>3, <3>4, <3>5, <3>6 DEF HandsOn, Sound
  <2> QED BY <2>2, <2>3
<1> QED BY <1>5, <1>6, <1>7 DEF CreateOnMain, CreateTimesOut,
                                NetworkErrorTimesOut

\* The background download.
LEMMA BackgroundStates ==
  ASSUME TypeOK, HeadIsSound,
         \/ CheckForCachedWebViewUpdate
         \/ \E r \in Versions, s \in BOOLEAN : DownloadReceived(r, s)
         \/ DownloadFails /\ ~(running.retries < MaxRetries)
         \/ DownloadIsMalformed \/ UpdateWebFile \/ UpdateConfigFile
  PROVE  HandsOn
<1>1. PICK state \in Background : Runs(state)
  BY DEF CheckForCachedWebViewUpdate, DownloadReceived, DownloadFails,
         DownloadIsMalformed, UpdateWebFile, UpdateConfigFile, Background
<1>2. /\ running.state = state /\ queue # <<>> /\ OneRuns
      /\ OperationFits(running, sdkVersion) /\ RequestsFit(running, requests)
      /\ requests \in Made /\ running.config \in Config
      /\ running.config # NoConfig /\ Place(running) = state
  <2>1. state \in Configured /\ state \notin {"Retry", "NetworkError"}
    BY <1>1 DEF Configured, Background
  <2> QED BY <1>1, <2>1, WhatRuns, ConfigTypes
<1>3. /\ "Done" \in NamedOperations \ {"Create", "Complete"}
      /\ "Done" \notin Configured \cup Loading \cup Counting
      /\ "UpdateCache" \in NamedOperations \ {"Create", "Complete"}
      /\ "UpdateCache" \notin Loading \cup Counting
      /\ "DownloadLatestWebView" \in NamedOperations \ {"Create", "Complete"}
      /\ "DownloadLatestWebView" \notin Loading
      /\ "UpdateCache" \in States /\ "Done" \in States
  BY DEF NamedOperations, States, Configured, Loading, Caching, Background,
         Counting, Early
<1>4. ASSUME Return, UNCHANGED requests PROVE HandsOn
  <2>1. queue' = <<Op("Done", NoConfig)>>
    BY <1>2, <1>4, QueueOfOne
  <2> QED BY <1>2, <1>3, <1>4, <2>1, PlainIsSound
<1>5. ASSUME NEW op \in Operation, queue' = <<op>>,
             state = "DownloadLatestWebView", Requested,
             op.state \in {"UpdateCache", "Done"},
             op.state = "UpdateCache" => op.config # NoConfig
      PROVE  HandsOn
  <2>1. PICK h, version, made, next :
          /\ h = running /\ version = sdkVersion
          /\ made = requests /\ next = requests'
    OBVIOUS
  <2>2. Place(op) = op.state
    BY <1>5 DEF Place
  <2>3. OperationFits(op, version)
    BY <1>3, <1>5, <2>2 DEF OperationFits
  <2>4. RequestsFit(op, next)
    BY <1>2, <1>3, <1>5, <2>1, <2>2, <2>3, CountsGoOn DEF Requested
  <2> QED BY <1>5, <2>1, <2>3, <2>4 DEF HandsOn, Sound
<1>6. ASSUME Return, Requested, state = "DownloadLatestWebView" PROVE HandsOn
  <2>1. PICK op : op = Op("Done", NoConfig)
    OBVIOUS
  <2>2. queue' = <<op>>
    BY <1>2, <1>6, <2>1, QueueOfOne
  <2>3. op.state = "Done" /\ op \in Operation
    BY <1>3, <2>1, OperationType DEF Op
  <2> QED BY <1>5, <1>6, <2>2, <2>3
<1>7. ASSUME CheckForCachedWebViewUpdate PROVE HandsOn
  <2>1. PICK next \in {"UpdateCache", "DownloadLatestWebView"} : GoTo(next)
    BY <1>7 DEF CheckForCachedWebViewUpdate
  <2>2. queue' = <<Op(next, running.config)>> /\ UNCHANGED requests
    BY <1>2, <1>7, <2>1, QueueOfOne
    DEF CheckForCachedWebViewUpdate, OnlyQueue, OnlyQueues, counters
  <2>3. Place(running) = "CheckForCachedWebViewUpdate"
    BY <1>2, <1>7 DEF CheckForCachedWebViewUpdate, Runs
  <2> QED BY <1>2, <1>3, <2>2, <2>3, PlainIsSound
<1>8. ASSUME NEW r \in Versions, NEW s \in BOOLEAN, DownloadReceived(r, s)
      PROVE  HandsOn
  <2>1. state = "DownloadLatestWebView" /\ Requested
    BY <1>2, <1>8 DEF DownloadReceived, Runs
  <2>2. CASE running.config.hash \in {NoHash, r}
    <3>1. PICK op : op = [Op("UpdateCache", running.config) EXCEPT !.data = r]
      OBVIOUS
    <3>2. queue' = <<op>>
      BY <1>2, <1>8, <2>2, <3>1, QueueOfOne DEF DownloadReceived
    <3>3. op.state = "UpdateCache" /\ op.config = running.config
      BY <3>1 DEF Op
    <3>4. op \in Operation
      <4>1. Op("UpdateCache", running.config) \in Operation
        BY <1>2, <1>3, OperationType
      <4> QED BY <3>1, <4>1 DEF Operation
    <3> QED BY <1>2, <1>5, <2>1, <3>2, <3>3, <3>4
  <2>3. CASE ~(running.config.hash \in {NoHash, r})
    BY <1>6, <1>8, <2>1, <2>3 DEF DownloadReceived
  <2> QED BY <2>2, <2>3
<1>9. ASSUME DownloadFails, ~(running.retries < MaxRetries) PROVE HandsOn
  BY <1>2, <1>6, <1>9 DEF DownloadFails, Runs
<1>10. ASSUME DownloadIsMalformed PROVE HandsOn
  BY <1>4, <1>10 DEF DownloadIsMalformed, OnlyQueue, OnlyQueues, counters
<1>11. ASSUME UpdateConfigFile PROVE HandsOn
  BY <1>4, <1>11 DEF UpdateConfigFile, counters
<1>12. ASSUME UpdateWebFile PROVE HandsOn
  <2>1. PICK h, version, op :
          /\ h = running /\ version = sdkVersion
          /\ op = [h EXCEPT !.data = NoContent]
    OBVIOUS
  <2>2. queue = <<h>>
    BY <1>2, <2>1, QueueOfOne
  <2>3. queue' = <<op>> /\ UNCHANGED requests
    BY <1>12, <2>1, <2>2 DEF UpdateWebFile, counters
  <2>4. h \in Operation /\ h.state = "UpdateCache" /\ h.config # NoConfig
    BY <1>2, <1>12, <2>1 DEF UpdateWebFile, Runs, OperationFits
  <2>5. /\ op \in Operation /\ op.state = "UpdateCache"
        /\ op.config # NoConfig /\ Place(op) = "UpdateCache"
    BY <2>1, <2>4 DEF Operation, Place
  <2>6. OperationFits(op, version)
    BY <1>3, <2>5 DEF OperationFits
  <2>7. RequestsFit(op, requests)
    BY <1>2, <1>3, <2>1, <2>5, <2>6, CountsCarryOver
  <2> QED BY <2>1, <2>3, <2>5, <2>6, <2>7 DEF HandsOn, Sound
<1> QED BY <1>7, <1>8, <1>9, <1>10, <1>11, <1>12

\* A connection ends the wait: one try less is used up, and one more allowed.
LEMMA ConnectionsCount ==
  ASSUME TypeOK, HeadIsSound, WakeUp
  PROVE  HandsOn
<1>1. /\ Runs("NetworkError") /\ running.wait = "waiting" /\ Waits("woken")
      /\ requests' = [requests EXCEPT !.wakes = @ + 1]
      /\ requests.wakes < MaxWakes
  BY DEF WakeUp
<1>2. /\ running.state = "NetworkError" /\ queue # <<>> /\ OneRuns
      /\ OperationFits(running, sdkVersion) /\ RequestsFit(running, requests)
      /\ requests \in Made
  BY <1>1, WhatRuns
<1>3. PICK op \in Operation :
        /\ queue' = <<op>> /\ OperationFits(op, sdkVersion)
        /\ op.state = running.state /\ op.wait = "woken"
        /\ Place(op) = Place(running) /\ op.retries = running.retries
  BY <1>1, <1>2, Waiting
<1>4. PICK h, version, made, next :
        /\ h = running /\ version = sdkVersion
        /\ made = requests /\ next = requests'
  OBVIOUS
<1>5. /\ made.config \in Nat /\ made.web \in Nat /\ made.wakes \in Nat
      /\ next.config = made.config /\ next.web = made.web
      /\ next.wakes = made.wakes + 1
  BY <1>1, <1>2, <1>4, BoundAssumption DEF Made
<1>6. /\ h.retries \in Nat /\ MaxRetries \in Nat
      /\ Tries(h) = h.retries + 1 /\ Tries(op) = h.retries
  BY <1>1, <1>2, <1>3, <1>4, RunningTypes DEF Tries
<1>7. RequestsFit(h, made) /\ Place(op) = Place(h)
  BY <1>2, <1>3, <1>4
<1>8. RequestsFit(op, next)
  BY <1>5, <1>6, <1>7 DEF RequestsFit, Bound
<1> QED BY <1>2, <1>3, <1>4, <1>8 DEF HandsOn, Sound

-----------------------------------------------------------------------------
(***************************************************************************)
(* The operation on the queue is sound, step by step.                      *)
(***************************************************************************)
LEMMA HandedOn ==
  ASSUME HandsOn, sdkVersion' = sdkVersion
  PROVE  HeadIsSound'
<1>1. PICK op \in Operation :
        /\ queue' = <<op>>
        /\ Sound(op, sdkVersion, requests', webFile', currentApp')
  BY DEF HandsOn
<1>2. queue' # <<>> /\ running' = op
  BY <1>1, Heads
<1> QED BY <1>1, <1>2 DEF HeadIsSound

LEMMA KeptInPlace ==
  ASSUME HeadIsSound, UNCHANGED <<queue, requests, sdkVersion, webFile>>,
         Runs("Complete") /\ currentApp # NoApp /\ currentApp.said
           => currentApp' # NoApp /\ currentApp'.said
  PROVE  HeadIsSound'
<1>1. CASE queue = <<>>
  BY <1>1 DEF HeadIsSound
<1>2. CASE queue # <<>>
  <2>1. PICK h : h = running
    OBVIOUS
  <2>2. running' = h /\ queue' # <<>>
    BY <1>2, <2>1 DEF running
  <2>3. /\ queue = <<h>>
        /\ Sound(h, sdkVersion, requests, webFile, currentApp)
    BY <1>2, <2>1 DEF HeadIsSound
  <2>4. h.state = "Complete" => currentApp' # NoApp /\ currentApp'.said
    BY <1>2, <2>1, <2>3 DEF Sound, Runs
  <2>5. Sound(h, sdkVersion', requests', webFile', currentApp')
    BY <2>3, <2>4 DEF Sound
  <2> QED BY <2>2, <2>3, <2>5 DEF HeadIsSound
<1> QED BY <1>1, <1>2

\* What the page says is not forgotten.
LEMMA SaidIsKept ==
  ASSUME TypeOK, NEW success \in BOOLEAN, CompleteInitialization(success)
  PROVE  /\ currentApp = NoApp => currentApp' = NoApp
         /\ currentApp # NoApp =>
              /\ currentApp' \in App /\ currentApp' # NoApp
              /\ currentApp'.config = currentApp.config
              /\ currentApp'.content = currentApp.content
              /\ currentApp'.saved = currentApp.saved
              /\ currentApp'.initialized = success
              /\ currentApp'.said = (currentApp.said \/ success)
<1>1. currentApp \in App \cup {NoApp}
  BY DEF TypeOK, AppTypeOK
<1>2. CASE currentApp = NoApp
  BY <1>2 DEF CompleteInitialization
<1>3. CASE currentApp # NoApp
  <2>1. PICK app \in App : app = currentApp
    BY <1>1, <1>3
  <2>2. currentApp' = [app EXCEPT !.initialized = success, !.done = TRUE,
                                  !.said = @ \/ success]
    BY <1>3, <2>1 DEF CompleteInitialization
  <2>3. PICK next : next = currentApp'
    OBVIOUS
  <2>4. /\ next.config = app.config /\ next.content = app.content
        /\ next.saved = app.saved /\ next.initialized = success
        /\ next.said = (app.said \/ success) /\ next \in App
    BY <2>2, <2>3 DEF App
  <2> QED BY <1>3, <2>1, <2>3, <2>4, NoConfigAssumption
<1> QED BY <1>2, <1>3

\* A chain begins on the idle queue.
LEMMA ChainsBegin ==
  ASSUME NEW state \in {"LoadConfigFile", "CheckForCachedWebViewUpdate"},
         NEW c \in Config \cup {NoConfig},
         queue' = <<Op(state, c)>>,
         requests' = NoRequests, sdkVersion' = sdkVersion,
         state = "CheckForCachedWebViewUpdate" => c # NoConfig
  PROVE  HeadIsSound'
<1>1. /\ state \in NamedOperations /\ state \notin Loading
      /\ state \notin {"Create", "Complete"}
      /\ state \in Configured => state = "CheckForCachedWebViewUpdate"
  BY DEF NamedOperations, States, Configured, Loading, Caching, Background
<1>2. PICK op, version : op = Op(state, c) /\ version = sdkVersion
  OBVIOUS
<1>3. OperationFits(op, version) /\ Place(op) = state /\ op.state = state
  BY <1>1, <1>2, NewOperationFits DEF Op
<1>4. RequestsFit(op, NoRequests)
  BY <1>3, CountsBegin
<1>5. op \in Operation
  BY <1>3 DEF OperationFits
<1>6. HandsOn
  BY <1>1, <1>2, <1>3, <1>4, <1>5 DEF HandsOn, Sound
<1> QED BY <1>6, HandedOn

\* Only another process may be another version.
LEMMA VersionStays ==
  ASSUME \/ QueueStep \/ MainStep \/ UNCHANGED vars
         \/ WakeUp \/ Start \/ PageCalls \/ Reinitialize \/ DownloadLatest
  PROVE  UNCHANGED process
<1>1. CASE QueueStep
  BY <1>1
  DEF QueueStep, LoadConfigFile, ResetNoApp, BeginReset, EndReset,
      ResetTimesOut, InitModules, ConfigReceived, ConfigFails,
      ConfigIsDisabled, Retry, BeginNetworkError, EndNetworkError,
      NetworkErrorTimesOut, LoadCache, LoadCacheConfigAndWebView,
      CheckForUpdatedWebView, CleanCache, WebReceived, WebFails,
      WebIsMalformed, WebIsDownloaded, WebIsRemote, CreateOnMain,
      CreateStarts, CreateTimesOut, CreateEnds, Complete, Error, Leave,
      CheckForCachedWebViewUpdate, DownloadReceived, DownloadFails,
      DownloadIsMalformed, UpdateWebFile, UpdateConfigFile,
      OnlyQueues, OnlyQueue, OnlyQueueAndRequests
<1>2. CASE MainStep
  BY <1>2 DEF MainStep, ResetView, StartListening, StopListening,
              NotifyComplete, NotifyFailed
<1>3. CASE \/ WakeUp \/ Start \/ PageCalls \/ Reinitialize
           \/ DownloadLatest
  BY <1>3 DEF WakeUp, Start, PageCalls, Reinitialize, DownloadLatest,
              OnlyQueueAndRequests, OnlyQueue, OnlyQueues
<1>4. CASE UNCHANGED vars
  BY <1>4 DEF vars
<1> QED BY <1>1, <1>2, <1>3, <1>4

\* A step of the queue hands on, keeps its operation, or leaves the queue
\* empty.
LEMMA QueueStepsAreSound ==
  ASSUME TypeOK, HeadIsSound, InitializedHasSaidSo, QueueStep
  PROVE  HeadIsSound'
<1>1. sdkVersion' = sdkVersion
  BY VersionStays DEF process
<1>2. CASE \/ LoadConfigFile \/ ResetNoApp \/ EndReset \/ ResetTimesOut
           \/ InitModules
  BY <1>1, <1>2, EarlyStates, HandedOn
<1>3. CASE BeginReset \/ BeginNetworkError
  <2>1. /\ queue # <<>> /\ UNCHANGED requests
        /\ \/ running.state = "Reset"
           \/ running.state = "NetworkError" /\ running.wait = "no"
        /\ Waits("waiting")
    BY <1>3 DEF BeginReset, BeginNetworkError, Runs, OnlyQueues, counters
  <2> QED BY <1>1, <2>1, WaitingStates, HandedOn
<1>4. CASE \/ \E c \in Served : ConfigReceived(c)
           \/ ConfigIsDisabled
  BY <1>1, <1>4, ConfigStates, HandedOn
<1>5. CASE ConfigFails \/ WebFails
  BY <1>1, <1>5, FailedRequests, HandedOn
<1>6. CASE Retry \/ EndNetworkError
  BY <1>1, <1>6, StatesGoBack, HandedOn
<1>7. CASE \/ LoadCache \/ LoadCacheConfigAndWebView \/ CleanCache
           \/ CheckForUpdatedWebView
  BY <1>1, <1>7, CachingStates, HandedOn
<1>8. CASE \/ \E r \in Versions, s \in BOOLEAN : WebReceived(r, s)
           \/ WebIsMalformed \/ WebIsDownloaded \/ WebIsRemote
  BY <1>1, <1>8, PageStates, HandedOn
<1>9. CASE \/ CreateTimesOut \/ CreateEnds \/ Complete \/ Error
           \/ NetworkErrorTimesOut
  BY <1>1, <1>9, EndingStates, HandedOn
<1>10. CASE CreateOnMain \/ CreateStarts
  <2>1. CASE CreateOnMain /\ Fail
    BY <1>1, <2>1, EndingStates, HandedOn
  <2>2. CASE UNCHANGED queue
    <3>1. UNCHANGED <<queue, requests, webFile>> /\ ~Runs("Complete")
      BY <1>10, <2>2 DEF CreateOnMain, CreateStarts, counters, files, Runs
    <3> QED BY <1>1, <3>1, KeptInPlace
  <2> QED BY <1>10, <2>1, <2>2 DEF CreateOnMain, CreateStarts
<1>11. CASE Leave
  <2>1. queue # <<>> /\ OneRuns
    BY <1>11, WhatRuns DEF Leave
  <2>2. queue' = <<>> /\ requests' = NoRequests
    BY <1>11, <2>1, QueueOfOne DEF Leave
  <2> QED BY <2>2 DEF HeadIsSound
<1>12. CASE DownloadFails
  <2>1. CASE running.retries < MaxRetries
    BY <1>1, <1>12, <2>1, FailedRequests, HandedOn
  <2>2. CASE ~(running.retries < MaxRetries)
    BY <1>1, <1>12, <2>2, BackgroundStates, HandedOn
  <2> QED BY <2>1, <2>2
<1>13. CASE \/ CheckForCachedWebViewUpdate
            \/ \E r \in Versions, s \in BOOLEAN : DownloadReceived(r, s)
            \/ DownloadIsMalformed \/ UpdateWebFile \/ UpdateConfigFile
  BY <1>1, <1>13, BackgroundStates, HandedOn
<1> QED BY <1>2, <1>3, <1>4, <1>5, <1>6, <1>7, <1>8, <1>9, <1>10, <1>11, <1>12,
           <1>13 DEF QueueStep

\* The main thread and the environment.
LEMMA OtherStepsAreSound ==
  ASSUME TypeOK, HeadIsSound, MainStep \/ Environment \/ UNCHANGED vars
  PROVE  HeadIsSound'
<1>2. CASE ResetView
  <2>1. sdkVersion' = sdkVersion /\ UNCHANGED <<requests, webFile, currentApp>>
    BY <1>2 DEF ResetView, process, files, counters
  <2>2. CASE Runs("Reset") /\ running.wait = "waiting"
    <3>1. queue # <<>> /\ running.state = "Reset" /\ Waits("woken")
      BY <1>2, <2>2 DEF ResetView, Runs
    <3> QED BY <2>1, <3>1, WaitingStates, HandedOn
  <2>3. CASE ~(Runs("Reset") /\ running.wait = "waiting")
    BY <1>2, <2>1, <2>3, KeptInPlace DEF ResetView
  <2> QED BY <2>2, <2>3
<1>3. CASE \/ StartListening \/ StopListening \/ NotifyComplete
           \/ NotifyFailed \/ UNCHANGED vars
  <2>1. UNCHANGED <<queue, requests, sdkVersion, webFile, currentApp>>
    BY <1>3 DEF StartListening, StopListening, NotifyComplete, NotifyFailed,
                vars, appVars, files, process, counters
  <2> QED BY <2>1, KeptInPlace
<1>4. CASE WakeUp
  <2>1. sdkVersion' = sdkVersion
    BY <1>4 DEF WakeUp, OnlyQueueAndRequests, process
  <2> QED BY <1>4, <2>1, ConnectionsCount, HandedOn
<1>5. CASE Start
  <2>1. UNCHANGED <<requests, sdkVersion, webFile, currentApp>>
    BY <1>5 DEF Start, appVars, files, process, counters
  <2>2. CASE queue = <<>>
    <3>1. queue' = <<Op("LoadConfigFile", DefaultConfig)>>
      BY <1>5, <2>2 DEF Start, IsIdle
    <3>2. requests' = NoRequests
      BY <2>1, <2>2 DEF HeadIsSound
    <3> QED BY <2>1, <3>1, <3>2, ChainsBegin, ConfigTypes
  <2>3. CASE queue # <<>>
    BY <1>5, <2>1, <2>3, KeptInPlace DEF Start, IsIdle
  <2> QED BY <2>2, <2>3
<1>6. CASE PageCalls
  <2>1. UNCHANGED <<queue, requests, sdkVersion, webFile>>
    BY <1>6 DEF PageCalls, files, process, counters
  <2>2. PICK success \in BOOLEAN : CompleteInitialization(success)
    BY <1>6 DEF PageCalls, InitComplete, InitError
  <2>3. currentApp # NoApp /\ currentApp.said
          => currentApp' # NoApp /\ currentApp'.said
    BY <2>2, SaidIsKept
  <2> QED BY <2>1, <2>3, KeptInPlace
<1>7. CASE Reinitialize
  <2>1. UNCHANGED <<requests, sdkVersion, webFile>>
    BY <1>7 DEF Reinitialize, files, process
  <2>2. currentApp # NoApp /\ currentApp.said
          => currentApp' # NoApp /\ currentApp'.said
    BY <1>7, SaidIsKept DEF Reinitialize
  <2>3. CASE UNCHANGED queue
    BY <2>1, <2>2, <2>3, KeptInPlace
  <2>4. CASE ~(UNCHANGED queue)
    <3>1. queue = <<>>
      BY <1>7, <2>4 DEF Reinitialize, IsIdle
    <3>2. PICK c : c = IF currentApp = NoApp THEN NoConfig
                       ELSE currentApp.config
      OBVIOUS
    <3>3. queue' = <<Op("LoadConfigFile", c)>>
      BY <1>7, <2>4, <3>1, <3>2 DEF Reinitialize
    <3>4. c \in Config \cup {NoConfig}
      BY <3>2 DEF TypeOK, AppTypeOK, App
    <3>5. requests' = NoRequests
      BY <2>1, <3>1 DEF HeadIsSound
    <3> QED BY <2>1, <3>3, <3>4, <3>5, ChainsBegin
  <2> QED BY <2>3, <2>4
<1>8. CASE DownloadLatest
  <2>1. /\ queue = <<>> /\ latest \in Config /\ latest # NoConfig
        /\ queue' = <<Op("CheckForCachedWebViewUpdate", latest)>>
        /\ UNCHANGED <<requests, sdkVersion>>
    BY <1>8 DEF DownloadLatest, IsIdle, OnlyQueue, OnlyQueues, counters,
                process, TypeOK
  <2>2. requests' = NoRequests
    BY <2>1 DEF HeadIsSound
  <2> QED BY <2>1, <2>2, ChainsBegin
<1>9. CASE Restart
  BY <1>9 DEF Restart, HeadIsSound
<1> QED BY <1>2, <1>3, <1>4, <1>5, <1>6, <1>7, <1>8, <1>9
        DEF MainStep, Environment

-----------------------------------------------------------------------------
(***************************************************************************)
(* Listeners: what the main queue holds, in the order it is run.           *)
(***************************************************************************)
Stops(blocks, heard, awaited) ==
  /\ heard \in {0, 1}
  /\ \A i \in DOMAIN blocks : blocks[i] = "listen" =>
       \/ i + 1 \in DOMAIN blocks /\ blocks[i + 1] = "unlisten"
       \/ i = Len(blocks) /\ awaited
  /\ heard = 1 => IF blocks = <<>> THEN awaited ELSE Head(blocks) = "unlisten"

LEMMA ListenersAreStopped == ListenersStop <=>
                               Stops(mainQ, listening, NetworkIsAwaited)
BY DEF ListenersStop, Stops

\* The queue when a block has been posted.
LEMMA PostedElements ==
  ASSUME NEW q \in Seq(Blocks), NEW e \in Blocks
  PROVE  /\ q \o <<>> = q /\ q \o <<e>> \in Seq(Blocks)
         /\ Len(q) \in Nat /\ Len(q \o <<e>>) = Len(q) + 1
         /\ DOMAIN q = 1..Len(q) /\ DOMAIN (q \o <<e>>) = 1..Len(q) + 1
         /\ \A i \in 1..Len(q) : (q \o <<e>>)[i] = q[i]
         /\ (q \o <<e>>)[Len(q) + 1] = e
         /\ q \o <<e>> # <<>> /\ Head(q \o <<e>>) = IF q = <<>> THEN e ELSE Head(q)
<1>1. <<e>> \in Seq(Blocks) /\ Len(<<e>>) = 1 /\ <<e>>[1] = e
  OBVIOUS
<1>2. /\ q \o <<e>> \in Seq(Blocks)
      /\ Len(q) \in Nat /\ Len(q \o <<e>>) = Len(q) + 1
      /\ DOMAIN q = 1..Len(q) /\ DOMAIN (q \o <<e>>) = 1..Len(q) + 1
      /\ \A i \in 1..Len(q) + 1 :
           (q \o <<e>>)[i] = IF i <= Len(q) THEN q[i] ELSE <<e>>[i - Len(q)]
  BY <1>1, ConcatElements
<1>3. q \o <<>> = q
  OBVIOUS
<1>4. /\ \A i \in 1..Len(q) : (q \o <<e>>)[i] = q[i]
      /\ (q \o <<e>>)[Len(q) + 1] = e
  BY <1>1, <1>2
<1>5. q \o <<e>> # <<>>
  BY <1>2
<1>6. Head(q \o <<e>>) = IF q = <<>> THEN e ELSE Head(q)
  <2>1. Head(q \o <<e>>) = (q \o <<e>>)[1]
    BY <1>2, <1>5, TailElements
  <2>2. CASE q = <<>>
    BY <1>4, <2>1, <2>2
  <2>3. CASE q # <<>>
    <3>1. Head(q) = q[1] /\ Len(q) # 0
      BY <2>3, TailElements
    <3>2. 1 \in 1..Len(q)
      BY <1>2, <3>1
    <3> QED BY <1>4, <2>1, <2>3, <3>1, <3>2
  <2> QED BY <2>2, <2>3
<1> QED BY <1>2, <1>3, <1>4, <1>5, <1>6

\* A block is posted behind the others; a state that is awaited posts only
\* that it stops.
LEMMA PostStops ==
  ASSUME NEW q \in Seq(Blocks), NEW heard, NEW a \in BOOLEAN, NEW b \in BOOLEAN,
         Stops(q, heard, a), NEW e \in Blocks, e # "listen",
         a => e = "unlisten"
  PROVE  Stops(q \o <<e>>, heard, b)
<1>1. PICK r : r = q \o <<e>>
  OBVIOUS
<1>2. /\ Len(q) \in Nat /\ Len(r) = Len(q) + 1
      /\ DOMAIN q = 1..Len(q) /\ DOMAIN r = 1..Len(q) + 1
      /\ \A i \in 1..Len(q) : r[i] = q[i]
      /\ r[Len(q) + 1] = e
      /\ r # <<>> /\ Head(r) = IF q = <<>> THEN e ELSE Head(q)
  BY <1>1, PostedElements
<1>3. ASSUME NEW i \in DOMAIN r, r[i] = "listen"
      PROVE  i + 1 \in DOMAIN r /\ r[i + 1] = "unlisten"
  <2>1. i \in DOMAIN q /\ q[i] = "listen"
    BY <1>2, <1>3
  <2>2. CASE i + 1 \in DOMAIN q /\ q[i + 1] = "unlisten"
    BY <1>2, <2>2
  <2>3. CASE i = Len(q) /\ a
    BY <1>2, <2>3
  <2> QED BY <2>1, <2>2, <2>3 DEF Stops
<1>4. ASSUME heard = 1 PROVE Head(r) = "unlisten"
  BY <1>2, <1>4 DEF Stops
<1> QED BY <1>1, <1>2, <1>3, <1>4 DEF Stops

\* A state begins to wait for the network.
LEMMA PostListens ==
  ASSUME NEW q \in Seq(Blocks), NEW heard, Stops(q, heard, FALSE)
  PROVE  Stops(q \o <<"listen">>, heard, TRUE)
<1>1. PICK r : r = q \o <<"listen">>
  OBVIOUS
<1>2. /\ Len(q) \in Nat /\ Len(r) = Len(q) + 1
      /\ DOMAIN q = 1..Len(q) /\ DOMAIN r = 1..Len(q) + 1
      /\ \A i \in 1..Len(q) : r[i] = q[i]
      /\ r # <<>> /\ Head(r) = IF q = <<>> THEN "listen" ELSE Head(q)
  BY <1>1, PostedElements DEF Blocks
<1>3. ASSUME NEW i \in DOMAIN r, r[i] = "listen"
      PROVE  \/ i + 1 \in DOMAIN r /\ r[i + 1] = "unlisten"
             \/ i = Len(r)
  <2>1. CASE i \in DOMAIN q
    BY <1>2, <1>3, <2>1 DEF Stops
  <2>2. CASE i \notin DOMAIN q
    BY <1>2, <2>2
  <2> QED BY <2>1, <2>2
<1>4. ASSUME heard = 1 PROVE Head(r) = "unlisten"
  BY <1>2, <1>4 DEF Stops
<1> QED BY <1>1, <1>2, <1>3, <1>4 DEF Stops

\* The main thread runs the first block.
LEMMA TailStops ==
  ASSUME NEW q \in Seq(Blocks), q # <<>>, NEW heard, NEW a \in BOOLEAN,
         Stops(q, heard, a), NEW next,
         CASE Head(q) = "listen" -> next = heard + 1
           [] Head(q) = "stopAll" -> next = 0
           [] Head(q) = "unlisten" -> next = IF heard = 0 THEN 0 ELSE heard - 1
           [] OTHER -> next = heard
  PROVE  Stops(Tail(q), next, a)
<1>1. PICK r \in Seq(Blocks) : r = Tail(q)
  BY TailElements
<1>2. /\ Len(q) \in Nat \ {0} /\ Len(r) = Len(q) - 1
      /\ DOMAIN q = 1..Len(q) /\ DOMAIN r = 1..Len(q) - 1
      /\ \A i \in 1..Len(q) - 1 : r[i] = q[i + 1]
      /\ Head(q) = q[1]
  BY <1>1, TailElements
<1>3. ASSUME NEW i \in DOMAIN r, r[i] = "listen"
      PROVE  \/ i + 1 \in DOMAIN r /\ r[i + 1] = "unlisten"
             \/ i = Len(r) /\ a
  <2>1. i + 1 \in DOMAIN q /\ q[i + 1] = "listen" /\ i \in Nat
    BY <1>2, <1>3
  <2>2. \/ i + 2 \in DOMAIN q /\ q[i + 2] = "unlisten"
        \/ i + 1 = Len(q) /\ a
    <3>1. (i + 1) + 1 = i + 2
      BY <2>1
    <3> QED BY <2>1, <3>1 DEF Stops
  <2> QED BY <1>2, <2>1, <2>2
<1>4. CASE Head(q) = "listen"
  <2>1. heard = 0 /\ next = 1
    BY <1>4 DEF Stops
  <2>2. CASE r = <<>>
    <3>1. Len(q) = 1
      BY <1>2, <2>2
    <3>2. a
      BY <1>2, <1>4, <3>1 DEF Stops
    <3> QED BY <1>1, <2>1, <2>2, <3>2 DEF Stops
  <2>3. CASE r # <<>>
    <3>1. Len(q) # 1 /\ Head(r) = r[1] /\ r[1] = q[2]
      BY <1>2, <2>3, TailElements
    <3>2. q[1 + 1] = "unlisten"
      BY <1>2, <1>4, <3>1 DEF Stops
    <3> QED BY <1>1, <1>3, <2>1, <2>3, <3>1, <3>2 DEF Stops
  <2> QED BY <2>2, <2>3
<1>5. CASE Head(q) # "listen"
  <2>1. next = 0
    BY <1>5 DEF Stops
  <2> QED BY <1>1, <1>3, <2>1 DEF Stops
<1> QED BY <1>4, <1>5

\* What an operation that is not awaited posts.
LEMMA QuietStepsStop ==
  ASSUME TypeOK, ListenersStop, ~NetworkIsAwaited, UNCHANGED listening,
         \/ UNCHANGED mainQ
         \/ \E e \in Blocks \ {"listen"} : Post(<<e>>)
  PROVE  ListenersStop'
<1>1. PICK q \in Seq(Blocks), heard \in {0, 1}, b \in BOOLEAN :
        /\ q = mainQ /\ heard = listening /\ b = NetworkIsAwaited'
  <2>1. /\ mainQ \in Seq(Blocks) /\ listening \in {0, 1}
        /\ NetworkIsAwaited' \in BOOLEAN
    BY DEF TypeOK, NetworkIsAwaited, ListenersStop
  <2> QED BY <2>1
<1>2. Stops(q, heard, FALSE)
  BY <1>1 DEF ListenersStop, Stops
<1>3. CASE UNCHANGED mainQ
  <2>1. Stops(q, heard, b)
    BY <1>2 DEF Stops
  <2> QED BY <1>1, <1>3, <2>1 DEF ListenersStop, Stops
<1>4. ASSUME NEW e \in Blocks \ {"listen"}, Post(<<e>>) PROVE ListenersStop'
  <2>1. PICK r : r = q \o <<e>>
    OBVIOUS
  <2>2. Stops(r, heard, b)
    BY <1>2, <1>4, <2>1, PostStops
  <2>3. mainQ' = r
    BY <1>1, <1>4, <2>1 DEF Post
  <2> QED BY <1>1, <2>2, <2>3 DEF ListenersStop, Stops
<1> QED BY <1>3, <1>4

\* The states that wait for the network.
LEMMA NetworkStepsStop ==
  ASSUME TypeOK, HeadIsSound, ListenersStop,
         BeginNetworkError \/ EndNetworkError \/ NetworkErrorTimesOut
  PROVE  ListenersStop'
<1>1. PICK q \in Seq(Blocks), heard \in {0, 1}, a \in BOOLEAN, b \in BOOLEAN :
        /\ q = mainQ /\ heard = listening
        /\ a = NetworkIsAwaited /\ b = NetworkIsAwaited'
  <2>1. /\ mainQ \in Seq(Blocks) /\ listening \in {0, 1}
        /\ NetworkIsAwaited \in BOOLEAN /\ NetworkIsAwaited' \in BOOLEAN
    BY DEF TypeOK, NetworkIsAwaited, ListenersStop
  <2> QED BY <2>1
<1>2. Stops(q, heard, a)
  BY <1>1, ListenersAreStopped
<1>3. listening' = heard
  BY <1>1 DEF BeginNetworkError, EndNetworkError, NetworkErrorTimesOut,
              OnlyQueues
<1>4. ASSUME BeginNetworkError PROVE ListenersStop'
  <2>1. a = FALSE
    BY <1>1, <1>4 DEF BeginNetworkError, NetworkIsAwaited
  <2>2. b = TRUE
    <3>1. /\ queue # <<>> /\ OneRuns /\ running.state = "NetworkError"
          /\ Waits("waiting")
      BY <1>4, WhatRuns DEF BeginNetworkError
    <3>2. PICK op \in Operation :
            queue' = <<op>> /\ op.state = "NetworkError" /\ op.wait = "waiting"
      BY <3>1, Waiting
    <3>3. Runs("NetworkError")' /\ running'.wait = "waiting"
      BY <3>2, Heads
    <3> QED BY <1>1, <3>3 DEF NetworkIsAwaited
  <2>3. PICK r : r = q \o <<"listen">>
    OBVIOUS
  <2>4. Stops(r, heard, TRUE)
    BY <1>2, <2>1, <2>3, PostListens
  <2>5. mainQ' = r
    BY <1>1, <1>4, <2>3 DEF BeginNetworkError, Post
  <2> QED BY <1>1, <1>3, <2>2, <2>4, <2>5 DEF ListenersStop, Stops
<1>5. ASSUME EndNetworkError \/ NetworkErrorTimesOut PROVE ListenersStop'
  <2>1. PICK r : r = q \o <<"unlisten">>
    OBVIOUS
  <2>2. "unlisten" \in Blocks
    BY DEF Blocks
  <2>3. Stops(r, heard, b)
    BY <1>2, <2>1, <2>2, PostStops
  <2>4. mainQ' = r
    BY <1>1, <1>5, <2>1 DEF EndNetworkError, NetworkErrorTimesOut, Post
  <2> QED BY <1>1, <1>3, <2>3, <2>4 DEF ListenersStop, Stops
<1> QED BY <1>4, <1>5

\* The other states post nothing, or no block that listens.
LEMMA OtherStatesStop ==
  ASSUME TypeOK, HeadIsSound, ListenersStop, QueueStep,
         ~BeginNetworkError, ~EndNetworkError, ~NetworkErrorTimesOut
  PROVE  ListenersStop'
<1>1. "resetView" \in Blocks \ {"listen"} /\ "stopAll" \in Blocks \ {"listen"}
      /\ "complete" \in Blocks \ {"listen"} /\ "failed" \in Blocks \ {"listen"}
  BY DEF Blocks
<1>3. mainQ \o <<>> = mainQ
  BY DEF TypeOK
<1>4. ~NetworkIsAwaited
  BY DEF NetworkIsAwaited, Runs, QueueStep, LoadConfigFile, ResetNoApp,
      BeginReset, EndReset,
      ResetTimesOut, InitModules, ConfigReceived, ConfigFails,
      ConfigIsDisabled, Retry, LoadCache, LoadCacheConfigAndWebView,
      CheckForUpdatedWebView, CleanCache, WebReceived, WebFails,
      WebIsMalformed, WebIsDownloaded, WebIsRemote, CreateOnMain,
      CreateStarts, CreateTimesOut, CreateEnds, Complete, Error, Leave,
      CheckForCachedWebViewUpdate, DownloadReceived, DownloadFails,
      DownloadIsMalformed, UpdateWebFile, UpdateConfigFile
<1>5. UNCHANGED listening
  BY DEF QueueStep, LoadConfigFile, ResetNoApp, BeginReset, EndReset,
      ResetTimesOut, InitModules, ConfigReceived, ConfigFails,
      ConfigIsDisabled, Retry, LoadCache, LoadCacheConfigAndWebView,
      CheckForUpdatedWebView, CleanCache, WebReceived, WebFails,
      WebIsMalformed, WebIsDownloaded, WebIsRemote, CreateOnMain,
      CreateStarts, CreateTimesOut, CreateEnds, Complete, Error, Leave,
      CheckForCachedWebViewUpdate, DownloadReceived, DownloadFails,
      DownloadIsMalformed, UpdateWebFile, UpdateConfigFile,
      OnlyQueues, OnlyQueue, OnlyQueueAndRequests
<1>6. CASE \/ ResetNoApp \/ BeginReset \/ EndReset \/ Complete \/ Error
  <2>1. \/ Post(<<>>) \/ Post(<<"stopAll">>) \/ Post(<<"resetView">>)
        \/ Post(<<"complete">>) \/ Post(<<"failed">>)
    BY <1>6 DEF ResetNoApp, BeginReset, EndReset, Complete, Error, StopAll
  <2>2. Post(<<>>) => UNCHANGED mainQ
    BY <1>3 DEF Post
  <2> QED BY <1>1, <1>4, <1>5, <2>1, <2>2, QuietStepsStop
<1>7. CASE ~(\/ ResetNoApp \/ BeginReset \/ EndReset \/ Complete \/ Error)
  <2>1. UNCHANGED mainQ
    BY <1>7 DEF QueueStep, LoadConfigFile,
      ResetTimesOut, InitModules, ConfigReceived, ConfigFails,
      ConfigIsDisabled, Retry, LoadCache, LoadCacheConfigAndWebView,
      CheckForUpdatedWebView, CleanCache, WebReceived, WebFails,
      WebIsMalformed, WebIsDownloaded, WebIsRemote, CreateOnMain,
      CreateStarts, CreateTimesOut, CreateEnds, Leave,
      CheckForCachedWebViewUpdate, DownloadReceived, DownloadFails,
      DownloadIsMalformed, UpdateWebFile, UpdateConfigFile,
      OnlyQueue, OnlyQueueAndRequests
  <2> QED BY <1>4, <1>5, <2>1, QuietStepsStop
<1> QED BY <1>6, <1>7

\* Whether the running state is awaited does not depend on the main thread.
LEMMA AwaitedStays ==
  ASSUME UNCHANGED queue
  PROVE  NetworkIsAwaited' <=> NetworkIsAwaited
BY DEF NetworkIsAwaited, Runs, running

LEMMA MainStepsStop ==
  ASSUME TypeOK, HeadIsSound, ListenersStop, MainStep
  PROVE  ListenersStop'
<1>1. PICK q \in Seq(Blocks), heard \in {0, 1}, a \in BOOLEAN :
        q = mainQ /\ heard = listening /\ a = NetworkIsAwaited
  <2>1. /\ mainQ \in Seq(Blocks) /\ listening \in {0, 1}
        /\ NetworkIsAwaited \in BOOLEAN
    BY DEF TypeOK, NetworkIsAwaited, ListenersStop
  <2> QED BY <2>1
<1>2. Stops(q, heard, a)
  BY <1>1, ListenersAreStopped
<1>3. /\ q # <<>> /\ mainQ' = Tail(q)
      /\ CASE Head(q) = "listen" -> listening' = heard + 1
           [] Head(q) = "stopAll" -> listening' = 0
           [] Head(q) = "unlisten" ->
                listening' = IF heard = 0 THEN 0 ELSE heard - 1
           [] OTHER -> listening' = heard
  BY <1>1 DEF MainStep, ResetView, StartListening, StopListening,
              NotifyComplete, NotifyFailed, RunBlock
<1>4. NetworkIsAwaited' <=> NetworkIsAwaited
  <2>1. CASE UNCHANGED queue
    BY <2>1, AwaitedStays
  <2>2. CASE ~(UNCHANGED queue)
    <3>1. /\ Runs("Reset") /\ Waits("woken")
      BY <2>2 DEF MainStep, ResetView, StartListening, StopListening,
                  NotifyComplete, NotifyFailed
    <3>2. queue # <<>> /\ OneRuns /\ running.state = "Reset"
      BY <3>1, WhatRuns
    <3>3. PICK op \in Operation : queue' = <<op>> /\ op.state = "Reset"
      BY <3>1, <3>2, Waiting
    <3>4. ~(Runs("NetworkError")')
      BY <3>3, Heads
    <3> QED BY <3>2, <3>4 DEF NetworkIsAwaited, Runs
  <2> QED BY <2>1, <2>2
<1>5. PICK next, r : next = listening' /\ r = Tail(q)
  OBVIOUS
<1>6. Stops(r, next, a)
  BY <1>2, <1>3, <1>5, TailStops
<1>7. mainQ' = r /\ listening' = next /\ (NetworkIsAwaited' <=> a)
  BY <1>1, <1>3, <1>4, <1>5
<1> QED BY <1>6, <1>7 DEF ListenersStop, Stops

LEMMA EnvironmentStops ==
  ASSUME TypeOK, HeadIsSound, ListenersStop, Environment \/ UNCHANGED vars
  PROVE  ListenersStop'
<1>1. CASE PageCalls \/ UNCHANGED vars
  <2>1. UNCHANGED <<queue, mainQ, listening>>
    BY <1>1 DEF PageCalls, vars
  <2> QED BY <2>1, AwaitedStays DEF ListenersStop
<1>2. CASE Start \/ Reinitialize \/ DownloadLatest
  <2>1. UNCHANGED <<mainQ, listening>>
    BY <1>2 DEF Start, Reinitialize, DownloadLatest, OnlyQueue, OnlyQueues
  <2>2. CASE UNCHANGED queue
    BY <2>1, <2>2, AwaitedStays DEF ListenersStop
  <2>3. CASE ~(UNCHANGED queue)
    <3>1. queue = <<>>
      BY <1>2, <2>3 DEF Start, Reinitialize, DownloadLatest, IsIdle
    <3>2. ~NetworkIsAwaited
      BY <3>1 DEF NetworkIsAwaited, Runs
    <3> QED BY <2>1, <3>2, QuietStepsStop
  <2> QED BY <2>2, <2>3
<1>3. CASE WakeUp
  <2>1. UNCHANGED <<mainQ, listening>>
    BY <1>3 DEF WakeUp, OnlyQueueAndRequests
  <2>2. /\ queue # <<>> /\ OneRuns /\ running.state = "NetworkError"
        /\ Waits("woken")
    BY <1>3, WhatRuns DEF WakeUp
  <2>3. PICK op \in Operation :
          queue' = <<op>> /\ op.state = "NetworkError" /\ op.wait = "woken"
    BY <2>2, Waiting
  <2>4. NetworkIsAwaited'
    <3>1. Runs("NetworkError")' /\ running'.wait = "woken"
      BY <2>3, Heads
    <3> QED BY <3>1 DEF NetworkIsAwaited
  <2> QED BY <2>1, <2>4 DEF ListenersStop
<1>4. CASE Restart
  <2>1. mainQ' = <<>> /\ listening' = 0
    BY <1>4 DEF Restart
  <2> QED BY <2>1 DEF ListenersStop
<1> QED BY <1>1, <1>2, <1>3, <1>4 DEF Environment

\* Listeners stop, whatever the step.
LEMMA ListenersStayStopped ==
  ASSUME TypeOK, HeadIsSound, ListenersStop, [Next]_vars
  PROVE  ListenersStop'
BY NetworkStepsStop, OtherStatesStop, MainStepsStop, EnvironmentStops DEF Next

-----------------------------------------------------------------------------
(***************************************************************************)
(* The application.                                                        *)
(***************************************************************************)
\* What holds of the application that runs in a version of the SDK.
AppFits(app, version) ==
  app # NoApp =>
    /\ app \in App /\ app.config.sdk = version
    /\ app.initialized => app.said
    /\ PageFits(app.config, app.saved, app.content)

LEMMA AppsFit ==
  /\ TypeOK /\ VerifiedIsCreated /\ ConfigurationIsOwn /\ InitializedHasSaidSo
       => AppFits(currentApp, sdkVersion)
  /\ AppFits(currentApp, sdkVersion)
       => VerifiedIsCreated /\ ConfigurationIsOwn /\ InitializedHasSaidSo
BY DEF TypeOK, AppTypeOK, AppFits, PageFits, VerifiedIsCreated,
       ConfigurationIsOwn, InitializedHasSaidSo

\* The application fits after every step.
LEMMA AppStillFits ==
  ASSUME TypeOK, HeadIsSound, AppFits(currentApp, sdkVersion), [Next]_vars
  PROVE  AppFits(currentApp', sdkVersion')
<1>1. CASE UNCHANGED <<currentApp, sdkVersion>>
  BY <1>1
<1>2. CASE BeginReset
  <2>1. PICK app \in App : app = currentApp
    BY <1>2 DEF BeginReset, TypeOK, AppTypeOK
  <2>2. PICK next :
          next = [app EXCEPT !.initialized = FALSE, !.done = FALSE]
    OBVIOUS
  <2>3. /\ next \in App /\ next.config = app.config
        /\ next.content = app.content /\ next.saved = app.saved
        /\ next.initialized = FALSE
    BY <2>2 DEF App
  <2>4. AppFits(app, sdkVersion) /\ app # NoApp
    BY <2>1, NoConfigAssumption
  <2>5. AppFits(next, sdkVersion)
    BY <2>3, <2>4 DEF AppFits
  <2>6. currentApp' = next /\ sdkVersion' = sdkVersion
    BY <1>2, <2>1, <2>2 DEF BeginReset, ResetInitialization, process
  <2> QED BY <2>5, <2>6
<1>3. CASE EndReset \/ Restart
  <2>1. currentApp' = NoApp
    BY <1>3 DEF EndReset, Restart
  <2> QED BY <2>1 DEF AppFits
<1>4. CASE CreateOnMain
  <2>1. CASE UNCHANGED currentApp
    BY <1>4, <2>1 DEF CreateOnMain, process
  <2>2. CASE ~(UNCHANGED currentApp)
    <3>1. PICK content \in IF running.config.source = "remote"
                           THEN Versions ELSE {webFile} :
            LoadPage(running.config, content, running.saved)
      BY <1>4, <2>2 DEF CreateOnMain, NoPageIsLoaded, NoViewButCondition
    <3>2. /\ running.config \in Config /\ running.config.sdk = sdkVersion
          /\ running.saved \in BOOLEAN
          /\ PageFits(running.config, running.saved, webFile)
      <4>1. "Create" \in Loading /\ "Create" \in Configured
        BY DEF Loading, Configured
      <4>2. /\ running.config \in Config /\ running.config.sdk = sdkVersion
            /\ OperationFits(running, sdkVersion)
            /\ queue # <<>> /\ running.state = "Create"
        BY <1>4, <4>1, WhatRuns DEF CreateOnMain
      <4>3. PageFits(running.config, running.saved, webFile)
        BY <4>2 DEF HeadIsSound, Sound
      <4>4. PICK h, version : h = running /\ version = sdkVersion
        OBVIOUS
      <4>5. h.saved \in BOOLEAN
        BY <4>2, <4>4, RunningTypes
      <4> QED BY <4>2, <4>3, <4>4, <4>5
    <3>3. PICK c \in Config, saved \in BOOLEAN :
            c = running.config /\ saved = running.saved
      BY <3>2
    <3>4. content \in Versions \cup {NoContent}
      BY <3>1 DEF TypeOK
    <3>5. PageFits(c, saved, content)
      BY <3>1, <3>2, <3>3 DEF PageFits
    <3>6. PICK app :
            app = [config |-> c, content |-> content, initialized |-> FALSE,
                   done |-> FALSE, said |-> FALSE, saved |-> saved]
      OBVIOUS
    <3>7. app \in App
      BY <3>4, <3>6 DEF App
    <3>8. AppFits(app, sdkVersion)
      BY <3>2, <3>3, <3>5, <3>6, <3>7 DEF AppFits
    <3>9. currentApp' = app /\ sdkVersion' = sdkVersion
      BY <1>4, <3>1, <3>3, <3>6 DEF LoadPage, CreateOnMain, process
    <3> QED BY <3>8, <3>9
  <2> QED BY <2>1, <2>2
<1>5. CASE PageCalls \/ Reinitialize
  <2>1. PICK success \in BOOLEAN : CompleteInitialization(success)
    BY <1>5 DEF PageCalls, InitComplete, InitError, Reinitialize
  <2>2. sdkVersion' = sdkVersion
    BY <1>5 DEF PageCalls, Reinitialize, process
  <2>3. PICK app, next : app = currentApp /\ next = currentApp'
    OBVIOUS
  <2>4. CASE app = NoApp
    BY <2>1, <2>3, <2>4, SaidIsKept DEF AppFits
  <2>5. CASE app # NoApp
    <3>1. /\ next \in App /\ next # NoApp
          /\ next.config = app.config /\ next.content = app.content
          /\ next.saved = app.saved /\ next.initialized = success
          /\ next.said = (app.said \/ success)
      BY <2>1, <2>3, <2>5, SaidIsKept
    <3>2. AppFits(next, sdkVersion)
      BY <2>3, <2>5, <3>1 DEF AppFits
    <3> QED BY <2>2, <2>3, <3>2
  <2> QED BY <2>4, <2>5
<1>6. CASE ~(\/ BeginReset \/ EndReset \/ Restart \/ CreateOnMain
             \/ PageCalls \/ Reinitialize)
  <2>1. UNCHANGED currentApp
    BY <1>6
    DEF Next, vars, appVars, QueueStep, LoadConfigFile, ResetNoApp,
      ResetTimesOut, InitModules, ConfigReceived, ConfigFails,
      ConfigIsDisabled, Retry, BeginNetworkError, EndNetworkError,
      NetworkErrorTimesOut, LoadCache, LoadCacheConfigAndWebView,
      CheckForUpdatedWebView, CleanCache, WebReceived, WebFails,
      WebIsMalformed, WebIsDownloaded, WebIsRemote,
      CreateStarts, CreateTimesOut, CreateEnds, Complete, Error, Leave,
      CheckForCachedWebViewUpdate, DownloadReceived, DownloadFails,
      DownloadIsMalformed, UpdateWebFile, UpdateConfigFile,
      OnlyQueues, OnlyQueue, OnlyQueueAndRequests,
      EnterWait, CreationTimesOut, CreationIsOver,
      MainStep, ResetView, StartListening, StopListening,
      NotifyComplete, NotifyFailed, Environment, WakeUp, Start,
      DownloadLatest
  <2>2. sdkVersion' = sdkVersion
    BY <1>6, VersionStays DEF Next, Environment, process
  <2> QED BY <1>1, <2>1, <2>2
<1> QED BY <1>2, <1>3, <1>4, <1>5, <1>6

-----------------------------------------------------------------------------
(***************************************************************************)
(* Types, variable by variable.                                            *)
(***************************************************************************)

\* The file of the web view.
LEMMA WebFileType ==
  ASSUME TypeOK, HeadIsSound, [Next]_vars
  PROVE  webFile' \in Versions \cup {NoContent}
<1>1. CASE \/ CleanCache
           \/ \E r \in Versions, s \in BOOLEAN : WebReceived(r, s)
           \/ WebIsDownloaded
           \/ \E r \in Versions, s \in BOOLEAN : DownloadReceived(r, s)
  BY <1>1 DEF CleanCache, WebReceived, WebIsDownloaded, DownloadReceived, TypeOK
<1>2. CASE UpdateWebFile
  <2>1. queue # <<>> /\ OperationFits(running, sdkVersion)
    BY <1>2, WhatRuns DEF UpdateWebFile
  <2>2. PICK h, version : h = running /\ version = sdkVersion
    OBVIOUS
  <2>3. h.data \in Versions \cup {NoContent}
    BY <2>1, <2>2, RunningTypes
  <2> QED BY <1>2, <2>2, <2>3 DEF UpdateWebFile, TypeOK
<1>3. CASE ~(\/ CleanCache
             \/ \E r \in Versions, s \in BOOLEAN : WebReceived(r, s)
             \/ WebIsDownloaded
             \/ \E r \in Versions, s \in BOOLEAN : DownloadReceived(r, s)
             \/ UpdateWebFile)
  <2>1. UNCHANGED webFile
    BY <1>3
    DEF Next, vars, files, QueueStep, LoadConfigFile, ResetNoApp, BeginReset,
        EndReset, ResetTimesOut, InitModules, ConfigReceived, ConfigFails,
        ConfigIsDisabled, Retry, BeginNetworkError, EndNetworkError,
        NetworkErrorTimesOut, LoadCache, LoadCacheConfigAndWebView,
        CheckForUpdatedWebView, WebFails, WebIsMalformed, WebIsRemote,
        CreateOnMain, CreateStarts, CreateTimesOut, CreateEnds, Complete,
        Error, Leave, CheckForCachedWebViewUpdate, DownloadFails,
        DownloadIsMalformed, UpdateConfigFile, OnlyQueues, OnlyQueue,
        OnlyQueueAndRequests, MainStep, ResetView, StartListening,
        StopListening, NotifyComplete, NotifyFailed, Environment, WakeUp,
        Start, PageCalls, Reinitialize, DownloadLatest, Restart
  <2> QED BY <2>1 DEF TypeOK
<1> QED BY <1>1, <1>2, <1>3

\* The file of the configuration.
LEMMA ConfigFileType ==
  ASSUME TypeOK, HeadIsSound, [Next]_vars
  PROVE  configFile' \in Config \cup {NoConfig}
<1>1. CASE \/ \E c \in Served : ConfigReceived(c)
  <2>1. PICK c \in Served : ConfigReceived(c)
    BY <1>1
  <2>2. PICK received :
          received = [hash |-> c.hash, delay |-> c.delay,
                      source |-> c.source, sdk |-> sdkVersion]
    OBVIOUS
  <2>3. received \in Config
    <3>1. sdkVersion \in Nat
      BY BoundAssumption DEF TypeOK
    <3> QED BY <2>2, <3>1, ServedAssumption DEF Config
  <2>4. Saves(received)
    BY <2>1, <2>2 DEF ConfigReceived
  <2> QED BY <2>3, <2>4 DEF Saves, TypeOK
<1>2. CASE \/ Error
           \/ UpdateConfigFile
  <2>1. running.config \in Config \cup {NoConfig}
    BY <1>2, WhatRuns DEF Error, UpdateConfigFile
  <2> QED BY <1>2, <2>1 DEF Error, UpdateConfigFile, Saves, TypeOK
<1>3. CASE CleanCache
  BY <1>3 DEF CleanCache, TypeOK
<1>4. CASE ~(\/ \E c \in Served : ConfigReceived(c)
             \/ Error
             \/ UpdateConfigFile
             \/ CleanCache)
  <2>1. UNCHANGED configFile
    BY <1>4
    DEF Next, vars, files, QueueStep, LoadConfigFile, ResetNoApp, BeginReset,
        EndReset, ResetTimesOut, InitModules, ConfigFails, ConfigIsDisabled,
        Retry, BeginNetworkError, EndNetworkError, NetworkErrorTimesOut,
        LoadCache, LoadCacheConfigAndWebView, CheckForUpdatedWebView,
        WebReceived, WebFails, WebIsMalformed, WebIsDownloaded, WebIsRemote,
        CreateOnMain, CreateStarts, CreateTimesOut, CreateEnds, Complete,
        Leave, CheckForCachedWebViewUpdate, DownloadReceived, DownloadFails,
        DownloadIsMalformed, UpdateWebFile, OnlyQueues, OnlyQueue,
        OnlyQueueAndRequests, MainStep, ResetView, StartListening,
        StopListening, NotifyComplete, NotifyFailed, Environment, WakeUp,
        Start, PageCalls, Reinitialize, DownloadLatest, Restart
  <2> QED BY <2>1 DEF TypeOK
<1> QED BY <1>1, <1>2, <1>3, <1>4

\* The latest configuration.
LEMMA LatestType ==
  ASSUME TypeOK, HeadIsSound, [Next]_vars
  PROVE  latest' \in Config \cup {NoConfig}
<1>1. CASE CheckForUpdatedWebView
  <2>1. running.config \in Config \cup {NoConfig}
    BY <1>1, WhatRuns DEF CheckForUpdatedWebView
  <2> QED BY <1>1, <2>1 DEF CheckForUpdatedWebView, TypeOK
<1>2. CASE Restart
  BY <1>2 DEF Restart
<1>3. CASE ~(\/ CheckForUpdatedWebView
             \/ Restart)
  <2>1. UNCHANGED latest
    BY <1>3
    DEF Next, vars, told, QueueStep, LoadConfigFile, ResetNoApp, BeginReset,
        EndReset, ResetTimesOut, InitModules, ConfigReceived, ConfigFails,
        ConfigIsDisabled, Retry, BeginNetworkError, EndNetworkError,
        NetworkErrorTimesOut, LoadCache, LoadCacheConfigAndWebView, CleanCache,
        WebReceived, WebFails, WebIsMalformed, WebIsDownloaded, WebIsRemote,
        CreateOnMain, CreateStarts, CreateTimesOut, CreateEnds, Complete,
        Error, Leave, CheckForCachedWebViewUpdate, DownloadReceived,
        DownloadFails, DownloadIsMalformed, UpdateWebFile, UpdateConfigFile,
        OnlyQueues, OnlyQueue, OnlyQueueAndRequests, MainStep, ResetView,
        StartListening, StopListening, NotifyComplete, NotifyFailed,
        Environment, WakeUp, Start, PageCalls, Reinitialize, DownloadLatest
  <2> QED BY <2>1 DEF TypeOK
<1> QED BY <1>1, <1>2, <1>3

\* The state of the SDK.
LEMMA SdkStateType ==
  ASSUME TypeOK, [Next]_vars
  PROVE  sdkState' \in {"NOT_INITIALIZED", "INITIALIZING",
                        "INITIALIZED_SUCCESSFULLY", "INITIALIZED_FAILED"}
<1>1. CASE \/ NotifyComplete
           \/ NotifyFailed
           \/ Start
           \/ Restart
  BY <1>1 DEF NotifyComplete, NotifyFailed, Start, Restart
<1>2. CASE ~(\/ NotifyComplete
             \/ NotifyFailed
             \/ Start
             \/ Restart)
  <2>1. UNCHANGED sdkState
    BY <1>2
    DEF Next, vars, told, QueueStep, LoadConfigFile, ResetNoApp, BeginReset,
        EndReset, ResetTimesOut, InitModules, ConfigReceived, ConfigFails,
        ConfigIsDisabled, Retry, BeginNetworkError, EndNetworkError,
        NetworkErrorTimesOut, LoadCache, LoadCacheConfigAndWebView,
        CheckForUpdatedWebView, CleanCache, WebReceived, WebFails,
        WebIsMalformed, WebIsDownloaded, WebIsRemote, CreateOnMain,
        CreateStarts, CreateTimesOut, CreateEnds, Complete, Error, Leave,
        CheckForCachedWebViewUpdate, DownloadReceived, DownloadFails,
        DownloadIsMalformed, UpdateWebFile, UpdateConfigFile, OnlyQueues,
        OnlyQueue, OnlyQueueAndRequests, MainStep, ResetView, StartListening,
        StopListening, Environment, WakeUp, PageCalls, Reinitialize,
        DownloadLatest
  <2> QED BY <2>1 DEF TypeOK
<1> QED BY <1>1, <1>2

\* The main queue.
LEMMA MainQueueType ==
  ASSUME TypeOK, [Next]_vars
  PROVE  mainQ' \in Seq(Blocks)
<1>1. CASE \/ ResetNoApp
           \/ BeginReset
           \/ EndReset
           \/ Complete
           \/ Error
           \/ BeginNetworkError
           \/ EndNetworkError
           \/ NetworkErrorTimesOut
  <2>1. \E blocks \in {<<>>, <<"resetView">>, <<"stopAll">>, <<"listen">>,
                       <<"unlisten">>, <<"complete">>, <<"failed">>} :
          Post(blocks)
    BY <1>1 DEF ResetNoApp, BeginReset, EndReset, Complete, Error, StopAll,
                BeginNetworkError, EndNetworkError, NetworkErrorTimesOut
  <2>2. PICK blocks \in Seq(Blocks) : Post(blocks)
    <3>1. \A e \in Blocks : <<e>> \in Seq(Blocks)
      OBVIOUS
    <3>2. <<>> \in Seq(Blocks)
      OBVIOUS
    <3> QED BY <2>1, <3>1, <3>2 DEF Blocks
  <2> QED BY <2>2 DEF Post, TypeOK
<1>2. CASE \/ ResetView
           \/ StartListening
           \/ StopListening
           \/ NotifyComplete
           \/ NotifyFailed
  <2>1. mainQ # <<>> /\ mainQ' = Tail(mainQ)
    BY <1>2 DEF ResetView, StartListening, StopListening, NotifyComplete,
                NotifyFailed, RunBlock
  <2> QED BY <2>1, TailElements DEF TypeOK
<1>3. CASE Restart
  BY <1>3 DEF Restart
<1>4. CASE ~(\/ ResetNoApp
             \/ BeginReset
             \/ EndReset
             \/ Complete
             \/ Error
             \/ BeginNetworkError
             \/ EndNetworkError
             \/ NetworkErrorTimesOut
             \/ ResetView
             \/ StartListening
             \/ StopListening
             \/ NotifyComplete
             \/ NotifyFailed
             \/ Restart)
  <2>1. UNCHANGED mainQ
    BY <1>4
    DEF Next, vars, QueueStep, LoadConfigFile, ResetTimesOut, InitModules,
        ConfigReceived, ConfigFails, ConfigIsDisabled, Retry, LoadCache,
        LoadCacheConfigAndWebView, CheckForUpdatedWebView, CleanCache,
        WebReceived, WebFails, WebIsMalformed, WebIsDownloaded, WebIsRemote,
        CreateOnMain, CreateStarts, CreateTimesOut, CreateEnds, Leave,
        CheckForCachedWebViewUpdate, DownloadReceived, DownloadFails,
        DownloadIsMalformed, UpdateWebFile, UpdateConfigFile, OnlyQueues,
        OnlyQueue, OnlyQueueAndRequests, MainStep, Environment, WakeUp,
        Start, PageCalls, Reinitialize, DownloadLatest
  <2> QED BY <2>1 DEF TypeOK
<1> QED BY <1>1, <1>2, <1>3, <1>4

\* The requests of the chain.
LEMMA RequestsType ==
  ASSUME TypeOK, [Next]_vars
  PROVE  requests' \in [config : Nat, web : Nat, wakes : 0..MaxWakes]
<1>1. CASE \/ \E c \in Served : ConfigReceived(c)
           \/ ConfigFails
           \/ ConfigIsDisabled
  <2>1. requests' = [requests EXCEPT !.config = @ + 1]
    BY <1>1 DEF ConfigReceived, ConfigFails, ConfigIsDisabled
  <2> QED BY <2>1 DEF TypeOK
<1>2. CASE \/ \E r \in Versions, s \in BOOLEAN : WebReceived(r, s)
           \/ WebFails
           \/ WebIsDownloaded
           \/ \E r \in Versions, s \in BOOLEAN : DownloadReceived(r, s)
           \/ DownloadFails
  <2>1. requests' = [requests EXCEPT !.web = @ + 1]
    BY <1>2 DEF WebReceived, WebFails, WebIsDownloaded, DownloadReceived,
                DownloadFails, Requested
  <2> QED BY <2>1 DEF TypeOK
<1>3. CASE WakeUp
  <2>1. /\ requests' = [requests EXCEPT !.wakes = @ + 1]
        /\ requests.wakes < MaxWakes
    BY <1>3 DEF WakeUp
  <2>2. requests.wakes + 1 \in 0..MaxWakes
    BY <2>1, BoundAssumption DEF TypeOK
  <2> QED BY <2>1, <2>2 DEF TypeOK
<1>4. CASE \/ Leave
           \/ Restart
  <2>1. requests' = NoRequests
    BY <1>4 DEF Leave, Restart
  <2> QED BY <2>1, BoundAssumption DEF NoRequests
<1>5. CASE ~(\/ \E c \in Served : ConfigReceived(c)
             \/ ConfigFails
             \/ ConfigIsDisabled
             \/ \E r \in Versions, s \in BOOLEAN : WebReceived(r, s)
             \/ WebFails
             \/ WebIsDownloaded
             \/ \E r \in Versions, s \in BOOLEAN : DownloadReceived(r, s)
             \/ DownloadFails
             \/ WakeUp
             \/ Leave
             \/ Restart)
  <2>1. UNCHANGED requests
    BY <1>5
    DEF Next, vars, counters, QueueStep, LoadConfigFile, ResetNoApp,
        BeginReset, EndReset, ResetTimesOut, InitModules, Retry,
        BeginNetworkError, EndNetworkError, NetworkErrorTimesOut, LoadCache,
        LoadCacheConfigAndWebView, CheckForUpdatedWebView, CleanCache,
        WebIsMalformed, WebIsRemote, CreateOnMain, CreateStarts,
        CreateTimesOut, CreateEnds, Complete, Error,
        CheckForCachedWebViewUpdate, DownloadIsMalformed, UpdateWebFile,
        UpdateConfigFile, OnlyQueues, OnlyQueue, OnlyQueueAndRequests,
        MainStep, ResetView, StartListening, StopListening, NotifyComplete,
        NotifyFailed, Environment, Start, PageCalls, Reinitialize,
        DownloadLatest
  <2> QED BY <2>1 DEF TypeOK
<1> QED BY <1>1, <1>2, <1>3, <1>4, <1>5

\* Whether the file could not be read.
LEMMA UnreadableType ==
  ASSUME TypeOK, [Next]_vars
  PROVE  unreadable' \in BOOLEAN
<1>1. CASE \/ LoadConfigFile
           \/ Restart
  BY <1>1 DEF LoadConfigFile, Restart, TypeOK
<1>2. CASE ~(\/ LoadConfigFile
             \/ Restart)
  <2>1. UNCHANGED unreadable
    BY <1>2
    DEF Next, vars, counters, QueueStep, ResetNoApp, BeginReset, EndReset,
        ResetTimesOut, InitModules, ConfigReceived, ConfigFails,
        ConfigIsDisabled, Retry, BeginNetworkError, EndNetworkError,
        NetworkErrorTimesOut, LoadCache, LoadCacheConfigAndWebView,
        CheckForUpdatedWebView, CleanCache, WebReceived, WebFails,
        WebIsMalformed, WebIsDownloaded, WebIsRemote, CreateOnMain,
        CreateStarts, CreateTimesOut, CreateEnds, Complete, Error, Leave,
        CheckForCachedWebViewUpdate, DownloadReceived, DownloadFails,
        DownloadIsMalformed, UpdateWebFile, UpdateConfigFile, OnlyQueues,
        OnlyQueue, OnlyQueueAndRequests, MainStep, ResetView, StartListening,
        StopListening, NotifyComplete, NotifyFailed, Environment, WakeUp,
        Start, PageCalls, Reinitialize, DownloadLatest
  <2> QED BY <2>1 DEF TypeOK
<1> QED BY <1>1, <1>2

\* The reinitializations.
LEMMA ReinitsType ==
  ASSUME TypeOK, [Next]_vars
  PROVE  reinits' \in 0..MaxReinits
<1>1. CASE \/ Reinitialize
           \/ Restart
  <2>1. reinits \in Nat /\ reinits <= MaxReinits /\ MaxReinits \in Nat
    BY BoundAssumption DEF TypeOK
  <2>2. \/ reinits' = 0 \/ reinits' = reinits
        \/ reinits' = reinits + 1 /\ reinits < MaxReinits
    BY <1>1 DEF Reinitialize, Restart
  <2> QED BY <2>1, <2>2
<1>2. CASE ~(\/ Reinitialize
             \/ Restart)
  <2>1. UNCHANGED reinits
    BY <1>2
    DEF Next, vars, counters, QueueStep, LoadConfigFile, ResetNoApp,
        BeginReset, EndReset, ResetTimesOut, InitModules, ConfigReceived,
        ConfigFails, ConfigIsDisabled, Retry, BeginNetworkError,
        EndNetworkError, NetworkErrorTimesOut, LoadCache,
        LoadCacheConfigAndWebView, CheckForUpdatedWebView, CleanCache,
        WebReceived, WebFails, WebIsMalformed, WebIsDownloaded, WebIsRemote,
        CreateOnMain, CreateStarts, CreateTimesOut, CreateEnds, Complete,
        Error, Leave, CheckForCachedWebViewUpdate, DownloadReceived,
        DownloadFails, DownloadIsMalformed, UpdateWebFile, UpdateConfigFile,
        OnlyQueues, OnlyQueue, OnlyQueueAndRequests, MainStep, ResetView,
        StartListening, StopListening, NotifyComplete, NotifyFailed,
        Environment, WakeUp, Start, PageCalls, DownloadLatest
  <2> QED BY <2>1 DEF TypeOK
<1> QED BY <1>1, <1>2

\* The creator, and whether there is a condition to wait on.
LEMMA CreationType ==
  ASSUME TypeOK, [Next]_vars
  PROVE  /\ creation' \in {"none", "entering", "waiting", "woken"}
         /\ condition' \in BOOLEAN
<1>1. CASE \/ CreateOnMain
           \/ CreateStarts
           \/ CreateTimesOut
           \/ CreateEnds
  BY <1>1 DEF CreateOnMain, CreateStarts, CreateTimesOut, CreateEnds, LoadPage,
              NoPageIsLoaded, NoViewButCondition, EnterWait, CreationTimesOut,
              CreationIsOver, TypeOK, AppTypeOK
<1>2. CASE \/ PageCalls
           \/ Reinitialize
  <2>1. PICK success \in BOOLEAN : CompleteInitialization(success)
    BY <1>2 DEF PageCalls, InitComplete, InitError, Reinitialize
  <2>2. creation' \in {creation, "woken"}
    BY <2>1 DEF CompleteInitialization
  <2>3. UNCHANGED condition
    BY <1>2 DEF PageCalls, InitComplete, InitError, Reinitialize
  <2> QED BY <2>2, <2>3 DEF TypeOK, AppTypeOK
<1>3. CASE Restart
  BY <1>3 DEF Restart
<1>4. CASE ~(\/ CreateOnMain
             \/ CreateStarts
             \/ CreateTimesOut
             \/ CreateEnds
             \/ PageCalls
             \/ Reinitialize
             \/ Restart)
  <2>1. UNCHANGED <<creation, condition>>
    BY <1>4
    DEF Next, vars, appVars, QueueStep, LoadConfigFile, ResetNoApp, BeginReset,
        EndReset, ResetTimesOut, InitModules, ConfigReceived, ConfigFails,
        ConfigIsDisabled, Retry, BeginNetworkError, EndNetworkError,
        NetworkErrorTimesOut, LoadCache, LoadCacheConfigAndWebView,
        CheckForUpdatedWebView, CleanCache, WebReceived, WebFails,
        WebIsMalformed, WebIsDownloaded, WebIsRemote, Complete, Error, Leave,
        CheckForCachedWebViewUpdate, DownloadReceived, DownloadFails,
        DownloadIsMalformed, UpdateWebFile, UpdateConfigFile, OnlyQueues,
        OnlyQueue, OnlyQueueAndRequests, MainStep, ResetView, StartListening,
        StopListening, NotifyComplete, NotifyFailed, Environment, WakeUp,
        Start, DownloadLatest
  <2> QED BY <2>1 DEF TypeOK, AppTypeOK
<1> QED BY <1>1, <1>2, <1>3, <1>4

\* The web view, and what isInitialized says.
LEMMA ViewType ==
  ASSUME TypeOK, [Next]_vars
  PROVE  view' \in BOOLEAN /\ initialized' \in BOOLEAN
<1>1. CASE \/ CreateOnMain
           \/ CreateStarts
           \/ CreateTimesOut
           \/ CreateEnds
  BY <1>1 DEF CreateOnMain, CreateStarts, CreateTimesOut, CreateEnds, LoadPage,
              NoPageIsLoaded, NoViewButCondition, EnterWait, CreationTimesOut,
              CreationIsOver, TypeOK, AppTypeOK
<1>2. CASE \/ ResetNoApp
           \/ EndReset
           \/ ResetView
           \/ PageCalls
           \/ Restart
  BY <1>2 DEF ResetNoApp, EndReset, ResetView, ResetModules, PageCalls,
              InitComplete, InitError, Restart, TypeOK, AppTypeOK
<1>3. CASE ~(\/ CreateOnMain
             \/ CreateStarts
             \/ CreateTimesOut
             \/ CreateEnds
             \/ ResetNoApp
             \/ EndReset
             \/ ResetView
             \/ PageCalls
             \/ Restart)
  <2>1. UNCHANGED <<view, initialized>>
    BY <1>3
    DEF Next, vars, appVars, QueueStep, LoadConfigFile, BeginReset,
        ResetTimesOut, InitModules, ConfigReceived, ConfigFails,
        ConfigIsDisabled, Retry, BeginNetworkError, EndNetworkError,
        NetworkErrorTimesOut, LoadCache, LoadCacheConfigAndWebView,
        CheckForUpdatedWebView, CleanCache, WebReceived, WebFails,
        WebIsMalformed, WebIsDownloaded, WebIsRemote, Complete, Error, Leave,
        CheckForCachedWebViewUpdate, DownloadReceived, DownloadFails,
        DownloadIsMalformed, UpdateWebFile, UpdateConfigFile, OnlyQueues,
        OnlyQueue, OnlyQueueAndRequests, MainStep, StartListening,
        StopListening, NotifyComplete, NotifyFailed, Environment, WakeUp,
        Start, Reinitialize, DownloadLatest
  <2> QED BY <2>1 DEF TypeOK, AppTypeOK
<1> QED BY <1>1, <1>2, <1>3

\* Each end of the process may bring the next version.
LEMMA VersionType ==
  ASSUME TypeOK, VersionsAreCounted, [Next]_vars
  PROVE  /\ VersionsAreCounted'
         /\ sdkVersion' \in 1..MaxRestarts + 1 /\ restarts' \in 0..MaxRestarts
<1>1. /\ sdkVersion \in Nat \ {0} /\ restarts \in Nat /\ MaxRestarts \in Nat
      /\ restarts <= MaxRestarts /\ sdkVersion <= restarts + 1
  BY BoundAssumption DEF TypeOK, VersionsAreCounted
<1>2. CASE Restart
  <2>1. /\ restarts < MaxRestarts /\ restarts' = restarts + 1
        /\ sdkVersion' \in {sdkVersion, sdkVersion + 1}
    BY <1>2 DEF Restart
  <2> QED BY <1>1, <2>1 DEF VersionsAreCounted
<1>3. CASE ~Restart
  <2>1. UNCHANGED <<sdkVersion, restarts>>
    BY <1>3, VersionStays DEF Next, Environment, process
  <2> QED BY <1>1, <2>1 DEF VersionsAreCounted, TypeOK
<1> QED BY <1>2, <1>3

\* The queue holds operations, because its head is sound.
LEMMA QueueType ==
  ASSUME HeadIsSound'
  PROVE  queue' \in Seq(Operation)
<1>1. CASE queue' = <<>>
  BY <1>1
<1>2. CASE queue' # <<>>
  <2>1. PICK op : op = running'
    OBVIOUS
  <2>2. queue' = <<op>> /\ op \in Operation
    BY <1>2, <2>1 DEF HeadIsSound, Sound, OperationFits
  <2> QED BY <2>2
<1> QED BY <1>1, <1>2

-----------------------------------------------------------------------------
(***************************************************************************)
(* The theorems.                                                           *)
(***************************************************************************)
LEMMA Initially ==
  ASSUME Init
  PROVE  IInv
<1>1. TypeOK
  <2>1. NoRequests \in [config : Nat, web : Nat, wakes : 0..MaxWakes]
    BY BoundAssumption DEF NoRequests
  <2>2. 1 \in 1..MaxRestarts + 1 /\ 0 \in 0..MaxWakes + 1
        /\ 0 \in 0..MaxReinits /\ 0 \in 0..MaxRestarts
    BY BoundAssumption
  <2>3. <<>> \in Seq(Operation) /\ <<>> \in Seq(Blocks)
    OBVIOUS
  <2> QED BY <2>1, <2>2, <2>3 DEF Init, AppInit, TypeOK, AppTypeOK
<1>2. OneRuns /\ VersionsAreCounted /\ RequestsAreCounted
  BY DEF Init, OneRuns, VersionsAreCounted, RequestsAreCounted
<1>3. ListenersStop
  BY DEF Init, ListenersStop
<1>4. FileIsWhatIsCreated /\ CompletedHasSaidSo
  BY DEF Init, FileIsWhatIsCreated, CompletedHasSaidSo, Runs
<1>5. VerifiedIsCreated /\ ConfigurationIsOwn /\ InitializedHasSaidSo
  BY DEF Init, AppInit, VerifiedIsCreated, ConfigurationIsOwn,
         InitializedHasSaidSo
<1> QED BY <1>1, <1>2, <1>3, <1>4, <1>5 DEF IInv

LEMMA Induction ==
  ASSUME IInv, [Next]_vars
  PROVE  IInv'
<1>1. /\ TypeOK /\ HeadIsSound /\ ListenersStop /\ InitializedHasSaidSo
      /\ VersionsAreCounted /\ AppFits(currentApp, sdkVersion)
  BY HeadsAreSound, AppsFit DEF IInv
<1>2. HeadIsSound'
  BY <1>1, QueueStepsAreSound, OtherStepsAreSound DEF Next
<1>3. OneRuns' /\ RequestsAreCounted' /\ FileIsWhatIsCreated'
      /\ CompletedHasSaidSo'
  BY <1>2 DEF HeadIsSound, Sound, OneRuns, RequestsAreCounted,
              FileIsWhatIsCreated, CompletedHasSaidSo, Runs
<1>4. ListenersStop'
  BY <1>1, ListenersStayStopped
<1>5. AppFits(currentApp, sdkVersion)'
  BY <1>1, AppStillFits
<1>6. VerifiedIsCreated' /\ ConfigurationIsOwn' /\ InitializedHasSaidSo'
  BY <1>5 DEF AppFits, PageFits, VerifiedIsCreated, ConfigurationIsOwn,
              InitializedHasSaidSo
<1>7. VersionsAreCounted'
  BY <1>1, VersionType
<1>8. TypeOK'
  <2>1. currentApp' \in App \cup {NoApp}
    BY <1>5 DEF AppFits
  <2>2. AppTypeOK'
    BY <1>1, <2>1, CreationType, ViewType DEF AppTypeOK
  <2>3. listening' \in 0..MaxWakes + 1
    <3>1. listening' \in {0, 1} /\ MaxWakes \in Nat
      BY <1>4, BoundAssumption DEF ListenersStop
    <3> QED BY <3>1
  <2>4. queue' \in Seq(Operation)
    BY <1>2, QueueType
  <2>5. /\ webFile' \in Versions \cup {NoContent}
        /\ configFile' \in Config \cup {NoConfig}
        /\ latest' \in Config \cup {NoConfig}
    BY <1>1, WebFileType, ConfigFileType, LatestType
  <2>6. /\ sdkVersion' \in 1..MaxRestarts + 1 /\ restarts' \in 0..MaxRestarts
        /\ mainQ' \in Seq(Blocks) /\ reinits' \in 0..MaxReinits
    BY <1>1, VersionType, MainQueueType, ReinitsType
  <2>7. /\ sdkState' \in {"NOT_INITIALIZED", "INITIALIZING",
                          "INITIALIZED_SUCCESSFULLY", "INITIALIZED_FAILED"}
        /\ requests' \in [config : Nat, web : Nat, wakes : 0..MaxWakes]
        /\ unreadable' \in BOOLEAN
    BY <1>1, SdkStateType, RequestsType, UnreadableType
  <2> QED BY <2>2, <2>3, <2>4, <2>5, <2>6, <2>7 DEF TypeOK
<1> QED BY <1>3, <1>4, <1>6, <1>7, <1>8 DEF IInv

\* The inductive invariant holds in every reachable state.
THEOREM Invariance == Spec => []IInv
<1>1. Init => IInv
  BY Initially
<1>2. IInv /\ [Next]_vars => IInv'
  BY Induction
<1> QED BY <1>1, <1>2, PTL DEF Spec

\* The variables keep their types, and the counters their bounds: in
\* particular no operation is retried more often than its configuration
\* allows.
THEOREM TypeCorrect == Spec => []TypeOK
<1>1. IInv => TypeOK
  BY DEF IInv
<1> QED BY <1>1, Invariance, PTL

\* The page that runs is the one its configuration asks for by hash, over
\* failed writes, ends of the process and updates of the SDK, unless its own
\* download could not be written.
THEOREM PagesAreVerified == Spec => []VerifiedIsCreated
<1>1. IInv => VerifiedIsCreated
  BY DEF IInv
<1> QED BY <1>1, Invariance, PTL

\* A web view never runs with a configuration of another version of the SDK.
THEOREM ConfigurationsAreOwn == Spec => []ConfigurationIsOwn
<1>1. IInv => ConfigurationIsOwn
  BY DEF IInv
<1> QED BY <1>1, Invariance, PTL

\* An initialization completes only when its page has said that it has.
THEOREM CompletionIsSaid == Spec => []CompletedHasSaidSo
<1>1. IInv => CompletedHasSaidSo
  BY DEF IInv
<1> QED BY <1>1, Invariance, PTL

\* A chain of states makes at most one request more than its retries and the
\* wake-ups that have ended its waits.
THEOREM RequestsStayBounded == Spec => []RequestsAreBounded
<1>1. IInv => RequestsAreBounded
  <2>1. ASSUME IInv, queue = <<>> PROVE RequestsAreBounded
    <3>1. requests = NoRequests
      BY <2>1 DEF IInv, RequestsAreCounted
    <3> QED BY <3>1, BoundAssumption DEF RequestsAreBounded, NoRequests
  <2>2. ASSUME IInv, queue # <<>> PROVE RequestsAreBounded
    <3>1. RequestsFit(running, requests)
      BY <2>2 DEF IInv, RequestsAreCounted
    <3> QED BY <3>1 DEF RequestsFit, Bound, RequestsAreBounded
  <2> QED BY <2>1, <2>2
<1> QED BY <1>1, Invariance, PTL

\* When nothing runs, no state that is over is still told of connections.
THEOREM ListenersAreGone == Spec => []NobodyKeepsListening
<1>1. IInv => NobodyKeepsListening
  <2>1. ASSUME IInv, queue = <<>>, mainQ = <<>> PROVE listening = 0
    BY <2>1 DEF IInv, ListenersStop, NetworkIsAwaited, Runs
  <2> QED BY <2>1 DEF NobodyKeepsListening, IsIdle
<1> QED BY <1>1, Invariance, PTL
=============================================================================
