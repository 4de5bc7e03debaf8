----------------------------- MODULE LegacyInit -----------------------------
(***************************************************************************)
(* The legacy initialization: USRVInitialize and its states, run one after *)
(* the other by an operation queue of width 1, with the web application    *)
(* they create and the two files they leave behind.                        *)
(*                                                                         *)
(* A state is an operation; execute returns the next one, which is put on  *)
(* the queue before the running one leaves it.  An operation whose execute *)
(* has returned nothing is still counted by the queue until it has left    *)
(* ("Done").  Three chains start here: the first initialization, the one   *)
(* that the web view asks for, and the background download of a newer web  *)
(* view.                                                                   *)
(*                                                                         *)
(* The process may end between any two steps, and start again with the     *)
(* files it has left, also as another version of the SDK.  Writing a file  *)
(* is atomic and may fail, which the code does not notice.                 *)
(***************************************************************************)
EXTENDS WebViewApp, Sequences

CONSTANTS
  Served,      \* configurations the server may send, without their sdk field
  MaxRetries,  \* maxRetries of every configuration
  MaxWakes,    \* bound on the wake-ups that end a wait for the network
  MaxReinits,  \* bound on the reinitializations that start
  MaxRestarts  \* bound on the ends of the process

ASSUME ServedAssumption ==
  Served \subseteq [hash : Versions \cup {NoHash}, delay : BOOLEAN,
                    source : {"file", "download", "remote"}]
ASSUME NoConfigAssumption == NoConfig \notin Config /\ NoApp \notin App
ASSUME BoundAssumption ==
  /\ MaxRetries \in Nat /\ MaxWakes \in Nat
  /\ MaxReinits \in Nat /\ MaxRestarts \in Nat

VARIABLES
  webFile,     \* UnityAdsWebApp.html
  configFile,  \* UnityAdsWebViewConfiguration.json
  sdkVersion,  \* the version of the SDK that runs
  queue,       \* initializeQueue; its head is running
  mainQ,       \* blocks posted to the main queue
  sdkState,    \* currentInitializeState
  latest,      \* the latest configuration of USRVSdkProperties
  listening,   \* states that listen for connections
  requests,    \* requests and wakes of the running chain
  unreadable,  \* whether the configuration file could not be read
  reinits,     \* reinitializations, for the bound
  restarts     \* ends of the process, for the bound

files    == <<webFile, configFile>>
process  == <<sdkVersion, restarts>>
told     == <<sdkState, latest>>
counters == <<requests, unreadable, reinits>>
vars == <<appVars, files, process, queue, mainQ, told, listening, counters>>

States == {"LoadConfigFile", "Reset", "InitModules", "Config", "LoadCache",
           "LoadCacheConfigAndWebView", "CheckForUpdatedWebView",
           "CleanCache", "LoadWeb", "Create", "Complete", "Error", "Retry",
           "NetworkError", "CheckForCachedWebViewUpdate",
           "DownloadLatestWebView", "UpdateCache", "Done"}
Requesting == {"Config", "LoadWeb", "DownloadLatestWebView"}

\* An operation: its state and configuration; the local configuration that
\* Config hands on; its retries; whether it waits; the state that Retry and
\* NetworkError go back to; whether the download it follows was saved, and
\* what that was.
Operation ==
  [state : States, config : Config \cup {NoConfig},
   local : Config \cup {NoConfig}, retries : 0..MaxRetries,
   wait : {"no", "waiting", "woken"}, back : Requesting \cup {"None"},
   saved : BOOLEAN, data : Versions \cup {NoContent}]

Blocks == {"resetView", "stopAll", "listen", "unlisten", "complete", "failed"}

TypeOK ==
  /\ AppTypeOK
  /\ webFile \in Versions \cup {NoContent}
  /\ configFile \in Config \cup {NoConfig}
  /\ sdkVersion \in 1..MaxRestarts + 1
  /\ queue \in Seq(Operation)
  /\ mainQ \in Seq(Blocks)
  /\ sdkState \in {"NOT_INITIALIZED", "INITIALIZING",
                   "INITIALIZED_SUCCESSFULLY", "INITIALIZED_FAILED"}
  /\ latest \in Config \cup {NoConfig}
  /\ listening \in 0..MaxWakes + 1
  /\ requests \in [config : Nat, web : Nat, wakes : 0..MaxWakes]
  /\ unreadable \in BOOLEAN
  /\ reinits \in 0..MaxReinits /\ restarts \in 0..MaxRestarts

NoRequests == [config |-> 0, web |-> 0, wakes |-> 0]

Init ==
  /\ AppInit
  /\ queue = <<>> /\ mainQ = <<>>
  /\ sdkState = "NOT_INITIALIZED" /\ latest = NoConfig
  /\ listening = 0
  /\ requests = NoRequests /\ unreadable = FALSE /\ reinits = 0
  /\ webFile = NoContent /\ configFile = NoConfig
  /\ sdkVersion = 1 /\ restarts = 0

-----------------------------------------------------------------------------
(***************************************************************************)
(* The queue.                                                              *)
(***************************************************************************)
DefaultConfig == [hash |-> NoHash, delay |-> FALSE, source |-> "file",
                  sdk |-> 0]

Op(state, c) ==
  [state |-> state, config |-> c, local |-> NoConfig, retries |-> 0,
   wait |-> "no", back |-> "None", saved |-> TRUE, data |-> NoContent]

running == Head(queue)
Runs(state) == queue # <<>> /\ running.state = state

\* The next operation is added, then the running one leaves.
Continue(op) == queue' = Append(Tail(queue), op)
GoTo(state)  == Continue(Op(state, running.config))
Fail         == GoTo("Error")
Waits(how)   == queue' = [queue EXCEPT ![1].wait = how]
Return       == queue' = [queue EXCEPT ![1] = Op("Done", NoConfig)]

\* What a step of the queue leaves alone.
OnlyQueues == UNCHANGED <<appVars, files, process, told, listening, counters>>
OnlyQueue  == OnlyQueues /\ UNCHANGED mainQ
OnlyQueueAndRequests ==
  UNCHANGED <<appVars, files, process, mainQ, told, listening, unreadable,
              reinits>>

\* initialize and downloadLatestWebView ask for an empty queue.
IsIdle == queue = <<>>

Post(blocks) == mainQ' = mainQ \o blocks

\* A mutant: another try is counted, but never the last one.
TryAgainForEver(c) ==
  Continue([Op("Retry", c) EXCEPT !.back = running.state,
                                  !.retries = running.retries + 1])

\* A mutant: the state that follows a wait for the network starts afresh.
TryAgainAfresh(c) ==
  Continue(IF running.retries < MaxRetries
           THEN [Op("Retry", c) EXCEPT !.back = running.state,
                                       !.retries = running.retries + 1]
           ELSE [Op("NetworkError", c) EXCEPT !.back = running.state])

\* A failed request: another try while retries are left, then a wait for the
\* network, after which the same state runs again with its retries used up.
TryAgain(c) ==
  Continue(IF running.retries < MaxRetries
           THEN [Op("Retry", c) EXCEPT !.back = running.state,
                                       !.retries = running.retries + 1]
           ELSE [Op("NetworkError", c) EXCEPT !.back = running.state,
                                              !.retries = running.retries])

\* The state that Retry or NetworkError go back to.
GoBack == Continue([Op(running.back, running.config)
                      EXCEPT !.retries = running.retries])

-----------------------------------------------------------------------------
(***************************************************************************)
(* The states that lead to a configuration.                                *)
(***************************************************************************)
\* The cached configuration replaces the given one; a file that cannot be
\* read leaves none at all.
LoadConfigFile ==
  /\ Runs("LoadConfigFile")
  /\ \/ /\ configFile = NoConfig
        /\ GoTo("Reset") /\ UNCHANGED unreadable
     \/ /\ configFile # NoConfig
        /\ Continue(Op("Reset", configFile)) /\ UNCHANGED unreadable
     \/ /\ configFile # NoConfig
        /\ Continue(Op("Reset", NoConfig)) /\ unreadable' = TRUE
  /\ UNCHANGED <<appVars, files, process, mainQ, told, listening, requests,
                 reinits>>

\* Without a configuration there are no modules to reset.
ResetModules ==
  IF running.config = NoConfig THEN UNCHANGED initialized
  ELSE initialized' = FALSE

StopAll == IF running.config = NoConfig THEN <<>> ELSE <<"stopAll">>

ResetNoApp ==
  /\ Runs("Reset") /\ running.wait = "no" /\ currentApp = NoApp
  /\ ResetModules /\ Post(StopAll)
  /\ GoTo("InitModules")
  /\ UNCHANGED <<currentApp, view, condition, creation, files, process, told,
                 listening, counters>>

\* The web view is removed on the main thread, and the state waits for it.
BeginReset ==
  /\ Runs("Reset") /\ running.wait = "no" /\ currentApp # NoApp
  /\ ResetInitialization
  /\ Post(IF view THEN <<"resetView">> ELSE <<>>)
  /\ Waits("waiting")
  /\ UNCHANGED <<view, condition, creation, initialized, files, process,
                 told, listening, counters>>

\* A wait may wake up without a signal, and counts as a success then.
EndReset ==
  /\ Runs("Reset") /\ running.wait # "no"
  /\ currentApp' = NoApp
  /\ ResetModules /\ Post(StopAll)
  /\ GoTo("InitModules")
  /\ UNCHANGED <<view, condition, creation, files, process, told, listening,
                 counters>>

ResetTimesOut ==
  /\ Runs("Reset") /\ running.wait = "waiting"
  /\ Fail
  /\ OnlyQueue

InitModules ==
  /\ Runs("InitModules")
  /\ GoTo("Config")
  /\ OnlyQueue

\* A configuration of the server or of the file is handed to the storage of the
\* Swift side.  It is outside of this repository, knows the path of the file,
\* and may write what it is given.
Saves(c) ==
  configFile' \in IF c \in {NoConfig, DefaultConfig} THEN {configFile}
                  ELSE {configFile, c}

\* Config: its operation carries the local configuration.
ConfigReceived(c) ==
  /\ Runs("Config")
  /\ LET received == [hash |-> c.hash, delay |-> c.delay,
                      source |-> c.source, sdk |-> sdkVersion]
     IN  /\ Continue(IF c.delay
                     THEN [Op("LoadCacheConfigAndWebView", received)
                             EXCEPT !.local = running.config]
                     ELSE Op("LoadCache", received))
         /\ Saves(received)
  /\ requests' = [requests EXCEPT !.config = @ + 1]
  /\ UNCHANGED <<appVars, webFile, process, mainQ, told, listening,
                 unreadable, reinits>>

ConfigFails ==
  /\ Runs("Config")
  /\ TryAgain(running.config)
  /\ requests' = [requests EXCEPT !.config = @ + 1]
  /\ OnlyQueueAndRequests

\* The game is disabled: an error, but only while retries are left.
ConfigIsDisabled ==
  /\ Runs("Config") /\ running.retries < MaxRetries
  /\ Continue(Op("Error", DefaultConfig))
  /\ requests' = [requests EXCEPT !.config = @ + 1]
  /\ OnlyQueueAndRequests

Retry ==
  /\ Runs("Retry")
  /\ GoBack
  /\ OnlyQueue

BeginNetworkError ==
  /\ Runs("NetworkError") /\ running.wait = "no"
  /\ Post(<<"listen">>)
  /\ Waits("waiting")
  /\ OnlyQueues

EndNetworkError ==
  /\ Runs("NetworkError") /\ running.wait = "woken"
  /\ Post(<<"unlisten">>)
  /\ GoBack
  /\ OnlyQueues

\* A mutant: the state that has timed out keeps listening.
NetworkErrorKeepsListening ==
  /\ Runs("NetworkError") /\ running.wait = "waiting"
  /\ Fail
  /\ OnlyQueue

\* A mutant: it ends the chain without an error.
NetworkErrorGivesUp ==
  /\ Runs("NetworkError") /\ running.wait = "waiting"
  /\ Post(<<"unlisten">>)
  /\ Return
  /\ OnlyQueues

NetworkErrorTimesOut ==
  /\ Runs("NetworkError") /\ running.wait = "waiting"
  /\ Post(<<"unlisten">>)
  /\ Fail
  /\ OnlyQueues

-----------------------------------------------------------------------------
(***************************************************************************)
(* The states that get the web view.  A file that cannot be read has no    *)
(* hash.                                                                   *)
(***************************************************************************)
FileHashes == {webFile, NoContent}

CreateOrLoad(matches) == GoTo(IF matches THEN "Create" ELSE "LoadWeb")

LoadCache ==
  /\ Runs("LoadCache")
  /\ \E hash \in FileHashes : CreateOrLoad(hash = running.config.hash)
  /\ OnlyQueue

LoadCacheConfigAndWebView ==
  /\ Runs("LoadCacheConfigAndWebView")
  /\ Continue([running EXCEPT !.state = IF webFile # NoContent
                                        THEN "CheckForUpdatedWebView"
                                        ELSE "CleanCache"])
  /\ OnlyQueue

\* A mutant: any version of the SDK will do.
LocalHashFits(hash) ==
  /\ running.local # NoConfig
  /\ hash = running.local.hash

\* Whether the local configuration fits the web view that is in the file.
LocalFits(hash) ==
  /\ running.local # NoConfig
  /\ hash = running.local.hash
  /\ running.local.sdk = sdkVersion

\* The update is delayed: the web view in the file is created, by the local
\* configuration or else by the new one, if its hash is what they ask for.
CheckForUpdatedWebView ==
  /\ Runs("CheckForUpdatedWebView")
  /\ \E hash \in FileHashes :
       /\ latest' = IF hash = running.config.hash THEN latest
                    ELSE running.config
       /\ IF hash # NoContent /\ LocalFits(hash)
          THEN Continue(Op("Create", running.local))
          ELSE CreateOrLoad(hash = running.config.hash)
  /\ UNCHANGED <<appVars, files, process, mainQ, sdkState, listening,
                 counters>>

\* Removing a file may fail.
CleanCache ==
  /\ Runs("CleanCache")
  /\ configFile' \in {configFile, NoConfig}
  /\ webFile' \in {webFile, NoContent}
  /\ GoTo("LoadWeb")
  /\ UNCHANGED <<appVars, process, mainQ, told, listening, counters>>

Requested == requests' = [requests EXCEPT !.web = @ + 1]

\* The response is written to the file, then its hash is compared.
WebReceived(response, saved) ==
  /\ Runs("LoadWeb") /\ running.config.source = "file"
  /\ webFile' = IF saved THEN response ELSE webFile
  /\ Continue([Op(IF running.config.hash \in {NoHash, response}
                  THEN "Create" ELSE "Error", running.config)
                 EXCEPT !.saved = saved])
  /\ Requested
  /\ UNCHANGED <<appVars, configFile, process, mainQ, told, listening,
                 unreadable, reinits>>

WebFails ==
  /\ Runs("LoadWeb") /\ running.config.source = "file"
  /\ TryAgain(running.config)
  /\ Requested
  /\ OnlyQueueAndRequests

\* The URL of the web view is malformed.
WebIsMalformed ==
  /\ Runs("LoadWeb") /\ running.config.source = "file"
  /\ Fail
  /\ OnlyQueue

\* The Swift network layer, outside of this repository, downloads the file.
WebIsDownloaded ==
  /\ Runs("LoadWeb") /\ running.config.source = "download"
  /\ \/ webFile' \in Versions /\ GoTo("Create")
     \/ UNCHANGED webFile /\ Fail
  /\ Requested
  /\ UNCHANGED <<appVars, configFile, process, mainQ, told, listening,
                 unreadable, reinits>>

WebIsRemote ==
  /\ Runs("LoadWeb") /\ running.config.source = "remote"
  /\ GoTo("Create")
  /\ OnlyQueue

-----------------------------------------------------------------------------
(***************************************************************************)
(* Create, Complete and Error.                                             *)
(***************************************************************************)
\* The block is run by dispatch_sync, after those the main queue has.  What
\* the web view loads is the file, not the data that the state was given.
CreateOnMain ==
  /\ Runs("Create") /\ creation = "none" /\ mainQ = <<>>
  /\ \/ /\ \E content \in IF running.config.source = "remote"
                          THEN Versions ELSE {webFile} :
             LoadPage(running.config, content, running.saved)
        /\ UNCHANGED queue
     \/ NoPageIsLoaded /\ Fail
     \/ NoViewButCondition /\ UNCHANGED queue
  /\ UNCHANGED <<files, process, mainQ, told, listening, counters>>

CreateStarts ==
  /\ Runs("Create") /\ EnterWait
  /\ UNCHANGED <<queue, files, process, mainQ, told, listening, counters>>

CreateTimesOut ==
  /\ Runs("Create") /\ CreationTimesOut
  /\ Fail
  /\ UNCHANGED <<files, process, mainQ, told, listening, counters>>

CreateEnds ==
  /\ Runs("Create")
  /\ \E success \in BOOLEAN :
       /\ CreationIsOver(success)
       /\ GoTo(IF success THEN "Complete" ELSE "Error")
  /\ UNCHANGED <<files, process, mainQ, told, listening, counters>>

Complete ==
  /\ Runs("Complete")
  /\ Post(<<"complete">>)
  /\ Return
  /\ OnlyQueues

\* Without a configuration no module hears of the error.
Error ==
  /\ Runs("Error")
  /\ Saves(running.config)
  /\ Post(IF running.config = NoConfig THEN <<>> ELSE <<"failed">>)
  /\ Return
  /\ UNCHANGED <<appVars, webFile, process, told, listening, counters>>

Leave ==
  /\ Runs("Done")
  /\ queue' = Tail(queue)
  /\ requests' = NoRequests
  /\ OnlyQueueAndRequests

-----------------------------------------------------------------------------
(***************************************************************************)
(* The background download of the latest web view.                         *)
(***************************************************************************)
CheckForCachedWebViewUpdate ==
  /\ Runs("CheckForCachedWebViewUpdate")
  /\ \E hash \in FileHashes :
       GoTo(IF hash = running.config.hash THEN "UpdateCache"
                                          ELSE "DownloadLatestWebView")
  /\ OnlyQueue

DownloadReceived(response, saved) ==
  /\ Runs("DownloadLatestWebView")
  /\ webFile' = IF saved THEN response ELSE webFile
  /\ IF running.config.hash \in {NoHash, response}
     THEN Continue([Op("UpdateCache", running.config)
                      EXCEPT !.data = response])
     ELSE Return
  /\ Requested
  /\ UNCHANGED <<appVars, configFile, process, mainQ, told, listening,
                 unreadable, reinits>>

\* No wait for the network here: a download without retries left is given up.
DownloadFails ==
  /\ Runs("DownloadLatestWebView")
  /\ IF running.retries < MaxRetries THEN TryAgain(running.config) ELSE Return
  /\ Requested
  /\ OnlyQueueAndRequests

DownloadIsMalformed ==
  /\ Runs("DownloadLatestWebView")
  /\ Return
  /\ OnlyQueue

\* The web view first, if there is any, then its configuration.
UpdateWebFile ==
  /\ Runs("UpdateCache") /\ running.data # NoContent
  /\ webFile' \in {webFile, running.data}
  /\ queue' = [queue EXCEPT ![1].data = NoContent]
  /\ UNCHANGED <<appVars, configFile, process, mainQ, told, listening,
                 counters>>

UpdateConfigFile ==
  /\ Runs("UpdateCache") /\ running.data = NoContent
  /\ configFile' \in {configFile, running.config}
  /\ Return
  /\ UNCHANGED <<appVars, webFile, process, mainQ, told, listening, counters>>

-----------------------------------------------------------------------------
(***************************************************************************)
(* The main thread: posted blocks, connections, and the calls of the       *)
(* application and of the page.                                            *)
(***************************************************************************)
RunBlock(block) ==
  /\ mainQ # <<>> /\ Head(mainQ) = block
  /\ mainQ' = Tail(mainQ)

\* The web view is dropped, and a reset that waits is signalled.
ResetView ==
  /\ RunBlock("resetView")
  /\ view' = FALSE
  /\ IF Runs("Reset") /\ running.wait = "waiting" THEN Waits("woken")
     ELSE UNCHANGED queue
  /\ UNCHANGED <<currentApp, condition, creation, initialized, files, process,
                 told, listening, counters>>

StopListening ==
  /\ \/ RunBlock("stopAll") /\ listening' = 0
     \/ RunBlock("unlisten")
        /\ listening' = IF listening = 0 THEN 0 ELSE listening - 1
  /\ UNCHANGED <<appVars, files, process, queue, told, counters>>

StartListening ==
  /\ RunBlock("listen")
  /\ listening' = listening + 1
  /\ UNCHANGED <<appVars, files, process, queue, told, counters>>

\* notifyInitializationComplete and notifyInitializationFailed.
NotifyComplete ==
  /\ RunBlock("complete")
  /\ sdkState' = "INITIALIZED_SUCCESSFULLY"
  /\ UNCHANGED <<appVars, files, process, queue, latest, listening, counters>>

NotifyFailed ==
  /\ RunBlock("failed")
  /\ sdkState' = "INITIALIZED_FAILED"
  /\ UNCHANGED <<appVars, files, process, queue, latest, listening, counters>>

\* The network comes back: whether this event counts, by its time and number,
\* is left to the environment.  Or the condition wakes up on its own, which
\* the waiting state takes for a connection, also before it listens.
WakeUp ==
  /\ Runs("NetworkError") /\ running.wait = "waiting"
  /\ requests.wakes < MaxWakes
  /\ requests' = [requests EXCEPT !.wakes = @ + 1]
  /\ Waits("woken")
  /\ OnlyQueueAndRequests

\* The first initialization of the process, with a configuration of defaults.
Start ==
  /\ sdkState = "NOT_INITIALIZED"
  /\ sdkState' = "INITIALIZING"
  /\ queue' = IF IsIdle THEN <<Op("LoadConfigFile", DefaultConfig)>> ELSE queue
  /\ UNCHANGED <<appVars, files, process, mainQ, latest, listening, counters>>

\* A mutant: the download does not ask whether the queue is empty.
DownloadAtOnce ==
  /\ view /\ Len(queue) < 2 /\ latest # NoConfig
  /\ queue' = Append(queue, Op("CheckForCachedWebViewUpdate", latest))
  /\ OnlyQueue

\* The page asks for a new initialization, which is dropped unless the queue
\* is empty; the application is no longer initialized all the same.
Reinitialize ==
  /\ view
  /\ CompleteInitialization(FALSE)
  /\ \/ ~IsIdle /\ UNCHANGED <<queue, reinits>>
     \/ /\ IsIdle /\ reinits < MaxReinits
        /\ reinits' = reinits + 1
        /\ queue' = <<Op("LoadConfigFile", IF currentApp = NoApp THEN NoConfig
                                           ELSE currentApp.config)>>
  /\ UNCHANGED <<view, condition, initialized, files, process, mainQ, told,
                 listening, requests, unreadable>>

DownloadLatest ==
  /\ view /\ IsIdle /\ latest # NoConfig
  /\ queue' = <<Op("CheckForCachedWebViewUpdate", latest)>>
  /\ OnlyQueue

\* The process ends, and another one starts with its files.
Restart ==
  /\ restarts < MaxRestarts
  /\ restarts' = restarts + 1
  /\ sdkVersion' \in {sdkVersion, sdkVersion + 1}
  /\ currentApp' = NoApp /\ view' = FALSE /\ condition' = FALSE
  /\ creation' = "none" /\ initialized' = FALSE
  /\ queue' = <<>> /\ mainQ' = <<>>
  /\ sdkState' = "NOT_INITIALIZED" /\ latest' = NoConfig
  /\ listening' = 0
  /\ requests' = NoRequests /\ unreadable' = FALSE /\ reinits' = 0
  /\ UNCHANGED files

-----------------------------------------------------------------------------
QueueStep ==
  \/ LoadConfigFile \/ ResetNoApp \/ BeginReset \/ EndReset \/ ResetTimesOut
  \/ InitModules
  \/ \E c \in Served : ConfigReceived(c)
  \/ ConfigFails \/ ConfigIsDisabled
  \/ Retry \/ BeginNetworkError \/ EndNetworkError \/ NetworkErrorTimesOut
  \/ LoadCache \/ LoadCacheConfigAndWebView \/ CheckForUpdatedWebView
  \/ CleanCache
  \/ \E r \in Versions, s \in BOOLEAN : WebReceived(r, s)
  \/ WebFails \/ WebIsMalformed \/ WebIsDownloaded \/ WebIsRemote
  \/ CreateOnMain \/ CreateStarts \/ CreateTimesOut \/ CreateEnds
  \/ Complete \/ Error \/ Leave
  \/ CheckForCachedWebViewUpdate
  \/ \E r \in Versions, s \in BOOLEAN : DownloadReceived(r, s)
  \/ DownloadFails \/ DownloadIsMalformed
  \/ UpdateWebFile \/ UpdateConfigFile

MainStep ==
  \/ ResetView \/ StartListening \/ StopListening
  \/ NotifyComplete \/ NotifyFailed

PageCalls ==
  /\ InitComplete \/ InitError
  /\ UNCHANGED <<files, process, queue, mainQ, told, listening, counters>>

Environment ==
  WakeUp \/ Start \/ PageCalls \/ Reinitialize \/ DownloadLatest \/ Restart

Next == QueueStep \/ MainStep \/ Environment

\* The platform runs the operations, ends their waits at the latest when they
\* are due, and runs what is posted to the main thread.  The application, the
\* page and the network owe nothing.
Fairness == WF_vars(QueueStep) /\ WF_vars(MainStep)

Spec == Init /\ [][Next]_vars /\ Fairness

-----------------------------------------------------------------------------
\* The page of the current application is the one that its configuration
\* asks for by hash, over downloads, failed writes of others, ends of the
\* process and updates of the SDK; only if the file of its own download could
\* not be written may it be another one.
VerifiedIsCreated ==
  currentApp # NoApp =>
    LET c == currentApp.config
    IN  c.source = "file" /\ c.hash # NoHash /\ currentApp.saved
          => currentApp.content = c.hash

\* No web view runs with a cached configuration of another version of the SDK.
ConfigurationIsOwn ==
  currentApp # NoApp => currentApp.config.sdk = sdkVersion

\* An initialization completes only by a page, created by this initialization,
\* that has reported itself initialized.
CompletedHasSaidSo ==
  Runs("Complete") => currentApp # NoApp /\ currentApp.said

\* However the network comes and goes, a chain makes no more requests than
\* its retries and the wake-ups allow.
RequestsAreBounded ==
  LET bound == MaxRetries + 1 + requests.wakes
  IN  requests.config <= bound /\ requests.web <= bound

\* UnityServices.isInitialized: "If YES, Unity Ads has been successfully
\* initialized" (UnityServices.h).  The page that sets it may have been given
\* up: the creation has timed out, and the initialization is told to have
\* failed.
InitializedIsSuccessful == initialized => sdkState # "INITIALIZED_FAILED"

\* No state that is over is left listening for connections.
NobodyKeepsListening == IsIdle /\ mainQ = <<>> => listening = 0

\* An initialization is told to have succeeded or failed, whatever the page
\* and the network do, unless the process ends or the cached configuration is
\* a file that cannot be read.
EveryInitializationIsTold ==
  sdkState = "INITIALIZING" ~> (sdkState # "INITIALIZING" \/ unreadable)
=============================================================================
