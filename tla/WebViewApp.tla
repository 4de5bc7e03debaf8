----------------------------- MODULE WebViewApp -----------------------------
(***************************************************************************)
(* USRVWebViewApp as the initialization meets it: the current application, *)
(* its creation on the main thread, and the calls with which the page that *)
(* was loaded reports on itself.                                           *)
(*                                                                         *)
(* The creator builds the web view in a block on the main thread, then     *)
(* waits on a condition until the page has said that it is initialized, or *)
(* that it has failed.  Condition and current application are static: a    *)
(* page speaks to whatever is current when it calls.  That a wait without  *)
(* a signal may wake up is of no effect here, because the creator tests    *)
(* webAppInitializatonDone again.                                          *)
(*                                                                         *)
(* Whether the page is loaded only gates the invocations sent to it, which *)
(* are in AsyncOperation and InvokerQueue; it decides nothing here and is  *)
(* left out, with the page's loadComplete.                                 *)
(*                                                                         *)
(* This module has the state and the steps; LegacyInit composes them.      *)
(***************************************************************************)
EXTENDS Naturals

CONSTANTS
  Versions,    \* contents of the web view's file; each is its own hash
  NoContent,   \* no file, or a page that could not be loaded
  NoHash,      \* a configuration without a hash
  NoConfig,    \* nil, or no file
  NoApp        \* no current application

ASSUME NothingAssumption == {NoContent, NoHash} \cap Versions = {}

VARIABLES
  currentApp,  \* the static current application
  view,        \* whether its web view is alive, so that the page can call
  condition,   \* whether the static condition exists
  creation,    \* where the creator is
  initialized  \* what UnityServices.isInitialized says

appVars == <<currentApp, view, condition, creation, initialized>>

(***************************************************************************)
(* What is kept of a configuration: the hash it asks for, whether an       *)
(* update of the web view is delayed, how the page is got, and for which   *)
(* version of the SDK it was made.  "file" is the download that checks the *)
(* hash, "download" the one of the Swift network layer, "remote" lets the  *)
(* web view load the page itself.                                          *)
(***************************************************************************)
Config == [hash : Versions \cup {NoHash}, delay : BOOLEAN,
           source : {"file", "download", "remote"}, sdk : Nat]

\* said: the page has reported that it is initialized; saved: the download
\* this page comes from, if there was one, was written to the file.
App == [config : Config, content : Versions \cup {NoContent},
        initialized : BOOLEAN, done : BOOLEAN,
        said : BOOLEAN, saved : BOOLEAN]

AppTypeOK ==
  /\ currentApp \in App \cup {NoApp}
  /\ view \in BOOLEAN /\ condition \in BOOLEAN /\ initialized \in BOOLEAN
  /\ creation \in {"none", "entering", "waiting", "woken"}

AppInit ==
  /\ currentApp = NoApp /\ view = FALSE /\ condition = FALSE
  /\ creation = "none" /\ initialized = FALSE

-----------------------------------------------------------------------------
\* completeWebViewAppInitialization on the current application; nothing if
\* there is none.
CompleteInitialization(success) ==
  IF currentApp = NoApp THEN UNCHANGED <<currentApp, creation>>
  ELSE /\ currentApp' = [currentApp EXCEPT
                           !.initialized = success, !.done = TRUE,
                           !.said = @ \/ success]
       /\ creation' = IF creation = "waiting" THEN "woken" ELSE creation

\* The calls of the page, on the main thread, in any order and as often as it
\* likes.
InitComplete ==
  /\ view
  /\ initialized' = TRUE
  /\ CompleteInitialization(TRUE)
  /\ UNCHANGED <<view, condition>>

InitError ==
  /\ view
  /\ CompleteInitialization(FALSE)
  /\ UNCHANGED <<view, condition, initialized>>

\* resetWebViewAppInitialization.
ResetInitialization ==
  currentApp' = [currentApp EXCEPT !.initialized = FALSE, !.done = FALSE]

-----------------------------------------------------------------------------
(***************************************************************************)
(* create: the block on the main thread has three outcomes.  The page is   *)
(* loaded and becomes current; it is not loaded, and the condition is      *)
(* dropped; or there is no web view, and the condition stays what an       *)
(* earlier creation has left, on which the creator then waits in vain.     *)
(***************************************************************************)
LoadPage(c, content, saved) ==
  /\ currentApp' = [config |-> c, content |-> content,
                    initialized |-> FALSE, done |-> FALSE, said |-> FALSE,
                    saved |-> saved]
  /\ view' = TRUE /\ condition' = TRUE /\ creation' = "entering"
  /\ UNCHANGED initialized

NoPageIsLoaded ==
  /\ condition' = FALSE
  /\ UNCHANGED <<currentApp, view, creation, initialized>>

NoViewButCondition ==
  /\ condition
  /\ creation' = "entering"
  /\ UNCHANGED <<currentApp, view, condition, initialized>>

Done == currentApp # NoApp /\ currentApp.done

\* The loop of the creator.  If the page is done before it waits, nothing was
\* waited for, and the creation counts as timed out.
EnterWait ==
  /\ creation = "entering" /\ ~Done
  /\ creation' = "waiting"
  /\ UNCHANGED <<currentApp, view, condition, initialized>>

CreationTimesOut ==
  /\ creation = "waiting" \/ (creation = "entering" /\ Done)
  /\ creation' = "none"
  /\ UNCHANGED <<currentApp, view, condition, initialized>>

\* A mutant: the creator only asks whether the page is done.
CreationIsDone(success) ==
  /\ creation = "woken"
  /\ success <=> Done
  /\ creation' = "none"
  /\ UNCHANGED <<currentApp, view, condition, initialized>>

CreationIsOver(success) ==
  /\ creation = "woken" /\ Done
  /\ success <=> currentApp.initialized
  /\ creation' = "none"
  /\ UNCHANGED <<currentApp, view, condition, initialized>>
=============================================================================
