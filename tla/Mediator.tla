------------------------------ MODULE Mediator ------------------------------
(***************************************************************************)
(* UADSGenericMediator with its UADSGenericClosureWrapper: observers that  *)
(* wait for an object, in the order in which they have subscribed.         *)
(*                                                                         *)
(* Every operation is one block of the mediator's serial queue, the calls  *)
(* of the observers included.  The timeout of an observer is not: on the   *)
(* main thread, didTimeout looks whether the wrapper still has its timeout *)
(* block, and only then asks the serial queue to remove the observer.      *)
(* A time that is not positive makes a wrapper without a timeout block.    *)
(***************************************************************************)
EXTENDS Integers, SequencesExt

CONSTANT Observers  \* who may subscribe

VARIABLES
  observers,  \* the wrappers in the order of their subscriptions
  armed,      \* the wrappers whose timeout block is still there
  firing      \* the wrapper whose timeout block the main thread has taken

mediatorVars == <<observers, armed, firing>>

MediatorTypeOK ==
  /\ observers \in Seq(Observers) /\ IsInjective(observers)
  /\ armed \subseteq Observers
  /\ firing \subseteq Observers

MediatorInit == observers = <<>> /\ armed = {} /\ firing = {}

\* A mutant: the observer has no timeout.
SubscribeForever(o, timeInSeconds) ==
  /\ observers' = Append(observers, o)
  /\ UNCHANGED <<armed, firing>>

\* The timeout starts with the subscription, if there is one.
Subscribe(o, timeInSeconds) ==
  /\ observers' = Append(observers, o)
  /\ armed' = IF timeInSeconds <= 0 THEN armed ELSE armed \cup {o}
  /\ UNCHANGED firing

\* A mutant: one observer too many is removed.
NotifyFirstDropNext ==
  /\ observers # <<>>
  /\ armed' = armed \ {Head(observers)}
  /\ observers' = IF Len(observers) > 1 THEN Tail(Tail(observers)) ELSE <<>>
  /\ UNCHANGED firing

\* notifyObserversSeparatelyWithObjectsAndRemove: with one object.
NotifyFirst ==
  /\ observers # <<>>
  /\ armed' = armed \ {Head(observers)}
  /\ observers' = Tail(observers)
  /\ UNCHANGED firing

NotifyAllAndRemove ==
  /\ armed' = armed \ ToSet(observers)
  /\ observers' = <<>>
  /\ UNCHANGED firing

\* didTimeout, up to the removal.
TakeTimeout(o) ==
  /\ o \in armed
  /\ firing' = firing \cup {o}
  /\ UNCHANGED <<observers, armed>>

\* A mutant: the observer is told of its timeout and stays.
DisarmOnly(o) ==
  /\ o \in firing
  /\ armed' = armed \ {o}
  /\ firing' = firing \ {o}
  /\ UNCHANGED observers

\* A mutant: the timeout block is still there after the timeout.
RemoveStillArmed(o) ==
  /\ o \in firing
  /\ observers' = RemoveFirst(observers, o)
  /\ firing' = firing \ {o}
  /\ UNCHANGED armed

\* removeObserverWithID:, after which the timeout closure is called.
RemoveObserver(o) ==
  /\ o \in firing
  /\ observers' = RemoveFirst(observers, o)
  /\ armed' = armed \ {o}
  /\ firing' = firing \ {o}
=============================================================================
