----------------------- MODULE MCHeaderBiddingTokens -----------------------
(***************************************************************************)
(* Model checking of HeaderBiddingTokens: two requests and two tokens of   *)
(* the web application; the more features a process has, the fewer calls   *)
(* of the web application.                                                 *)
(***************************************************************************)
EXTENDS HeaderBiddingTokens

CONSTANTS r1, r2

RequestSet == {r1, r2}

Process(config, signalled, configToken, webCalls) ==
  [privacyWait |-> config.privacyWait, hbTokenTimeout |-> config.tto,
   privacyWaitTimeout |-> config.prwto, signalled |-> signalled,
   configToken |-> configToken, calls |-> webCalls]

\* What the readers are built with: no configuration, the timeouts that a
\* configuration has by default, or shorter ones.
NoConfiguration == [privacyWait |-> FALSE, tto |-> 0, prwto |-> 0]
ByDefault == [privacyWait |-> FALSE, tto |-> 5000, prwto |-> 3000]
WithPrivacyWait == [ByDefault EXCEPT !.privacyWait = TRUE]
ShortToken == [WithPrivacyWait EXCEPT !.tto = 999]
ShortTimeouts == [ShortToken EXCEPT !.prwto = 999]

ProcessSetups ==
  {Process(ByDefault, {}, FALSE, 2), Process(ByDefault, {r1}, FALSE, 1),
   Process(WithPrivacyWait, {}, FALSE, 1),
   Process(WithPrivacyWait, {r1}, FALSE, 0),
   Process(ByDefault, {}, TRUE, 1), Process(NoConfiguration, {}, FALSE, 2),
   Process(NoConfiguration, {}, TRUE, 1), Process(ShortToken, {}, FALSE, 1),
   Process(ShortTimeouts, {}, FALSE, 1)}
=============================================================================
