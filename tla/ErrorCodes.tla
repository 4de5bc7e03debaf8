----------------------------- MODULE ErrorCodes -----------------------------
(***************************************************************************)
(* The error values of the ad-operation modules and their conversions.    *)
(*                                                                         *)
(* An internal error (UADSInternalError) carries an error domain, here a   *)
(* string, and a reason, the integer the C enumeration gives it.  The      *)
(* delegate wrappers turn it into an integer of a public enumeration; a    *)
(* case they do not list falls through to the raw integer, so integers are *)
(* kept and not names.                                                     *)
(***************************************************************************)
EXTENDS Integers

\* kUADSInternalErrorShowModule = 0, LoadModule = 1, AbstractModule = 2,
\* WebView = 3 (UADSInternalErrorType); -1 is the literal the invoker queue
\* uses for an SDK whose initialization has failed.
DomainCode ==
  [show |-> 0, load |-> 1, abstract |-> 2, webview |-> 3, none |-> -1]

InternalError(domain, reason) == [domain |-> domain, reason |-> reason]

\* UADSInternalErrorAbstractModuleType and UADSInternalErrorWebViewType.
TTLExpired        == InternalError("abstract", 0)
EmptyPlacement    == InternalError("abstract", 1)
WebViewInternal   == InternalError("webview", 0)
WebViewTimeout    == InternalError("webview", 1)
InitFailedLate    == InternalError("webview", 2)

\* The error of an operation invoked when the initialization has failed: the
\* reason is the initialization state NOT_INITIALIZED, 0.
InitFailedEarly   == InternalError("none", 0)

-----------------------------------------------------------------------------
\* UnityAdsLoadError, UnityAdsShowError and UADSBannerErrorCode.
LoadError ==
  [InitializeFailed |-> 0, Internal |-> 1, InvalidArgument |-> 2,
   NoFill |-> 3, Timeout |-> 4]

ShowError ==
  [NotInitialized |-> 0, NotReady |-> 1, VideoPlayerError |-> 2,
   InvalidArgument |-> 3, NoConnection |-> 4, AlreadyShowing |-> 5,
   InternalError |-> 6, Timeout |-> 7]

BannerError ==
  [Unknown |-> 0, NativeError |-> 1, WebViewError |-> 2, NoFill |-> 3,
   InitializeFailed |-> 4, InvalidArgument |-> 5]

ShowNotInitialized == InternalError("show", ShowError.NotInitialized)
ShowNotSupported   == InternalError("show", ShowError.InvalidArgument)

\* The reasons for which a web view can name a failed show, and the code that
\* UnityAdsShowErrorFromNSString finds under the name: each its own, except
\* that "NO_CONNECTION" is looked up as kUnityShowErrorAlreadyShowing.  A
\* name that is not listed gives 0, the code of NOT_INITIALIZED.
NamedShowErrors ==
  {ShowError.NotInitialized, ShowError.NotReady, ShowError.VideoPlayerError,
   ShowError.InvalidArgument, ShowError.NoConnection,
   ShowError.AlreadyShowing, ShowError.InternalError}

ShowErrorFromName(named) ==
  IF named = ShowError.NoConnection THEN ShowError.AlreadyShowing ELSE named

\* The reasons with which a web view fails a load, by name, or a banner, by
\* number: the codes of UnityAdsLoadError and of UADSBannerErrorCode.  A name
\* that is not listed gives 0, the code of INITIALIZE_FAILED.
LoadReasons == 0..5

-----------------------------------------------------------------------------
\* A mutant: the case of a failed initialization is missing, so that the
\* reason of the web-view domain passes for a reason of a load.
LoadPublicErrorWithoutInit(e) ==
  CASE e = TTLExpired      -> LoadError.Timeout
    [] e = WebViewInternal -> LoadError.Internal
    [] e = EmptyPlacement  -> LoadError.InvalidArgument
    [] OTHER               -> e.reason

\* UADSLoadModuleDelegateWrapper.convertIntoPublicError
LoadPublicError(e) ==
  CASE e = TTLExpired      -> LoadError.Timeout
    [] e = WebViewInternal -> LoadError.Internal
    [] e = InitFailedLate  -> LoadError.InitializeFailed
    [] e = EmptyPlacement  -> LoadError.InvalidArgument
    [] OTHER               -> e.reason

\* UADShowDelegateWrapper.didFailWithError.  The second operand of the first
\* test, `|| kUADSInternalErrorShowModule', is the constant 0: only the web
\* view domain takes that branch, and the show domain keeps its own code, 0.
ShowPublicError(e) ==
  CASE e = WebViewTimeout      -> ShowError.Timeout
    [] e.domain = "webview" /\ e # WebViewTimeout -> ShowError.InternalError
    [] e = TTLExpired          -> ShowError.InternalError
    [] e = EmptyPlacement      -> ShowError.InvalidArgument
    [] OTHER                   -> DomainCode[e.domain]

\* UADSBannerLoadModuleDelegateWrapper.convertIntoPublicError
BannerPublicError(e) ==
  CASE e = TTLExpired      -> BannerError.NativeError
    [] e = WebViewInternal -> BannerError.WebViewError
    [] e = InitFailedLate  -> BannerError.InitializeFailed
    [] e = EmptyPlacement  -> BannerError.InvalidArgument
    [] OTHER               -> e.reason
=============================================================================
