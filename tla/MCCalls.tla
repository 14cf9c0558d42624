------------------------------- MODULE MCCalls --------------------------------
(* One call through one middleware.  MCCallTimeout.cfg: the default setting *)
(* of RetryMiddleware (3 retries) and of the call-chain guard (3 repeats)    *)
(* around a module that may time out.  MCCallInterrupted.cfg: a call whose   *)
(* coroutine is cancelled, as AsyncTaskManager.cancel() does.                *)
EXTENDS ModuleCall

MCRetrying == <<"retry">>
MCOuter == <<"outer">>
=============================================================================
