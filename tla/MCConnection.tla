---------------------------- MODULE MCConnection ----------------------------
(***************************************************************************)
(* Two processes and one connection: the UI process (u) and a web process  *)
(* (w).  The web process only marks messages while it dispatches a marked  *)
(* one and exits when a synchronous call fails (WebProcess.cpp).           *)
(***************************************************************************)
EXTENDS ConnectionProperties

CONSTANTS u, w, UI, Web

MCProcOf == (u :> UI) @@ (w :> Web)
MCPeer == (u :> w) @@ (w :> u)
MCOnlySend == (u :> FALSE) @@ (w :> TRUE)
MCExitOnFail == (u :> FALSE) @@ (w :> TRUE)

(* The operations each end may use, once for every occurrence.             *)
Times(s) == [op \in Ops |-> Cardinality({i \in DOMAIN s : s[i] = op})]

(* Nested synchronous calls in both directions.  A call of the UI process  *)
(* may time out, and its reply then arrive during another call.            *)
SyncBudget == {(u :> Times(<<"sync", "sync", "timeout">>)) @@ (w :> Times(<<"sync", "sync">>))}

(* The UI and the web process are such a setting with this budget.         *)
ASSUME SyncAssumption == SendersApart(SyncBudget)

(* Calls of a secondary thread, messages lost on a full socket, and a      *)
(* reply that the UI process keeps for later, as it does for               *)
(* GetPluginProcessConnection.                                             *)
LossBudget == {(u :> Times(<<"sync", "invalidate", "fail", "delay">>))
            @@ (w :> Times(<<"sync", "secondary">>))}

(* Calls that race with a timeout, an invalid message, an invalidated      *)
(* connection, a crash and the notice of the crash.                        *)
RaceBudget == (u :> Times(<<"sync", "invalidate", "timeout", "invalid", "posted">>))
           @@ (w :> Times(<<"sync", "crash">>))

(* The other end may close while a secondary thread waits for its reply;   *)
(* messages that are not marked pile up behind a call.                     *)
SecondaryBudget == (u :> Times(<<"sync", "invalidate">>))
                @@ (w :> Times(<<"secondary", "async">>))

LiveBudget == {RaceBudget, SecondaryBudget}

(* A secondary thread calls while the client invalidates the connection.   *)
HangBudget == {(u :> Times(<<>>)) @@ (w :> Times(<<"secondary", "invalidate">>))}
=============================================================================
