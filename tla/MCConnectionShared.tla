------------------------- MODULE MCConnectionShared -------------------------
(***************************************************************************)
(* Three processes and two connections that share the main thread, and so  *)
(* the SyncMessageState, of the web process: one to the UI process (uw and *)
(* wu) and one to a plug-in process (wp and pw).  The flags are those that *)
(* WebProcess.cpp and PluginProcess/WebProcessConnection.cpp set.          *)
(***************************************************************************)
EXTENDS ConnectionProperties

CONSTANTS uw, wu, wp, pw, UI, Web, Plugin

MCProcOf == (uw :> UI) @@ (wu :> Web) @@ (wp :> Web) @@ (pw :> Plugin)
MCPeer == (uw :> wu) @@ (wu :> uw) @@ (wp :> pw) @@ (pw :> wp)
MCOnlySend == (uw :> FALSE) @@ (wu :> TRUE) @@ (wp :> FALSE) @@ (pw :> TRUE)
MCExitOnFail == (uw :> FALSE) @@ (wu :> TRUE) @@ (wp :> FALSE) @@ (pw :> FALSE)

Times(s) == [op \in Ops |-> Cardinality({i \in DOMAIN s : s[i] = op})]

(* Every process sends one synchronous message on each of its connections. *)
AllSync == {[c \in Conn |-> Times(<<"sync">>)]}

(* The web process starts a plug-in, which makes a synchronous call while  *)
(* the web process does so, too (createPluginAsynchronously).              *)
StartPlugin == (uw :> Times(<<>>)) @@ (wu :> Times(<<>>))
            @@ (wp :> Times(<<"async", "sync">>)) @@ (pw :> Times(<<"increment", "sync">>))

(* Marked messages reach the web process on both connections; those of the *)
(* plug-in process while it answers a call.  The UI process also sends one *)
(* that is not marked.                                                     *)
TwoUrgent == (uw :> Times(<<"urgent", "urgent", "async">>)) @@ (wu :> Times(<<>>))
          @@ (wp :> Times(<<"sync">>)) @@ (pw :> Times(<<"urgent">>))

SharedBudget == {TwoUrgent, StartPlugin}
=============================================================================
