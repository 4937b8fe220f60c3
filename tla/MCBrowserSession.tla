-------------------------- MODULE MCBrowserSession --------------------------
(* Instances of BrowserSession for TLC.                                    *)
EXTENDS BrowserSession, TLC

\* Every request is served by one process.
OneServer == [r \in Requests |-> CHOOSE v \in Servers : TRUE]
=============================================================================
