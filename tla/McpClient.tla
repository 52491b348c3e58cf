----------------------------- MODULE McpClient -----------------------------
(***************************************************************************)
(* MCPClient: background discovery of the tools of several MCP servers.    *)
(* Every server has its own loop that dials until it gets a session and    *)
(* lists the tools once; a timer lists them again, one server after the    *)
(* other, without waiting for the round before; stop may come at any await.*)
(* The MCP servers and the SDK are external: a dial or a request succeeds, *)
(* fails or times out.  Backoff delays and log lines are left out.         *)
(***************************************************************************)
EXTENDS Naturals, FiniteSets, Sequences

CONSTANTS
  McpServers,   \* config.servers, in order
  MaxRetries,   \* config.maxRetries
  Catalogs,     \* tool lists a server may serve
  Rounds,       \* bound: refresh rounds under way at a time
  NoCatalog     \* the empty list a server starts with

RETRY_FOREVER == 0

Server == {McpServers[i] : i \in DOMAIN McpServers}

(* The servers are distinct; parseServers does not remove duplicates.      *)
ASSUME McpConstants ==
  /\ McpServers \in Seq(Server)
  /\ MaxRetries \in Nat /\ NoCatalog \notin Catalogs
  /\ \A i, j \in DOMAIN McpServers : McpServers[i] = McpServers[j] => i = j

VARIABLES
  conn,       \* connectWithRetry of a server
  attempt,    \* its failed attempts
  session,    \* ServerState.client
  tools,      \* ServerState.tools, the last good snapshot
  round,      \* refreshAll: the servers a round has still to list
  timer,      \* the refresh timer is armed
  stopped,    \* stopController is aborted
  caught      \* the dials that were in flight when it was

mcpVars == <<conn, attempt, session, tools, round, timer, stopped, caught>>

McpInit ==
  /\ conn = [s \in Server |-> "off"] /\ attempt = [s \in Server |-> 0]
  /\ session = [s \in Server |-> FALSE] /\ tools = [s \in Server |-> NoCatalog]
  /\ round = [r \in Rounds |-> <<>>]
  /\ timer = FALSE /\ stopped = FALSE /\ caught = {}

(* start: every server is dialled and the timer armed, if there is any.  A *)
(* client stopped before it was started arms the timer, but dials nobody.  *)
McpStart ==
  /\ \A s \in Server : conn[s] = "off"
  /\ conn' = [s \in Server |-> IF stopped THEN "ended" ELSE "dialing"]
  /\ timer' = (McpServers # <<>>)
  /\ UNCHANGED <<attempt, session, tools, round, stopped, caught>>

(* The session is opened, whether or not the client was stopped meanwhile, *)
(* and its first listing starts.                                           *)
Connected(s) ==
  /\ conn[s] = "dialing"
  /\ session' = [session EXCEPT ![s] = TRUE]
  /\ conn' = [conn EXCEPT ![s] = "listing"]
  /\ UNCHANGED <<attempt, tools, round, timer, stopped, caught>>

(* Faulty variant: failed attempts are not counted.                        *)
DialFailsUncounted(s) ==
  /\ conn[s] = "dialing"
  /\ conn' = [conn EXCEPT ![s] =
       IF MaxRetries # RETRY_FOREVER /\ attempt[s] >= MaxRetries THEN "gaveUp" ELSE "sleeping"]
  /\ UNCHANGED <<attempt, session, tools, round, timer, stopped, caught>>

DialFails(s) ==
  /\ conn[s] = "dialing"
  /\ attempt' = [attempt EXCEPT ![s] = IF MaxRetries = RETRY_FOREVER THEN @ ELSE @ + 1]
  /\ conn' = [conn EXCEPT ![s] =
       IF MaxRetries # RETRY_FOREVER /\ attempt'[s] >= MaxRetries THEN "gaveUp" ELSE "sleeping"]
  /\ UNCHANGED <<session, tools, round, timer, stopped, caught>>

(* Faulty variant: the loop does not look at the signal after the sleep.   *)
WakesBlindly(s) ==
  /\ conn[s] = "sleeping"
  /\ conn' = [conn EXCEPT ![s] = "dialing"]
  /\ UNCHANGED <<attempt, session, tools, round, timer, stopped, caught>>

(* The backoff is over, or was cut short by stop, which ends the loop.     *)
Wakes(s) ==
  /\ conn[s] = "sleeping"
  /\ conn' = [conn EXCEPT ![s] = IF stopped THEN "ended" ELSE "dialing"]
  /\ UNCHANGED <<attempt, session, tools, round, timer, stopped, caught>>

(* refreshServer's answer: the new list, or the old one when the listing   *)
(* fails; a listing of a stopped client is aborted.                        *)
Refreshed(s) ==
  \/ /\ ~stopped
     /\ \E listed \in Catalogs : tools' = [tools EXCEPT ![s] = listed]
  \/ UNCHANGED tools

FirstListing(s) ==
  /\ conn[s] = "listing"
  /\ Refreshed(s)
  /\ conn' = [conn EXCEPT ![s] = "connected"]
  /\ UNCHANGED <<attempt, session, round, timer, stopped, caught>>

(* A tick of the timer begins a round, the previous one finished or not.   *)
Tick(r) ==
  /\ timer /\ round[r] = <<>>
  /\ round' = [round EXCEPT ![r] = McpServers]
  /\ UNCHANGED <<conn, attempt, session, tools, timer, stopped, caught>>

(* A round goes on with its next server; one without a session is skipped. *)
RoundLists(r) ==
  /\ round[r] # <<>>
  /\ round' = [round EXCEPT ![r] = Tail(@)]
  /\ IF session[Head(round[r])] THEN Refreshed(Head(round[r])) ELSE UNCHANGED tools
  /\ UNCHANGED <<conn, attempt, session, timer, stopped, caught>>

(* Faulty variant: the timer goes on.                                      *)
McpStopLeavesTimer ==
  /\ ~stopped
  /\ stopped' = TRUE
  /\ caught' = {s \in Server : conn[s] = "dialing"}
  /\ session' = [s \in Server |-> FALSE]
  /\ UNCHANGED <<conn, attempt, tools, round, timer>>

(* stop aborts the loops, clears the timer and closes the open sessions.   *)
McpStop ==
  /\ ~stopped
  /\ stopped' = TRUE
  /\ caught' = {s \in Server : conn[s] = "dialing"}
  /\ timer' = FALSE
  /\ session' = [s \in Server |-> FALSE]
  /\ UNCHANGED <<conn, attempt, tools, round>>

McpLoop(s) == Connected(s) \/ DialFails(s) \/ Wakes(s) \/ FirstListing(s)

McpNext ==
  \/ McpStart \/ McpStop
  \/ \E s \in Server : McpLoop(s)
  \/ \E r \in Rounds : Tick(r) \/ RoundLists(r)

McpSpec == McpInit /\ [][McpNext]_mcpVars

(* Dials and listings end, by the SDK's timeouts at the latest.            *)
McpFairness ==
  /\ \A s \in Server : WF_mcpVars(McpLoop(s))
  /\ \A r \in Rounds : WF_mcpVars(RoundLists(r))

-----------------------------------------------------------------------------
McpTypeOK ==
  /\ conn \in [Server -> {"off", "dialing", "sleeping", "listing", "connected", "gaveUp", "ended"}]
  /\ attempt \in [Server -> Nat]
  /\ {timer, stopped} \subseteq BOOLEAN /\ session \in [Server -> BOOLEAN]
  /\ tools \in [Server -> Catalogs \cup {NoCatalog}]
  /\ round \in [Rounds -> Seq(Server)] /\ caught \subseteq Server

(* stop is final: no dial begins after it and no session is open, except   *)
(* that of a dial stop met in flight, which nobody closes any more; a      *)
(* client that was running has no timer left.  A server is given up after  *)
(* exactly MaxRetries failed dials, and only one that has been dialled has *)
(* a session or tools (start, stop, connectWithRetry, refreshServer).      *)
DialsSound ==
  /\ stopped => \A s \in Server : session[s] \/ conn[s] = "dialing" => s \in caught
  /\ stopped /\ timer => \A s \in Server : conn[s] = "ended"
  /\ \A s \in Server :
       /\ session[s] => conn[s] \in {"listing", "connected"}
       /\ conn[s] \notin {"listing", "connected"} => tools[s] = NoCatalog
       /\ conn[s] = "gaveUp" => attempt[s] = MaxRetries
       /\ conn[s] \in {"off", "dialing", "sleeping"} /\ MaxRetries # RETRY_FOREVER => attempt[s] < MaxRetries

(* No loop dials for ever under a finite limit: a server ends up connected,*)
(* given up or, after stop, left alone.                                    *)
DialsSettle ==
  MaxRetries # RETRY_FOREVER =>
    \A s \in Server : conn[s] = "dialing" ~> conn[s] \in {"connected", "gaveUp", "ended"}
=============================================================================
