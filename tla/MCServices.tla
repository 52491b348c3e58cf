----------------------------- MODULE MCServices -----------------------------
(* The parts around the task server.  They share no state: a behaviour runs*)
(* one of them, chosen at the start, and the others rest.                  *)
EXTENDS McpClient, PushDelivery, TaskListing, RpcClient, JsonRpcServer, ArtifactStores, TLC

CONSTANT Parts

MCServers == <<"m1", "m2">>
MCContextOf == <<"c1", "c2", "c1">>
MCFilters == {[state |-> "IN_PROGRESS", contextId |-> Unset], [state |-> Unset, contextId |-> "c1"]}
MCCaps == {-1, 0, 1, Unset}
MCArtifactOf == <<1, 2>>
MCScans ==
  {{[key |-> k, artifactId |-> <<1, 1, 2, 3>>[k], uploadedAt |-> age[k]] : k \in keys} :
     keys \in SUBSET (1 .. 4), age \in [1 .. 4 -> 1 .. 2]}
MCArtifactCaps == {-1, 0, 1, 2}
MCBodies ==
  LET call == Item("good", TRUE, "m") notification == Item("good", FALSE, "m")
  IN  {[kind |-> "garbage", items |-> <<>>], [kind |-> "batch", items |-> <<>>],
       [kind |-> "single", items |-> <<call>>], [kind |-> "single", items |-> <<notification>>],
       [kind |-> "single", items |-> <<Item("badParams", TRUE, "m")>>],
       [kind |-> "batch", items |-> <<call, notification, call>>],
       [kind |-> "batch", items |-> <<notification, Item("bad", FALSE, "m")>>],
       [kind |-> "batch", items |-> <<notification, notification>>]}

VARIABLE part

vars == <<part, mcpVars, pushVars, listingVars, clientVars, rpcServerVars, storeVars>>

Init ==
  /\ part \in Parts
  /\ McpInit /\ PushInit /\ ListingInit /\ ClientInit /\ RpcServerInit /\ StoresInit
  /\ part # "stores" => provider = "memory" /\ download.file = CHOOSE f \in StoredFile : TRUE

Only(name, step) == part = name /\ step /\ UNCHANGED part

NextMcp ==
  /\ Only("mcp", McpNext)
  /\ UNCHANGED <<pushVars, listingVars, clientVars, rpcServerVars, storeVars>>
NextPush ==
  /\ Only("push", PushNext)
  /\ UNCHANGED <<mcpVars, listingVars, clientVars, rpcServerVars, storeVars>>
NextListing ==
  /\ Only("listing", ListingNext)
  /\ UNCHANGED <<mcpVars, pushVars, clientVars, rpcServerVars, storeVars>>
NextClient ==
  /\ Only("client", ClientNext)
  /\ UNCHANGED <<mcpVars, pushVars, listingVars, rpcServerVars, storeVars>>
NextRpcServer ==
  /\ Only("server", RpcServerNext)
  /\ UNCHANGED <<mcpVars, pushVars, listingVars, clientVars, storeVars>>
NextStores ==
  /\ Only("stores", StoresNext)
  /\ UNCHANGED <<mcpVars, pushVars, listingVars, clientVars, rpcServerVars>>

Next == NextMcp \/ NextPush \/ NextListing \/ NextClient \/ NextRpcServer \/ NextStores

FairSpec ==
  /\ Init /\ [][Next]_vars
  /\ McpFairness /\ PushFairness /\ ClientFairness /\ RpcServerFairness /\ StoresFairness

ServicesTypeOK ==
  /\ McpTypeOK /\ PushTypeOK /\ ListingTypeOK /\ ClientTypeOK /\ RpcServerTypeOK /\ StoresTypeOK

(* The sweep of the tasks and the cleanup of the artifacts each remove just*)
(* what is over their cap.                                                 *)
RetentionExact == EvictionExact /\ CapExact

(* However the network, the disk, the webhooks and the MCP servers fail, a *)
(* started dial, delivery, call, exchange or download comes to an end: the *)
(* limits on retries see to it, given that each single request ends, by its*)
(* timeout at the latest, and that method handlers do.                     *)
EverythingEnds == DialsSettle /\ DeliveriesSettle /\ CallsEnd /\ ExchangesEnd /\ DownloadsEnd
=============================================================================
