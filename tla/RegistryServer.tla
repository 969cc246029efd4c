----------------------------- MODULE RegistryServer -----------------------------
(***************************************************************************)
(* "aiba registry-serve" next to the commands that publish                 *)
(* (packages/registry-server/src/index.ts).                                *)
(*                                                                         *)
(* A start verifies the latest snapshot and every bundle it lists, and     *)
(* keeps the routes; a request reads the file of its route again.  Between *)
(* the two the operator's commands change the directory.  The window       *)
(* counts the authorized requests of a minute, and counts no further than  *)
(* it takes to refuse one.                                                 *)
(***************************************************************************)
EXTENDS RegistryPublisher

CONSTANT Limit   \* --request-limit

ASSUME LimitAssumption == Limit \in Nat \ {0}

VARIABLES
    server,   \* the process: down, starting, or up with the routes it verified
    window,   \* [requests, over]: authorized requests, and if the minute is over
    answer    \* the status of the last answer; 200 divides into the bytes the
              \* server verified and other ones

serverVars == <<server, window, answer>>
serviceVars == <<vars, serverVars>>

Down == [phase |-> "down"]
Fresh == [requests |-> 0, over |-> FALSE]
Statuses == {"none", "200", "200 other", "401", "404", "429", "500"}
Admitted == {"200", "200 other", "404", "500"}

ServiceInit ==
    /\ Init
    /\ server = Down
    /\ window = Fresh
    /\ answer = "none"

-----------------------------------------------------------------------------
\* latestSequence: the highest directory.
ServerStart ==
    /\ site.served /\ server.phase = "down"
    /\ Listed(registry) # {}
    /\ server' = [phase |-> "starting", sequence |-> Highest(Listed(registry))]
    /\ UNCHANGED <<window, answer>>

\* buildVerifiedRoutes: the index, its expiry and every bundle, or no server.
ServerVerify ==
    /\ server.phase = "starting"
    /\ LET s == server.sequence IN
         IF /\ Whole(registry, s) /\ s > horizon
            /\ Present(registry, registry.snapshots[s].entries)
           THEN server' = [phase |-> "up", sequence |-> s,
                           entries |-> registry.snapshots[s].entries]
           ELSE server' = Down
    /\ window' = Fresh
    /\ UNCHANGED answer

ServerStop ==
    /\ server.phase = "up"
    /\ server' = Down /\ window' = Fresh /\ answer' = "none"

\* A minute has passed since the window started.
Tick ==
    /\ server.phase = "up" /\ ~window.over
    /\ window' = [window EXCEPT !.over = TRUE]
    /\ UNCHANGED <<server, answer>>

Paths == [kind : {"latest", "index"}] \cup [kind : {"bundle"}, slot : Slots]

\* Mutant: a path that has no route is looked up in the directory.
ReadsDirectory(path, status) ==
    CASE path.kind = "latest" -> status = "200"
      [] path.kind = "index" -> status = "200"
      [] path.kind = "bundle" ->
           status = CASE registry.bundles[path.slot] = None -> "404"
                      [] registry.bundles[path.slot] = server.entries[path.slot] -> "200"
                      [] OTHER -> "200 other"

\* readRegularRouteFile: what the file of the route holds now; a directory that
\* is being removed may still hold it.  latest.json was built at the start.
Reads(path, status) ==
    CASE path.kind = "latest" -> status = "200"
      [] path.kind = "index" ->
           LET snapshot == registry.snapshots[server.sequence] IN
           IF snapshot = None THEN status = "500"
             ELSE \/ snapshot.whole /\ status = (IF snapshot.entries = server.entries
                                                  THEN "200" ELSE "200 other")
                  \/ ~snapshot.whole /\ status \in {"200", "500"}
      [] path.kind = "bundle" ->
           CASE server.entries[path.slot] = None -> status = "404"
             [] registry.bundles[path.slot] = None -> status = "500"
             [] registry.bundles[path.slot] = Torn -> status \in {"200", "500"}
             [] OTHER -> status = (IF registry.bundles[path.slot] = server.entries[path.slot]
                                     THEN "200" ELSE "200 other")

\* A window that is over starts again with this request.
Count ==
    window' = IF window.over THEN [requests |-> 1, over |-> FALSE]
              ELSE [window EXCEPT !.requests = IF @ > Limit THEN @ ELSE @ + 1]

\* An authorized request: counted, refused over the limit, answered otherwise.
Authorized(path) ==
    /\ server.phase = "up"
    /\ Count
    /\ \E status \in Admitted :
         /\ Reads(path, status)
         /\ answer' = IF window'.requests > Limit THEN "429" ELSE status
    /\ UNCHANGED server

\* Mutant: requests without the token count as well.
UnauthorizedCounted ==
    /\ server.phase = "up"
    /\ Count
    /\ answer' = "401"
    /\ UNCHANGED server

\* A request without the token.
Unauthorized ==
    /\ server.phase = "up"
    /\ answer' = "401"
    /\ UNCHANGED <<server, window>>

ServerStep ==
    \/ ServerStart
    \/ ServerVerify
    \/ ServerStop
    \/ Tick
    \/ \E path \in Paths : Authorized(path)
    \/ Unauthorized

ServiceNext ==
    \/ Next /\ UNCHANGED serverVars
    \/ ServerStep /\ UNCHANGED vars

ServiceSpec == ServiceInit /\ [][ServiceNext]_serviceVars

\* Time passes, and a client that holds the token keeps asking.  Nothing is
\* assumed of the operator's commands or of requests without the token.
Fairness ==
    /\ WF_serviceVars(Tick /\ UNCHANGED vars)
    /\ WF_serviceVars((\E path \in Paths : Authorized(path)) /\ UNCHANGED vars)

FairServiceSpec == ServiceSpec /\ Fairness

-----------------------------------------------------------------------------
\* The type invariant.
ServiceTypeOK ==
    /\ TypeOK
    /\ server \in {Down} \cup [phase : {"starting"}, sequence : Sequences]
                    \cup [phase : {"up"}, sequence : Sequences, entries : Listings]
    /\ window \in [requests : 0..(Limit + 1), over : BOOLEAN]
    /\ answer \in Statuses

\* While no two index commands have overlapped, a distribution answer holds the
\* bytes that were verified when the server started, whatever has been imported,
\* indexed one after another, or collected since.
ServedAsVerified == ~raced => answer # "200 other"

\* A client that holds the token and is refused for its rate is served again
\* later, however many requests without the token arrive
\* (docs/REGISTRY_OPERATIONS.md:16).
RefusalsEnd == answer = "429" ~> answer \in Admitted \cup {"none"}
=============================================================================
