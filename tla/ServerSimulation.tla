-------------------------- MODULE ServerSimulation --------------------------
(***************************************************************************)
(* src/blog-tutorials/example4_server_simulation.py: RequestHandler and    *)
(* run_simulation().  Each step hands one request to handler.handle(),    *)
(* with its routing, its handlers and their error_count updates, and      *)
(* records the response as run_simulation's `results` loop does.  A path   *)
(* is the list path.split("/") gives, so "/api/user/eve" is               *)
(* <<"", "api", "user", "eve">>.                                          *)
(***************************************************************************)
EXTENDS Naturals, Sequences, FiniteSets

CONSTANTS
    Requests,      \* the requests that may arrive, [path, user]; the method
                   \* is left out, since no branch of handle() reads it
    NoUser,        \* user_id=None
    MaxRequests    \* requests in one simulation

ASSUME ServerAssumption == MaxRequests \in Nat

VARIABLES
    request_count,   \* handler.request_count
    error_count,     \* handler.error_count
    results          \* the response statuses, in request order

vars == <<request_count, error_count, results>>

\* self.users in RequestHandler.__init__.
Roles == [u \in {"alice", "bob", "charlie"} |->
             IF u = "alice" THEN "admin" ELSE "user"]

\* A handler's answer: the Response status, and whether it did
\* `self.error_count += 1` on the way.
Response(status, counted) == [status |-> status, counted |-> counted]

\* path.startswith(prefix) for a prefix ending in "/": its segments, then
\* at least one more.
StartsWith(path, segs) == Len(path) > Len(segs) /\ SubSeq(path, 1, Len(segs)) = segs

HandleApi(r) ==
    IF r.path = <<"", "api", "users">> THEN Response(200, FALSE)
    ELSE IF StartsWith(r.path, <<"", "api", "user">>)
         THEN IF r.path[Len(r.path)] \in DOMAIN Roles THEN Response(200, FALSE)
                                                       ELSE Response(404, TRUE)
    ELSE Response(404, TRUE)

\* Mutant of HandleAdmin: the refusal forgets `self.error_count += 1`.
HandleAdminUncounted(r) ==
    IF r.user \notin {NoUser, ""} /\ r.user \in DOMAIN Roles /\ Roles[r.user] = "admin"
       THEN Response(200, FALSE)
       ELSE Response(401, FALSE)

\* `if request.user_id and self.users.get(request.user_id) == "admin"`.
HandleAdmin(r) ==
    IF r.user \notin {NoUser, ""} /\ r.user \in DOMAIN Roles /\ Roles[r.user] = "admin"
       THEN Response(200, FALSE)
       ELSE Response(401, TRUE)

HandleStatic(r) == Response(200, FALSE)

\* handle(request): the routing on the path prefix.
Route(r) ==
    IF StartsWith(r.path, <<"", "api">>) THEN HandleApi(r)
    ELSE IF StartsWith(r.path, <<"", "admin">>) THEN HandleAdmin(r)
    ELSE HandleStatic(r)

Init == request_count = 0 /\ error_count = 0 /\ results = <<>>

\* Mutant of Handle: the loop bound is off by one.
HandleOffByOne ==
    /\ Len(results) <= MaxRequests
    /\ \E r \in Requests :
          LET resp == Route(r) IN
          /\ request_count' = request_count + 1
          /\ error_count' = IF resp.counted THEN error_count + 1 ELSE error_count
          /\ results' = Append(results, resp.status)

\* One iteration of run_simulation's loop: handler.handle(req), which
\* increments request_count first, then `results.append((req, response))`.
Handle ==
    /\ Len(results) < MaxRequests
    /\ \E r \in Requests :
          LET resp == Route(r) IN
          /\ request_count' = request_count + 1
          /\ error_count' = IF resp.counted THEN error_count + 1 ELSE error_count
          /\ results' = Append(results, resp.status)

\* The simulation has printed its totals.
Finished == Len(results) = MaxRequests /\ UNCHANGED vars

Next == Handle \/ Finished

Spec == Init /\ [][Next]_vars

(***************************************************************************)
(* Properties                                                              *)
(***************************************************************************)
Statuses == {200, 401, 404}

TypeOK ==
    /\ request_count \in Nat
    /\ error_count \in Nat
    /\ results \in Seq(Statuses)
    /\ Len(results) <= MaxRequests

\* The positions of the error responses (status >= 400) among the results.
ErrorResponses(s) == {i \in 1..Len(s) : s[i] >= 400}

\* run_simulation prints "Total errors" (handler.error_count) next to
\* "Error responses" (the results with status >= 400): every handler
\* branch that answers with an error status counts it once, and no other
\* branch counts, so the two totals agree after any sequence of requests.
ErrorsCounted == error_count = Cardinality(ErrorResponses(results))

=============================================================================
