---------------------------- MODULE ServerProofs ----------------------------
(***************************************************************************)
(* TLAPS proofs about ServerSimulation: the request simulation is well    *)
(* typed, and handler.error_count always equals the number of error       *)
(* responses, for every set of requests and every MaxRequests.            *)
(***************************************************************************)
EXTENDS ServerSimulation, FiniteSetTheorems, SequenceTheorems, TLAPS

(***************************************************************************)
(* Every branch of handle() answers with a status in Statuses, and counts *)
(* an error exactly when that status is 400 or more.                      *)
(***************************************************************************)
LEMMA RouteCountsErrors ==
    ASSUME NEW r
    PROVE  /\ Route(r).status \in Statuses
           /\ Route(r).counted <=> Route(r).status >= 400
<1>1. /\ HandleApi(r).status \in Statuses
      /\ HandleApi(r).counted <=> HandleApi(r).status >= 400
  BY DEF HandleApi, Response, Statuses
<1>2. /\ HandleAdmin(r).status \in Statuses
      /\ HandleAdmin(r).counted <=> HandleAdmin(r).status >= 400
  <2> DEFINE admin == r.user \notin {NoUser, ""} /\ r.user \in DOMAIN Roles
                      /\ Roles[r.user] = "admin"
  <2>1. CASE admin
    <3>1. HandleAdmin(r) = Response(200, FALSE)  BY <2>1 DEF HandleAdmin
    <3>. QED  BY <3>1 DEF Response, Statuses
  <2>2. CASE ~admin
    <3>1. HandleAdmin(r) = Response(401, TRUE)  BY <2>2 DEF HandleAdmin
    <3>. QED  BY <3>1 DEF Response, Statuses
  <2>. QED  BY <2>1, <2>2
<1>3. /\ HandleStatic(r).status \in Statuses
      /\ HandleStatic(r).counted <=> HandleStatic(r).status >= 400
  BY DEF HandleStatic, Response, Statuses
<1>4. CASE StartsWith(r.path, <<"", "api">>)
  <2>1. Route(r) = HandleApi(r)  BY <1>4 DEF Route
  <2>. QED  BY <1>1, <2>1
<1>5. CASE ~StartsWith(r.path, <<"", "api">>) /\ StartsWith(r.path, <<"", "admin">>)
  <2>1. Route(r) = HandleAdmin(r)  BY <1>5 DEF Route
  <2>. QED  BY <1>2, <2>1
<1>6. CASE ~StartsWith(r.path, <<"", "api">>) /\ ~StartsWith(r.path, <<"", "admin">>)
  <2>1. Route(r) = HandleStatic(r)  BY <1>6 DEF Route
  <2>. QED  BY <1>3, <2>1
<1>. QED  BY <1>4, <1>5, <1>6

(***************************************************************************)
(* Appending a status adds its position to the error responses exactly    *)
(* when it is an error status.                                             *)
(***************************************************************************)
LEMMA ErrorResponsesAppend ==
    ASSUME NEW s \in Seq(Statuses), NEW x \in Statuses
    PROVE  /\ IsFiniteSet(ErrorResponses(s))
           /\ Cardinality(ErrorResponses(Append(s, x))) =
                 IF x >= 400 THEN Cardinality(ErrorResponses(s)) + 1
                             ELSE Cardinality(ErrorResponses(s))
<1> DEFINE n == Len(s)
<1>1. n \in Nat
  OBVIOUS
<1>2. IsFiniteSet(ErrorResponses(s))
  <2>1. IsFiniteSet(1..n)  BY <1>1, FS_Interval
  <2>2. ErrorResponses(s) \subseteq 1..n  BY DEF ErrorResponses
  <2>. QED  BY <2>1, <2>2, FS_Subset
<1>3. n + 1 \notin ErrorResponses(s)
  BY <1>1 DEF ErrorResponses
<1>4. CASE x >= 400
  <2>1. ErrorResponses(Append(s, x)) = ErrorResponses(s) \cup {n + 1}
    BY <1>1, <1>4 DEF ErrorResponses
  <2>. QED  BY <1>2, <1>3, <1>4, <2>1, FS_AddElement
<1>5. CASE ~(x >= 400)
  <2>1. ErrorResponses(Append(s, x)) = ErrorResponses(s)
    BY <1>1, <1>5 DEF ErrorResponses
  <2>. QED  BY <1>2, <1>5, <2>1
<1>. QED  BY <1>2, <1>4, <1>5

(***************************************************************************)
(* Type correctness: counters are naturals, the results are statuses, and *)
(* the simulation never handles more than MaxRequests requests.           *)
(***************************************************************************)
LEMMA TypeStep == TypeOK /\ [Next]_vars => TypeOK'
<1> SUFFICES ASSUME TypeOK, [Next]_vars PROVE TypeOK'
  OBVIOUS
<1>1. CASE Handle
  <2>1. PICK r \in Requests :
          /\ request_count' = request_count + 1
          /\ error_count' = IF Route(r).counted THEN error_count + 1 ELSE error_count
          /\ results' = Append(results, Route(r).status)
    BY <1>1 DEF Handle
  <2>2. Route(r).status \in Statuses  BY RouteCountsErrors
  <2>3. Len(results) < MaxRequests  BY <1>1 DEF Handle
  <2>. QED  BY <2>1, <2>2, <2>3, ServerAssumption DEF TypeOK
<1>2. CASE Finished \/ UNCHANGED vars
  BY <1>2 DEF Finished, vars, TypeOK
<1>. QED  BY <1>1, <1>2 DEF Next

\* The request simulation is well typed, for every Requests and MaxRequests.
THEOREM TypeCorrect == Spec => []TypeOK
<1>1. Init => TypeOK  BY ServerAssumption DEF Init, TypeOK
<1>. QED  BY <1>1, TypeStep, PTL DEF Spec

(***************************************************************************)
(* ErrorsCounted is inductive together with the types.                     *)
(***************************************************************************)
CountInv == TypeOK /\ ErrorsCounted

LEMMA CountStep == CountInv /\ [Next]_vars => CountInv'
<1> SUFFICES ASSUME CountInv, [Next]_vars PROVE CountInv'
  OBVIOUS
<1>1. TypeOK'  BY TypeStep DEF CountInv
<1>2. CASE Handle
  <2>1. PICK r \in Requests :
          /\ request_count' = request_count + 1
          /\ error_count' = IF Route(r).counted THEN error_count + 1 ELSE error_count
          /\ results' = Append(results, Route(r).status)
    BY <1>2 DEF Handle
  <2>2. /\ Route(r).status \in Statuses
        /\ Route(r).counted <=> Route(r).status >= 400
    BY RouteCountsErrors
  <2>3. Cardinality(ErrorResponses(results')) =
          IF Route(r).status >= 400 THEN Cardinality(ErrorResponses(results)) + 1
                                    ELSE Cardinality(ErrorResponses(results))
    BY <2>1, <2>2, ErrorResponsesAppend DEF CountInv, TypeOK
  <2>. QED  BY <1>1, <2>1, <2>2, <2>3 DEF CountInv, ErrorsCounted
<1>3. CASE Finished \/ UNCHANGED vars
  BY <1>1, <1>3 DEF Finished, vars, CountInv, ErrorsCounted
<1>. QED  BY <1>2, <1>3 DEF Next

\* run_simulation's "Total errors" always equals its count of responses
\* with status >= 400, after any sequence of requests of any length.
THEOREM ErrorsCountedInvariant == Spec => []ErrorsCounted
<1>1. Init => CountInv
  <2> SUFFICES ASSUME Init PROVE CountInv
    OBVIOUS
  <2>1. ErrorResponses(results) = {}  BY DEF Init, ErrorResponses
  <2>. QED  BY <2>1, FS_EmptySet, ServerAssumption DEF Init, CountInv, TypeOK, ErrorsCounted
<1>2. CountInv => ErrorsCounted  BY DEF CountInv
<1>. QED  BY <1>1, <1>2, CountStep, PTL DEF Spec

=============================================================================
