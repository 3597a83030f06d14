----------------------- MODULE CurlHandleContainer -----------------------
(***************************************************************************)
(* The pool of libcurl handles behind every HTTP request                   *)
(* (src/curl_handle_container.cpp) and its one client,                     *)
(* CurlHttpClient::MakeRequest (src/curl_http_client.cpp).                 *)
(*                                                                         *)
(* Handles are numbered in the order curl_easy_init returned them.  The    *)
(* stack is a set: which idle handle is lent makes no difference.  A       *)
(* critical section of mMandleContainerMutex is one step.                  *)
(*                                                                         *)
(* A thread:  idle -> acquire <-> asleep;  acquire -> perform -> idle      *)
(***************************************************************************)
EXTENDS Integers, FiniteSets

CONSTANTS
    Requesters,         \* the threads that make requests
    NoHandle,
    MaxPoolSize         \* mMaxPoolSize

ASSUME RequestersAssumption == IsFiniteSet(Requesters)
ASSUME MaxPoolSizeAssumption == MaxPoolSize \in Nat
ASSUME NoHandleAssumption == NoHandle \notin Nat

VARIABLES
    idle,           \* mMandleContainer
    poolSize,       \* mPoolSize
    at,             \* where a thread is
    handle,         \* the handle a CurlHandleWrapper of the thread owns
    failed          \* history: curl_easy_init has returned NULL

handlesVars == <<idle, poolSize, at, handle, failed>>

HandlesInit ==
    /\ idle = {}
    /\ poolSize = 0
    /\ at = [t \in Requesters |-> "idle"]
    /\ handle = [t \in Requesters |-> NoHandle]
    /\ failed = FALSE

StartRequest(t) ==
    /\ at[t] = "idle"
    /\ at' = [at EXCEPT ![t] = "acquire"]
    /\ UNCHANGED <<idle, poolSize, handle, failed>>

\* Mutant: the growth is not cut to what the limit leaves.
AmountUncut == IF poolSize > 0 THEN 2 * poolSize ELSE 2

\* amountToAdd: the pool trebles, up to its limit.
AmountToAdd ==
    LET wanted == IF poolSize > 0 THEN 2 * poolSize ELSE 2
        room   == MaxPoolSize - poolSize
    IN IF wanted < room THEN wanted ELSE room

\* actuallyAdded: the calls of curl_easy_init that returned a handle.
Added == 0 .. AmountToAdd

\* Mutant: handles that were not created are counted.
CountAttempts(n) == poolSize' = poolSize + AmountToAdd

CountAdded(n) == poolSize' = poolSize + n

\* Pops a handle of `from` and leaves the critical section.
Pop(t, from) ==
    \E h \in from :
        /\ idle' = from \ {h}
        /\ handle' = [handle EXCEPT ![t] = h]
        /\ at' = [at EXCEPT ![t] = "perform"]

\* AcquireCurlHandle finds a handle.
Acquire(t) ==
    /\ at[t] = "acquire"
    /\ idle # {}
    /\ Pop(t, idle)
    /\ UNCHANGED <<poolSize, failed>>

\* AcquireCurlHandle finds none and CheckAndGrowPool adds some.
Grow(t) ==
    /\ at[t] = "acquire"
    /\ idle = {}
    /\ poolSize < MaxPoolSize
    /\ \E n \in Added \ {0} :
          /\ CountAdded(n)
          /\ Pop(t, poolSize + 1 .. poolSize + n)
          /\ failed' = (failed \/ n < AmountToAdd)

\* CheckAndGrowPool added nothing: the limit is reached, or no handle was created.
Wait(t) ==
    /\ at[t] = "acquire"
    /\ idle = {}
    /\ at' = [at EXCEPT ![t] = "asleep"]
    /\ failed' = (failed \/ poolSize < MaxPoolSize)
    /\ UNCHANGED <<idle, poolSize, handle>>

\* Mutant: the signal is left out.
SignalNobody(t) == at' = [at EXCEPT ![t] = "idle"]

\* pthread_cond_signal wakes one waiter at least, if there is one.
Signal(t) ==
    LET waiters == {u \in Requesters : at[u] = "asleep"}
    IN \E woken \in SUBSET waiters :
          /\ waiters # {} => woken # {}
          /\ at' = [u \in Requesters |-> IF u = t THEN "idle"
                                      ELSE IF u \in woken THEN "acquire" ELSE at[u]]

\* MakeRequest returns, with whatever outcome: the wrapper gives its handle back.
Release(t) ==
    /\ at[t] = "perform"
    /\ idle' = idle \cup {handle[t]}
    /\ handle' = [handle EXCEPT ![t] = NoHandle]
    /\ Signal(t)
    /\ UNCHANGED <<poolSize, failed>>

HandlesNext ==
    \E t \in Requesters :
        StartRequest(t) \/ Acquire(t) \/ Grow(t) \/ Wait(t) \/ Release(t)

HandlesSpec == HandlesInit /\ [][HandlesNext]_handlesVars

(***************************************************************************)
(* Requests end (CURLOPT_TIMEOUT_MS), and a thread that wants the mutex    *)
(* gets it: no holder keeps it for long.                                   *)
(***************************************************************************)
HandlesFairness ==
    \A t \in Requesters :
        WF_handlesVars(Acquire(t) \/ Grow(t) \/ Wait(t)) /\ WF_handlesVars(Release(t))

HandlesFairSpec == HandlesSpec /\ HandlesFairness

----------------------------------------------------------------------------
\* The variables hold values of their types; the pool never outgrows its limit.
HandlesTypeOK ==
    /\ poolSize \in 0 .. MaxPoolSize
    /\ idle \in SUBSET (1 .. MaxPoolSize)
    /\ at \in [Requesters -> {"idle", "acquire", "asleep", "perform"}]
    /\ handle \in [Requesters -> (1 .. MaxPoolSize) \cup {NoHandle}]
    /\ failed \in BOOLEAN

\* Every handle the pool counts is either idle or lent to exactly one thread, and only
\* a thread in the middle of a request has one: no handle leaks on any path out of
\* MakeRequest, and two requests never share a connection.
HandlesConserved ==
    /\ idle \subseteq 1 .. poolSize
    /\ \A t \in Requesters :
          IF at[t] = "perform" THEN handle[t] \in (1 .. poolSize) \ idle
                               ELSE handle[t] = NoHandle
    /\ \A t, u \in Requesters : handle[t] = handle[u] /\ handle[t] # NoHandle => t = u
    /\ \A h \in 1 .. poolSize : h \in idle \/ \E t \in Requesters : handle[t] = h

\* No wake-up is lost while handles can be created: when threads are asleep, every idle
\* handle has a thread that is awake and about to take it, so none lies unused in front of a
\* sleeper.  (A thread that fell asleep because curl_easy_init failed is not woken by a later
\* growth.)
NoStrandedHandle ==
    ~failed /\ (\E t \in Requesters : at[t] = "asleep") =>
        Cardinality(idle) <= Cardinality({t \in Requesters : at[t] = "acquire"})

\* After some point no thread begins another request.
RequestsEnd == <>[][\A t \in Requesters : ~StartRequest(t)]_handlesVars

\* Once no new requests are made, every one of those under way gets a handle, although the
\* wake-up hands none over and a thread that came later may take it first.  While others go
\* on making requests it need not: a thread that finds a handle (curl_handle_container.cpp:60)
\* takes it before the one that was woken for it (:78), as often as that happens.  Once a
\* handle could not be created, threads may wait for one that nobody will release (the TODO
\* at curl_handle_container.cpp:102).
RequestServed ==
    RequestsEnd => \A t \in Requesters :
                       at[t] \in {"acquire", "asleep"} ~> (at[t] = "perform" \/ failed)
============================================================================
