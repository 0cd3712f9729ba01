----------------------------- MODULE PolicyAccess ----------------------------
(* What a key of the MCP page may do: the decisions of the policy decision   *)
(* point (PDP) with their cache (src/src/access_pdp.cpp), and the state of   *)
(* the key that is kept on top of them (src/src/mcp_creator_access.cpp), as  *)
(* the tool calls of one key and the adoptions of it use them                *)
(* (src/src/api_mcp.cpp).  All questions are about the creator of the key.   *)
(*                                                                           *)
(* Time passes in ticks, and only while nobody computes: what takes time is  *)
(* the network.  The PDP answers at one moment of a request, and the answer  *)
(* arrives at a later one.                                                   *)
(* Some definitions follow a form of themselves with a bug that the code     *)
(* could have; no action uses it.                                            *)
EXTENDS Integers, FiniteSetsExt

CONSTANTS
  Asked,         \* the questions of the tools of the key
  UseQuestion,   \* the one whose action lists a budget
  Requests,      \* threads that serve requests
  TTL,           \* PdpOptions::cache_ttl, which is the period of McpCreatorAccess too
  Timeout,       \* PdpOptions::timeout
  BatchTimeout,  \* PdpOptions::batch_timeout
  UseTimeout,    \* the longest usage_timeout: what the PDP may publish, and a second
  MaxItems,      \* questions in one request to the PDP
  Horizon,       \* bound of the model: how far back the policy is remembered
  MaxRequests,   \* bound of the model: tool calls and adoptions
  MaxChanges     \* bound of the model: changes of the policy

ASSUME PolicyAssumption ==
  /\ UseQuestion \in Asked /\ IsFiniteSet(Asked) /\ Asked \cap {"use", "gone"} = {}
  /\ TTL \in Nat /\ Timeout \in Nat /\ BatchTimeout \in Nat /\ Horizon \in Nat
  /\ Timeout <= BatchTimeout   \* or the server does not start (config.cpp)
  /\ UseTimeout \in Nat /\ Timeout <= UseTimeout
  /\ MaxRequests \in Nat /\ MaxChanges \in Nat
  /\ MaxItems \in Nat \ {0}

VARIABLES
  policy,    \* of the PDP: the questions that are true for the creator, and whether it knows the creator
  since,     \* history: ticks since a question was true, and since the creator was unknown
  cache,     \* PdpClient::cache_, with the ticks that an answer has left
  kept,      \* McpCreatorAccess::kept_ of this key and its creator
  thread,    \* what each request does
  count      \* requests and changes of the policy so far

policyVars == <<policy, since, cache, kept, thread, count>>

Use       == "use"       \* use_cache_key: the answer to a use is kept apart
CacheKeys == Asked \cup {Use}
Policies  == [allowed : SUBSET Asked, known : {TRUE}] \cup {[allowed |-> {}, known |-> FALSE]}
True(p, x) == IF x = "gone" THEN ~p.known ELSE x \in p.allowed
NoAnswer  == [answer |-> "none", left |-> 0]
NoState   == [gone |-> FALSE, left |-> 0]

Idle(reply) == [pc |-> "idle", reply |-> reply]

Running ==
  [pc : {"state", "decide", "metadata", "sent", "answered", "conclude", "use", "useMetadata", "useSent", "useAnswered"},
   goal : {"state", "others", "adopt"},
   out : [Asked -> {"allow", "deny", "gone", "failed"}],   \* the decisions of this decide
   todo : SUBSET Asked, chunk : SUBSET Asked,              \* questions that wait, and those on the way
   split : BOOLEAN, limit : 0..UseTimeout,
   got : [Asked -> {"allow", "deny", "gone", "failed"}],   \* what the PDP answered
   use : {"none", "paid", "free", "spent", "refused", "unmetered"},
   waited : 0..UseTimeout + 1,                             \* ticks of this wait,
   total : Nat, meta : 0..Timeout + 1,                     \* of all, and of the one for the metadata
   units : 0..2]

PolicyTypeOK ==
  /\ policy \in Policies
  /\ since \in [Asked \cup {"gone"} -> 0..Horizon]
  /\ cache \in [CacheKeys -> [answer : {"none", "allow", "deny", "gone", "free", "spent"}, left : 0..TTL]]
  /\ kept \in [gone : BOOLEAN, left : 0..TTL]
  /\ \A r \in Requests : thread[r].pc = "idle" \/ thread[r] \in Running
  /\ count \in [requests : 0..MaxRequests, changes : 0..MaxChanges]

\* The policy of the start has been there for long.
PolicyInit ==
  /\ policy \in {[allowed |-> Asked, known |-> TRUE], [allowed |-> {}, known |-> FALSE]}
  /\ since = [x \in Asked \cup {"gone"} |-> IF True(policy, x) THEN 0 ELSE Horizon]
  /\ cache = [k \in CacheKeys |-> NoAnswer]
  /\ kept = NoState
  /\ thread = [r \in Requests |-> Idle("none")]
  /\ count = [requests |-> 0, changes |-> 0]
-----------------------------------------------------------------------------
Goto(r, t)    == thread' = [thread EXCEPT ![r] = t]
Replies(r, w) == Goto(r, Idle(w))
At(r, pc)     == thread[r].pc = pc
Fails         == [q \in Asked |-> "failed"]

Begin(pc, goal) ==
  [pc |-> pc, goal |-> goal, out |-> Fails, todo |-> {}, chunk |-> {}, split |-> FALSE, limit |-> Timeout,
   got |-> Fails, use |-> "none", waited |-> 0, total |-> 0, meta |-> 0, units |-> 0]

(* McpCreatorAccess::state, for a call of a tool or for an adoption.  With   *)
(* the state of the key, handle_mcp goes on to McpCreatorAccess::call unless *)
(* the key is an orphan, and the route of the adoption only when it is one.  *)
ActsOn(r, goal, status) ==
  \/ goal = "state" /\ status = "gone"   /\ Goto(r, Idle("401"))
  \/ goal = "state" /\ status # "gone"   /\ Goto(r, Begin("decide", "others"))
  \/ goal = "adopt" /\ status = "gone"   /\ Goto(r, Idle("adoptable"))
  \/ goal = "adopt" /\ status = "failed" /\ Goto(r, Idle("503"))
  \/ goal = "adopt" /\ status = "active" /\ Goto(r, Idle("not_adoptable"))

LookUp(r) ==
  LET goal == thread[r].goal IN
  /\ At(r, "state")
  /\ \/ kept.left > 0 /\ ActsOn(r, goal, IF kept.gone THEN "gone" ELSE "active")
     \/ kept.left = 0 /\ Goto(r, Begin("decide", goal))
  /\ UNCHANGED <<policy, since, cache, kept, count>>

Comes(r) == /\ At(r, "idle") /\ count.requests < MaxRequests
            /\ count' = [count EXCEPT !.requests = @ + 1]

\* tools/call of a request that authenticate let in.
CallTool(r) == Comes(r) /\ Goto(r, Begin("state", "state")) /\ UNCHANGED <<policy, since, cache, kept>>

\* The adoption asks for "the state now, not the state that the page saw".
Forget(r) == /\ Comes(r)
             /\ kept' = NoState
             /\ Goto(r, Begin("state", "adopt"))
             /\ UNCHANGED <<policy, since, cache>>

StatusOfDenials(out) ==
  CASE \E q \in Asked : out[q] = "failed" -> "failed"
    [] \A q \in Asked : out[q] \notin {"allow", "failed"} -> "gone"
    [] OTHER -> "active"

Status(out) ==
  CASE \E q \in Asked : out[q] = "failed" -> "failed"
    [] /\ \A q \in Asked : out[q] \notin {"allow", "failed"}
       /\ \E q \in Asked : out[q] = "gone" -> "gone"
    [] OTHER -> "active"

\* The state is kept for a period that counts from the start of its request; a failure never is.
Concludes(r) ==
  LET t == thread[r] IN
  /\ At(r, "conclude") /\ t.goal \in {"state", "adopt"}
  /\ \/ Status(t.out) = "failed" /\ UNCHANGED kept
     \/ /\ Status(t.out) # "failed"
        /\ kept' = IF t.total < TTL THEN [gone |-> Status(t.out) = "gone", left |-> TTL - t.total] ELSE NoState
  /\ ActsOn(r, t.goal, Status(t.out))
  /\ UNCHANGED <<policy, since, cache, count>>
-----------------------------------------------------------------------------
(* PdpClient::decide.                                                        *)

\* The deadline of a call of several requests counts from the first of them.
Asking(t)         == t.total - t.meta
DeadlinePassed(t) == t.split /\ Asking(t) >= BatchTimeout

\* Questions that the cache does not answer go in requests of MaxItems at most,
\* until no answer came for one or the deadline of a split call has passed.
Asks(t) ==
  IF t.todo = {} THEN [t EXCEPT !.pc = "conclude"]
  ELSE IF DeadlinePassed(t) THEN [t EXCEPT !.pc = "conclude", !.out = Fails, !.todo = {}]
  ELSE LET chunk == CHOOSE s \in SUBSET t.todo : Cardinality(s) = Min({MaxItems, Cardinality(t.todo)})
       IN [t EXCEPT !.pc = "sent", !.chunk = chunk, !.todo = @ \ chunk, !.waited = 0,
                    !.limit = IF t.split THEN Min({Timeout, BatchTimeout - Asking(t)}) ELSE Timeout]

\* The call of the other permissions of a tool asks all but the use.
QuestionsOf(goal) == IF goal = "others" THEN Asked \ {UseQuestion} ELSE Asked

\* Until an answer comes, a question has failed.
OpenBeforeAnswers(hits, rest) == [q \in Asked |-> IF q \in hits THEN cache[q].answer ELSE "allow"]
BeforeAnswers(hits, rest) ==
  [q \in Asked |-> IF q \in hits THEN cache[q].answer ELSE IF q \in rest THEN "failed" ELSE "allow"]

\* The cache is read once, at the start.
Decide(r) ==
  /\ At(r, "decide")
  /\ LET t    == thread[r]
         hits == {q \in QuestionsOf(t.goal) : cache[q].left > 0}
         rest == QuestionsOf(t.goal) \ hits
     IN Goto(r, [t EXCEPT !.pc = IF rest = {} THEN "conclude" ELSE "metadata",
                          !.out = BeforeAnswers(hits, rest), !.todo = rest])
  /\ UNCHANGED <<policy, since, cache, kept, count>>

\* ensure_metadata: what the PDP published is known, or this thread or another
\* one reads it, once and up to the timeout; after a read that failed or came too
\* late an older document is used, or there is none and the rest fails.
PlansRequests(r) ==
  LET t == thread[r] IN
  /\ At(r, "metadata")
  /\ \/ Goto(r, Asks([t EXCEPT !.meta = t.total, !.split = Cardinality(t.todo) > MaxItems]))
     \/ Goto(r, [t EXCEPT !.pc = "conclude", !.todo = {}])
  /\ UNCHANGED <<policy, since, cache, kept, count>>

Says(q) == IF ~policy.known THEN "gone" ELSE IF q \in policy.allowed THEN "allow" ELSE "deny"

\* External: the PDP decides by the policy of the moment.
PdpDecides(r) ==
  /\ At(r, "sent")
  /\ Goto(r, [thread[r] EXCEPT !.pc = "answered", !.got = [q \in Asked |-> IF q \in thread[r].chunk THEN Says(q) ELSE "failed"]])
  /\ UNCHANGED <<policy, since, cache, kept, count>>

\* cache_store: the answers replace older ones of their keys, and the oldest
\* others may have to go.
Stored(answers, life) ==
  {[k \in CacheKeys |-> IF k \in DOMAIN answers THEN [answer |-> answers[k], left |-> life]
                        ELSE IF full THEN NoAnswer ELSE cache[k]] : full \in BOOLEAN}

\* ask_chunk: a valid answer in time is decided on and cached from its arrival.
Arrives(r) ==
  LET t == thread[r] IN
  /\ At(r, "answered") /\ t.waited <= t.limit
  /\ cache' \in Stored([q \in t.chunk |-> t.got[q]], TTL)
  /\ Goto(r, Asks([t EXCEPT !.out = [q \in Asked |-> IF q \in t.chunk THEN t.got[q] ELSE @[q]],
                            !.chunk = {}, !.got = Fails]))
  /\ UNCHANGED <<policy, since, kept, count>>

\* An answer with another status, or that is not valid: its questions fail, later requests go.
ArrivesInvalid(r) ==
  /\ At(r, "answered") /\ thread[r].waited <= thread[r].limit
  /\ Goto(r, Asks([thread[r] EXCEPT !.chunk = {}, !.got = Fails]))
  /\ UNCHANGED <<policy, since, cache, kept, count>>

\* No answer, or one after the timeout: the later requests are not sent.
NoneComes(r) ==
  LET t == thread[r] IN
  /\ At(r, "sent") \/ (At(r, "answered") /\ t.waited > t.limit)
  /\ Goto(r, [t EXCEPT !.pc = "conclude", !.chunk = {}, !.todo = {}, !.got = Fails,
                       !.out = IF DeadlinePassed(t) THEN Fails ELSE @])
  /\ UNCHANGED <<policy, since, cache, kept, count>>
-----------------------------------------------------------------------------
(* McpCreatorAccess::call: a failure before a denial, and only then the use. *)

OthersDecided(r) ==
  LET out == thread[r].out IN
  /\ At(r, "conclude") /\ thread[r].goal = "others"
  /\ \/ (\E q \in Asked : out[q] = "failed") /\ Replies(r, "503")
     \/ /\ \A q \in Asked : out[q] # "failed"
        /\ \/ (\E q \in Asked : out[q] # "allow") /\ Replies(r, "denied")
           \/ (\A q \in Asked : out[q] = "allow") /\ Goto(r, Begin("use", "others"))
  /\ UNCHANGED <<policy, since, cache, kept, count>>

\* PdpClient::decide_use: what is kept of a use was free or is spent.
LooksUpUse(r) ==
  /\ At(r, "use")
  /\ \/ cache[Use].left > 0 /\ cache[Use].answer = "spent" /\ Replies(r, "spent")
     \/ cache[Use].left > 0 /\ cache[Use].answer # "spent" /\ Replies(r, "ran")
     \/ cache[Use].left = 0 /\ Goto(r, [thread[r] EXCEPT !.pc = "useMetadata"])
  /\ UNCHANGED <<policy, since, cache, kept, count>>

\* After the metadata, as in a decide: the PDP may have published how long a use
\* takes it, and usage_timeout is longer than that.
SendsUse(r) ==
  /\ At(r, "useMetadata")
  /\ \/ \E limit \in Timeout..UseTimeout :
          Goto(r, [thread[r] EXCEPT !.pc = "useSent", !.waited = 0, !.meta = thread[r].total, !.limit = limit])
     \/ Replies(r, "503")
  /\ UNCHANGED <<policy, since, cache, kept, count>>

\* External: the PDP takes a unit of the creator, or not, and may forget to say so.
PdpTakes(r) ==
  LET t == thread[r] IN
  /\ At(r, "useSent")
  /\ \/ /\ UseQuestion \in policy.allowed
        /\ \/ Goto(r, [t EXCEPT !.pc = "useAnswered", !.use = "paid", !.units = Min({2, @ + 1})])
           \/ Goto(r, [t EXCEPT !.pc = "useAnswered", !.use = "unmetered", !.units = Min({2, @ + 1})])
           \/ \E use \in {"free", "spent"} : Goto(r, [t EXCEPT !.pc = "useAnswered", !.use = use])
     \/ UseQuestion \notin policy.allowed /\ Goto(r, [t EXCEPT !.pc = "useAnswered", !.use = "refused"])
  /\ UNCHANGED <<policy, since, cache, kept, count>>

\* Only a free use and a spent budget are kept, the latter for retry_after at most.
KeepsUse(use) ==
  CASE use = "free"  -> Stored([k \in {Use} |-> use], TTL)
    [] use = "spent" -> UNION {Stored([k \in {Use} |-> use], life) : life \in 1..TTL}
    [] OTHER         -> {cache}

UseArrives(r) ==
  LET t == thread[r] IN
  /\ At(r, "useAnswered") /\ t.waited <= t.limit
  /\ cache' \in KeepsUse(t.use)
  /\ Replies(r, CASE t.use = "spent" -> "spent" [] t.use \in {"refused", "unmetered"} -> "refused" [] OTHER -> "ran")
  /\ UNCHANGED <<policy, since, kept, count>>

UseAgain(r) ==
  /\ At(r, "useSent") \/ At(r, "useAnswered")
  /\ Goto(r, [thread[r] EXCEPT !.pc = "useSent", !.use = "none"])
  /\ UNCHANGED <<policy, since, cache, kept, count>>

\* The PDP may have taken the unit: the question is never sent again.
UseFails(r) ==
  /\ At(r, "useSent") \/ At(r, "useAnswered")
  /\ Replies(r, "503")
  /\ UNCHANGED <<policy, since, cache, kept, count>>
-----------------------------------------------------------------------------
\* Nothing is of interest after the last request.
Awake == count.requests < MaxRequests \/ \E r \in Requests : ~At(r, "idle")

\* External: somebody changes the policy.
ChangePolicy == /\ count.changes < MaxChanges /\ Awake
                /\ count' = [count EXCEPT !.changes = @ + 1]
                /\ policy' \in Policies \ {policy}
                /\ since' = [x \in Asked \cup {"gone"} |->
                               IF True(policy', x) THEN 0 ELSE since[x]]
                /\ UNCHANGED <<cache, kept, thread>>

InFlight(t) == t.pc \in {"metadata", "sent", "answered", "useMetadata", "useSent", "useAnswered"}

GetsOlder(a) == IF a.left <= 1 THEN NoAnswer ELSE [a EXCEPT !.left = @ - 1]

Tick ==
  /\ Awake
  /\ \A r \in Requests : At(r, "idle") \/ (InFlight(thread[r]) /\ thread[r].waited <= thread[r].limit)
  /\ since' = [x \in Asked \cup {"gone"} |->
                 IF True(policy, x) THEN 0 ELSE Min({Horizon, since[x] + 1})]
  /\ cache' = [k \in CacheKeys |-> GetsOlder(cache[k])]
  /\ kept' = IF kept.left <= 1 THEN NoState ELSE [kept EXCEPT !.left = @ - 1]
  /\ thread' = [r \in Requests |-> IF At(r, "idle") THEN thread[r]
                                   ELSE [thread[r] EXCEPT !.waited = @ + 1, !.total = @ + 1]]
  /\ UNCHANGED <<policy, count>>

PolicyNext ==
  \/ \E r \in Requests :
       \/ CallTool(r) \/ Forget(r) \/ LookUp(r) \/ Decide(r) \/ PlansRequests(r)
       \/ Arrives(r) \/ ArrivesInvalid(r) \/ NoneComes(r) \/ Concludes(r)
       \/ OthersDecided(r) \/ LooksUpUse(r) \/ SendsUse(r) \/ UseArrives(r) \/ UseFails(r)
       \/ PdpDecides(r) \/ PdpTakes(r)
  \/ ChangePolicy \/ Tick

PolicySpec == PolicyInit /\ [][PolicyNext]_policyVars
-----------------------------------------------------------------------------
Told(r, why) == ~At(r, "idle") /\ thread'[r].pc = "idle" /\ thread'[r].reply = why

(* How old an answer can be when a decision that used it ends: its way here, *)
(* its time in the cache, and the metadata and the other requests of the     *)
(* same decision.                                                            *)
MetadataTime == Timeout + 1
AnswerAge    == Timeout + TTL + MetadataTime + BatchTimeout

\* A tool runs only when each of its permissions was given a short time ago:
\* the caches, answers that arrive out of order, the reads of the metadata and
\* the wait for the use do not add up to more (PdpClient::cache_store,
\* usage_timeout, McpCreatorAccess::call).
GrantsAreRecent ==
  [][\A r \in Requests : Told(r, "ran") => \A q \in Asked : since[q] <= AnswerAge + MetadataTime + UseTimeout]_policyVars

\* A key is refused as an orphan, or given to another person, only when the PDP
\* said a short time ago that it does not know the creator: failures, timeouts
\* and plain refusals never add up to that (McpCreatorAccess::state).
OrphansAreGone ==
  [][\A r \in Requests : Told(r, "401") \/ Told(r, "adoptable") => since["gone"] <= AnswerAge + TTL]_policyVars

\* A call that ran was paid with one unit, or the PDP gave it for nothing; no
\* call takes two, and one that another permission stops takes none (decide_use,
\* McpCreatorAccess::call).
UsesAreCounted ==
  [][\A r \in Requests :
       /\ Told(r, "ran") => thread[r].units = 1 \/ "free" \in {thread[r].use, cache[Use].answer}
       /\ Told(r, "denied") => thread[r].units = 0
       /\ At(r, "idle") \/ thread[r].units <= 1]_policyVars

\* docs/access.md: "A change of the policy applies after cache_ttl at most."  All
\* the time that a decision can spend on its requests is granted on top.
PolicyAppliesInTime ==
  [][\A r \in Requests : Told(r, "401") => since["gone"] <= AnswerAge]_policyVars
=============================================================================
