------------------------- MODULE IpcRequestsProofs -------------------------
(***************************************************************************)
(* Proofs about IpcRequests, for every set of services and every           *)
(* declaration of their trust, any number of requests, containers and      *)
(* deaths of the process.                                                  *)
(*                                                                         *)
(* The gates: one that is registered holds a pair of taints, whatever      *)
(* containers, releases and crashes do to it; and over all pairs of taints *)
(* the policy only gets stricter.                                          *)
(*                                                                         *)
(* The requests: RInv says how far each has come, by where its files are   *)
(* and what the consumer awaits.  The consumer's steps do one of nine      *)
(* things with the request at hand; there is a lemma for each of those.    *)
(*                                                                         *)
(* The calls: TInv adds to it a budget of each request, its calls and what *)
(* can still lead to one, which the deaths of the process pay for.         *)
(***************************************************************************)
EXTENDS IpcRequests, FiniteSetTheorems, TLAPS

-----------------------------------------------------------------------------
(* The policy, as a function of trust and taints.                          *)

LEMMA TrustIsDeclared ==
  ASSUME NEW s PROVE TrustOf(Services, s) \in Trust
<1>1. UnknownService \in Trust
  BY DEF UnknownService, Trust, Declared
<1>2. QED
  BY <1>1, ServicesAssumption DEF TrustOf

LEMMA ReadKeepsTaints ==
  ASSUME NEW trust \in Trust, NEW t \in Taint
  PROVE  /\ EvaluateRead(trust, t) \in Taint
         /\ AtMost(t, EvaluateRead(trust, t))
  BY DEF EvaluateRead, ReadAllowed, AtMost, Taint, Trust, Declared

LEMMA ReadIsMonotone ==
  ASSUME NEW trust \in Trust, NEW t \in Taint, NEW u \in Taint, AtMost(t, u)
  PROVE  AtMost(EvaluateRead(trust, t), EvaluateRead(trust, u))
  BY DEF EvaluateRead, ReadAllowed, AtMost, Taint, Trust, Declared

LEMMA WriteIsMonotone ==
  ASSUME NEW trust \in Trust, NEW t \in Taint, NEW u \in Taint, AtMost(t, u), NEW leaks \in BOOLEAN
  PROVE  Strictness(EvaluateWrite(trust, t, leaks)) <= Strictness(EvaluateWrite(trust, u, leaks))
<1>1. CASE trust.public_sink = "forbidden" \/ trust.dangerous_writes = "forbidden"
  BY <1>1 DEF Strictness, EvaluateWrite, Denied
<1>2. CASE ~(trust.public_sink = "forbidden" \/ trust.dangerous_writes = "forbidden")
  <2> DEFINE human(v) == \/ trust.dangerous_writes = "yes"
                         \/ v.corruption /\ v.secret /\ trust.public_sink = "yes"
                         \/ leaks
  <2>1. \A v : Strictness(EvaluateWrite(trust, v, leaks)) = IF human(v) THEN 2 ELSE IF v.corruption THEN 1 ELSE 0
    BY <1>2 DEF Strictness, EvaluateWrite
  <2>2. (human(t) => human(u)) /\ (t.corruption => u.corruption)
    BY DEF AtMost
  <2> HIDE DEF human
  <2>3. QED
    BY <2>1, <2>2
<1>3. QED
  BY <1>1, <1>2

LEMMA BashIsMonotone ==
  ASSUME NEW t \in Taint, NEW u \in Taint, AtMost(t, u),
         NEW c \in {"network", "unknown"}, NEW f \in BOOLEAN,
         EvaluateBashCommand(u, c, f) = "allow"
  PROVE  EvaluateBashCommand(t, c, f) = "allow"
<1>1. t = Clean \/ t # Clean
  OBVIOUS
<1>2. CASE t = Clean
  BY <1>2 DEF EvaluateBashCommand
<1>3. CASE t # Clean
  <2>1. u # Clean
    BY <1>3 DEF Clean, Taint, AtMost
  <2>2. ~f /\ ~(c = "network" /\ u.corruption /\ u.secret)
    BY <2>1 DEF EvaluateBashCommand
  <2>3. ~(c = "network" /\ t.corruption /\ t.secret)
    BY <2>2 DEF AtMost
  <2>4. QED
    BY <1>3, <2>2, <2>3 DEF EvaluateBashCommand
<1>4. QED
  BY <1>1, <1>2, <1>3

\* More taints never make a decision laxer (security/middleware.py,
\* ipc/handlers_security.py).
THEOREM PolicyIsMonotone ==
  ASSUME NEW u \in Taint PROVE StricterThanBefore(u)
  BY ReadKeepsTaints, ReadIsMonotone, WriteIsMonotone, BashIsMonotone DEF StricterThanBefore

\* Corruption and secrets together, and a way out, are never used without a
\* human being asked (security/middleware.py, ipc/handlers_security.py).
THEOREM TrifectaIsGuarded ==
  ASSUME NEW u \in Taint PROVE TrifectaAsksHuman(u)
<1> SUFFICES ASSUME u.corruption, u.secret, NEW trust \in Trust, NEW leaks \in BOOLEAN
             PROVE  /\ trust.public_sink # "no" /\ EvaluateWrite(trust, u, leaks).allowed
                         => EvaluateWrite(trust, u, leaks).human
                    /\ EvaluateBashCommand(u, "network", leaks) = "needs_human"
  BY DEF TrifectaAsksHuman
<1>1. trust.public_sink # "no" /\ EvaluateWrite(trust, u, leaks).allowed
        => EvaluateWrite(trust, u, leaks).human
  BY DEF EvaluateWrite, Denied, Trust, Declared
<1>2. u # Clean
  BY DEF Clean
<1>3. EvaluateBashCommand(u, "network", leaks) = "needs_human"
  BY <1>2 DEF EvaluateBashCommand
<1>4. QED
  BY <1>1, <1>3

-----------------------------------------------------------------------------
(* The gates.                                                              *)

\* A registered gate holds a pair of taints.
GateTypeOK == gate \in Taint \cup {NoGate}

LEMMA CleanIsTaint == Clean \in Taint
  BY DEF Clean, Taint

LEMMA GateStep ==
  ASSUME GateTypeOK, RequestNext PROVE GateTypeOK'
<1>1. CASE SpawnContainer
  BY <1>1, CleanIsTaint DEF SpawnContainer, GateTypeOK
<1>2. CASE ReleaseSlot \/ ContainerEnds \/ WatcherCrash
  BY <1>2 DEF ReleaseSlot, ContainerEnds, WatcherCrash, GateTypeOK
<1>3. CASE FollowUp
  BY <1>3 DEF FollowUp, GateTypeOK
<1>4. ASSUME NEW s \in Tools, ProxyHandler(s) PROVE GateTypeOK'
  <2>1. gate \in Taint
    BY <1>4 DEF ProxyHandler, GateTypeOK
  <2>2. AfterFencing(s) \in Taint
    BY <2>1, TrustIsDeclared, ReadKeepsTaints DEF AfterFencing
  <2>3. QED
    BY <1>4, <2>2 DEF ProxyHandler, GateTypeOK
<1>5. ASSUME NEW r \in Requests, NEW k \in RequestKinds, ServiceRequest(r, k) PROVE GateTypeOK'
  BY <1>5 DEF ServiceRequest, GateTypeOK
<1>6. ASSUME NEW r \in Requests, ReadResponse(r) \/ RequestTimesOut(r) \/ HandleAskUserAnswer(r)
      PROVE GateTypeOK'
  BY <1>6 DEF ReadResponse, RequestTimesOut, HandleAskUserAnswer, GateTypeOK
<1>7. ASSUME NEW r \in Requests, NEW d \in Decisions, HandleApprovalCommand(r, d) PROVE GateTypeOK'
  BY <1>7 DEF HandleApprovalCommand, GateTypeOK
<1>8. CASE WatcherStep
  <2>1. gate' = gate
    BY <1>8 DEF WatcherStep, ProcessQueue, CopGate, ToolEnds, Told, Audited, StartIpcWatcher, SweepEnds
  <2>2. QED
    BY <2>1 DEF GateTypeOK
<1>9. QED
  BY <1>1, <1>2, <1>3, <1>4, <1>5, <1>6, <1>7, <1>8 DEF RequestNext

THEOREM GateHoldsTaints == RequestSpec => []GateTypeOK
<1>1. RequestInit => GateTypeOK
  BY DEF RequestInit, GateTypeOK
<1>2. GateTypeOK /\ [RequestNext]_request_vars => GateTypeOK'
  BY GateStep DEF request_vars, GateTypeOK
<1>3. QED
  BY <1>1, <1>2, PTL DEF RequestSpec

\* Whatever a gate has collected, by whatever calls, releases and restarts, its
\* decisions are as strict as with less, and the three together ask a human.
THEOREM PolicyStaysSound == RequestSpec => []PolicySound
<1>1. GateTypeOK => PolicySound
  BY PolicyIsMonotone, TrifectaIsGuarded DEF GateTypeOK, PolicySound
<1>2. QED
  BY <1>1, GateHoldsTaints, PTL

-----------------------------------------------------------------------------
(* Requests: carried out once, only as approved, and never forgotten.      *)

\* The types without the bounds of the model.
PastType ==
              [crashes : Nat, spawns : Nat, decisions : Nat, executed : [Requests -> Nat],
               asked : SUBSET Requests, approved : SUBSET Requests,
               interrupted : SUBSET Requests, enqueued : SUBSET Requests]

RequestsTyped ==
  /\ events \in Seq({"task", "decision"} \X Requests)
  /\ worker = AtRest \/ worker \in [pc : {"cop", "execute", "ask", "audit"}, r : Requests, approved : BOOLEAN]
  /\ kind \in [Requests -> RequestKinds \cup {"unused"}]
  /\ file \in [Requests -> {"none", "tasks", "errors"}]
  /\ pending \in [Requests -> {"none", "service", "ipc", "question"}]
  /\ decision \in [Requests -> Decisions \cup {"none"}]
  /\ response \in [Requests -> {"none", "result", "error"}]
  /\ waiter \in [Requests -> {"none", "waits", "result", "error", "gone"}]
  /\ past \in PastType

\* The consumer is busy with r.
Handling(r) == worker.pc # "idle" /\ worker.r = r
HandlingAt(r, pc) == Handling(r) /\ worker.pc = pc

\* Nothing was done for r yet: no tool was called and no human asked.
Untouched(r) == past.executed[r] = 0 /\ pending[r] = "none" /\ r \notin past.asked

Fresh(r) == kind[r] = "unused" => Untouched(r) /\ file[r] = "none" /\ ~Handling(r)

\* What has been done for r, by the place of its handling.  The file lies in tasks until
\* the first handling is over, and an approved request is handled after that; so what the
\* consumer finds there, and what waits for approval, was not carried out yet.
Stage(r) ==
  /\ past.executed[r] <= 1
  /\ r \in past.asked /\ past.executed[r] > 0 => r \in past.approved
  /\ file[r] = "tasks" /\ ~Handling(r) => Untouched(r)
  /\ PendingApproval(r) /\ ~Handling(r) => past.executed[r] = 0
  /\ Handling(r) => (file[r] = "tasks" <=> ~worker.approved)
  /\ HandlingAt(r, "cop") => Untouched(r) /\ ~worker.approved
  /\ HandlingAt(r, "ask") => past.executed[r] = 0 /\ ~worker.approved
  /\ HandlingAt(r, "execute") /\ ~worker.approved => r \notin past.asked /\ pending[r] = "none"
  /\ HandlingAt(r, "audit") => worker.approved

\* What still reaches the container that waits for r.
StillComing(r) ==
  \/ file[r] # "none" \/ pending[r] # "none" \/ response[r] # "none"
  \/ kind[r] \in Scripts /\ r \in past.approved

Answerable(r) ==
  /\ container = "none" => waiter[r] # "waits"
  /\ pending[r] = "ipc" \/ HandlingAt(r, "cop") => kind[r] \in Scripts
  /\ decision[r] = "approve" => r \in past.approved
  /\ waiter[r] = "waits" =>
       /\ StillComing(r)
       /\ HandlingAt(r, "ask") => pending[r] # "none" \/ response[r] # "none"
       /\ HandlingAt(r, "audit") => response[r] # "none" \/ (kind[r] \in Scripts /\ r \in past.approved)

RequestInv(r) == Fresh(r) /\ (r \notin past.interrupted => Stage(r)) /\ Answerable(r)

RInv == RequestsTyped /\ \A r \in Requests : RequestInv(r)

\* What the assignments to the history leave alone.
LEMMA PastSpawned ==
  ASSUME past \in PastType, past' = [past EXCEPT !.spawns = @ + 1]
  PROVE  /\ past' \in PastType
         /\ past'.executed = past.executed /\ past'.asked = past.asked
         /\ past'.approved = past.approved /\ past'.interrupted = past.interrupted
<1>1. past.spawns + 1 \in Nat
  BY DEF PastType
<1>2. past' \in PastType
  BY <1>1 DEF PastType
<1> QED
  BY <1>2 DEF PastType

LEMMA PastDecided ==
  ASSUME past \in PastType, NEW A \in SUBSET Requests,
         past' = [past EXCEPT !.decisions = @ + 1, !.approved = A]
  PROVE  /\ past' \in PastType
         /\ past'.executed = past.executed /\ past'.asked = past.asked
         /\ past'.approved = A /\ past'.interrupted = past.interrupted
<1>1. past.decisions + 1 \in Nat
  BY DEF PastType
<1>2. past' \in PastType
  BY <1>1 DEF PastType
<1> QED
  BY <1>2 DEF PastType

LEMMA PastEnqueued ==
  ASSUME past \in PastType, NEW r \in Requests, past' = [past EXCEPT !.enqueued = @ \cup {r}]
  PROVE  /\ past' \in PastType
         /\ past'.executed = past.executed /\ past'.asked = past.asked
         /\ past'.approved = past.approved /\ past'.interrupted = past.interrupted
<1>1. past.enqueued \cup {r} \in SUBSET Requests
  BY DEF PastType
<1>2. past' \in PastType
  BY <1>1 DEF PastType
<1> QED
  BY <1>2 DEF PastType

LEMMA PastAsked ==
  ASSUME past \in PastType, NEW r \in Requests, past' = [past EXCEPT !.asked = @ \cup {r}]
  PROVE  /\ past' \in PastType
         /\ past'.executed = past.executed /\ past'.asked = past.asked \cup {r}
         /\ past'.approved = past.approved /\ past'.interrupted = past.interrupted
<1>1. past.asked \cup {r} \in SUBSET Requests
  BY DEF PastType
<1>2. past' \in PastType
  BY <1>1 DEF PastType
<1> QED
  BY <1>2 DEF PastType

LEMMA PastCrashed ==
  ASSUME past \in PastType, NEW A \in SUBSET Requests,
         past' = [past EXCEPT !.crashes = @ + 1, !.interrupted = A]
  PROVE  /\ past' \in PastType
         /\ past'.executed = past.executed /\ past'.asked = past.asked
         /\ past'.approved = past.approved /\ past'.interrupted = A
<1>1. past.crashes + 1 \in Nat
  BY DEF PastType
<1>2. past' \in PastType
  BY <1>1 DEF PastType
<1> QED
  BY <1>2 DEF PastType

LEMMA PastExecuted ==
  ASSUME past \in PastType, NEW r \in Requests, Executed(r)
  PROVE  /\ past' \in PastType
         /\ past'.executed[r] = past.executed[r] + 1
         /\ \A q \in Requests \ {r} : past'.executed[q] = past.executed[q]
         /\ past'.asked = past.asked
         /\ past'.approved = past.approved /\ past'.interrupted = past.interrupted
<1>1. past' \in PastType /\ past'.executed = [past.executed EXCEPT ![r] = @ + 1]
  BY DEF PastType, Executed
<1>2. past.executed \in [Requests -> Nat]
  BY DEF PastType
<1>3. past'.asked = past.asked /\ past'.approved = past.approved /\ past'.interrupted = past.interrupted
  BY DEF PastType, Executed
<1> QED
  BY <1>1, <1>2, <1>3

LEMMA InitRInv == RequestInit => RInv
<1> SUFFICES ASSUME RequestInit PROVE RInv
  OBVIOUS
<1>1. RequestsTyped
  BY DEF RequestInit, RequestsTyped, PastType
<1>2. ASSUME NEW r \in Requests PROVE RequestInv(r)
  BY DEF RequestInit, RequestInv, Fresh, Untouched, Handling, Stage, PendingApproval, HandlingAt, Answerable, AtRest
<1> QED
  BY <1>1, <1>2 DEF RInv

\* A step that does nothing to q but take its container away, finish reading its response,
\* or interrupt it, keeps what is known of q.
LEMMA Bystander ==
  ASSUME RInv, RequestsTyped', NEW q \in Requests,
         /\ kind'[q] = kind[q] /\ file'[q] = file[q] /\ pending'[q] = pending[q]
         /\ decision'[q] = decision[q]
         /\ response'[q] # response[q] => waiter'[q] # "waits"
         /\ waiter'[q] = "waits" => waiter[q] = "waits" /\ container' # "none"
         /\ past'.executed[q] = past.executed[q]
         /\ q \in past'.asked <=> q \in past.asked
         /\ q \in past.approved => q \in past'.approved
         /\ q \in past.interrupted => q \in past'.interrupted
         /\ \/ worker' = worker
            \/ worker'.pc = "idle" \/ worker'.r # q
         /\ Handling(q) => worker' = worker \/ q \in past'.interrupted
  PROVE  RequestInv(q)'
<1>1. RequestInv(q)
  BY DEF RInv
<1>2. Fresh(q)'
  BY <1>1 DEF RequestInv, Fresh, Untouched, Handling
<1>3. q \notin past'.interrupted => Stage(q)'
  BY <1>1 DEF RequestInv, Stage, Untouched, Handling, PendingApproval, HandlingAt
<1>4. Answerable(q)'
  BY <1>1 DEF RequestInv, Answerable, StillComing, Handling, HandlingAt
<1> QED
  BY <1>2, <1>3, <1>4 DEF RequestInv

\* RInv after a step that touches one request only.
LEMMA OneRequest ==
  ASSUME RInv, RequestsTyped', NEW r \in Requests, RequestInv(r)',
         \A q \in Requests \ {r} :
           /\ kind'[q] = kind[q] /\ file'[q] = file[q] /\ pending'[q] = pending[q]
           /\ decision'[q] = decision[q] /\ response'[q] = response[q] /\ waiter'[q] = waiter[q]
           /\ past'.executed[q] = past.executed[q]
           /\ q \in past'.asked <=> q \in past.asked
           /\ q \in past.approved => q \in past'.approved
           /\ q \in past.interrupted => q \in past'.interrupted,
         container' = container,
         \/ worker' = worker
         \/ (worker = AtRest \/ worker.r = r) /\ (worker' = AtRest \/ worker'.r = r)
  PROVE  RInv'
<1>1. ASSUME NEW q \in Requests \ {r} PROVE RequestInv(q)'
  <2>1. waiter[q] = "waits" => container # "none"
    BY DEF RInv, RequestInv, Answerable
  <2>2. /\ worker' = worker \/ worker'.pc = "idle" \/ worker'.r # q
        /\ Handling(q) => worker' = worker
    BY DEF AtRest, Handling
  <2> QED
    BY <2>1, <2>2, Bystander
<1> QED
  BY <1>1 DEF RInv

\* The steps of containers change no file of a request.
LEMMA ContainerRInv ==
  ASSUME RInv,
         SpawnContainer \/ ReleaseSlot \/ FollowUp \/ ContainerEnds \/ \E s \in Tools : ProxyHandler(s)
  PROVE  RInv'
<1>1. /\ UNCHANGED <<events, worker, files>>
      /\ past' = past \/ past' = [past EXCEPT !.spawns = @ + 1]
      /\ (waiter' = waiter /\ container' # "none") \/ waiter' = Gone
  BY DEF SpawnContainer, ReleaseSlot, FollowUp, ContainerEnds, ProxyHandler, files
<1>2. RequestsTyped
  BY DEF RInv
<1>3. waiter' \in [Requests -> {"none", "waits", "result", "error", "gone"}]
  BY <1>1, <1>2 DEF Gone, RequestsTyped
<1>4. /\ past' \in PastType
      /\ past'.executed = past.executed /\ past'.asked = past.asked
      /\ past'.approved = past.approved /\ past'.interrupted = past.interrupted
  <2>1. past \in PastType
    BY <1>2 DEF RequestsTyped
  <2> QED
    BY <1>1, <2>1, PastSpawned
<1>5. RequestsTyped'
  BY <1>1, <1>2, <1>3, <1>4 DEF RequestsTyped, files, AtRest
<1>6. ASSUME NEW q \in Requests PROVE RequestInv(q)'
  <2>1. waiter'[q] = "waits" => waiter[q] = "waits" /\ container' # "none"
    BY <1>1 DEF Gone
  <2> QED
    BY <1>1, <1>4, <1>5, <2>1, Bystander DEF files
<1> QED
  BY <1>5, <1>6 DEF RInv

\* The agent asks.
LEMMA ServiceRequestRInv ==
  ASSUME RInv, NEW r \in Requests, NEW k \in RequestKinds, ServiceRequest(r, k)
  PROVE  RInv'
<1> USE DEF ServiceRequest
<1>1. RequestsTyped /\ RequestInv(r)
  BY DEF RInv
<1>2. events' \in Seq({"task", "decision"} \X Requests)
  <2>1. <<"task", r>> \in {"task", "decision"} \X Requests
    OBVIOUS
  <2> QED
    BY <1>1, <2>1 DEF RequestsTyped
<1>3. RequestsTyped'
  BY <1>1, <1>2 DEF RequestsTyped, AtRest
<1>4. kind'[r] = k /\ k # "unused"
  BY <1>1, ServicesAssumption DEF RequestsTyped, RequestKinds
<1>5. Untouched(r) /\ file'[r] = "tasks" /\ ~Handling(r) /\ container = "run" /\ pending[r] = "none"
  BY <1>1 DEF RequestInv, Fresh, Untouched, RequestsTyped
<1>6. Fresh(r)' /\ (r \notin past'.interrupted => Stage(r)')
  BY <1>1, <1>4, <1>5 DEF RequestInv, Fresh, Stage, Untouched, Handling, HandlingAt, PendingApproval
<1>7. Answerable(r)'
  BY <1>1, <1>4, <1>5 DEF RequestInv, Answerable, StillComing, Handling, HandlingAt, Untouched
<1> QED
  BY <1>1, <1>3, <1>6, <1>7, OneRequest DEF RequestInv, RequestsTyped

\* The container reads the response, or has waited long enough.
LEMMA ReaderRInv ==
  ASSUME RInv, NEW r \in Requests, ReadResponse(r) \/ RequestTimesOut(r)
  PROVE  RInv'
<1>1. RequestsTyped /\ RequestInv(r)
  BY DEF RInv
<1>2. /\ UNCHANGED <<events, worker, kind, file, pending, decision, container, past>>
      /\ \E w \in {"result", "error", "gone"} : waiter' = [waiter EXCEPT ![r] = w]
      /\ response' = response \/ response' = [response EXCEPT ![r] = "none"]
  BY <1>1 DEF ReadResponse, RequestTimesOut, files, RequestsTyped
<1>3. RequestsTyped'
  BY <1>1, <1>2 DEF RequestsTyped, AtRest
<1>4. waiter'[r] # "waits"
  BY <1>1, <1>2 DEF RequestsTyped
<1>5. RequestInv(r)'
  BY <1>2, <1>3, <1>4, Bystander
<1> QED
  BY <1>1, <1>2, <1>3, <1>5, OneRequest DEF RequestsTyped

\* The human decides.
LEMMA HandleApprovalCommandRInv ==
  ASSUME RInv, NEW r \in Requests, NEW d \in Decisions, HandleApprovalCommand(r, d)
  PROVE  RInv'
<1>1. RequestsTyped /\ RequestInv(r)
  BY DEF RInv
<1>2. /\ decision' = [decision EXCEPT ![r] = d]
      /\ past' = [past EXCEPT !.decisions = @ + 1, !.approved = IF d = "approve" THEN @ \cup {r} ELSE @]
      /\ events' = events \/ events' = Append(events, <<"decision", r>>)
      /\ UNCHANGED <<worker, kind, file, pending, response, waiter, container>>
  BY DEF HandleApprovalCommand
<1>3. events' \in Seq({"task", "decision"} \X Requests)
  <2>1. <<"decision", r>> \in {"task", "decision"} \X Requests
    OBVIOUS
  <2>2. events \in Seq({"task", "decision"} \X Requests)
    BY <1>1 DEF RequestsTyped
  <2> QED
    BY <1>2, <2>1, <2>2
<1>4. /\ past' \in PastType
      /\ past'.executed = past.executed /\ past'.asked = past.asked
      /\ past'.approved = (IF d = "approve" THEN past.approved \cup {r} ELSE past.approved)
      /\ past'.interrupted = past.interrupted
  <2> DEFINE A == IF d = "approve" THEN past.approved \cup {r} ELSE past.approved
  <2>1. past \in PastType /\ A \in SUBSET Requests
    BY <1>1 DEF RequestsTyped, PastType
  <2>2. past' = [past EXCEPT !.decisions = @ + 1, !.approved = A]
    BY <1>2
  <2> HIDE DEF A
  <2>3. /\ past' \in PastType
        /\ past'.executed = past.executed /\ past'.asked = past.asked
        /\ past'.approved = A /\ past'.interrupted = past.interrupted
    BY <2>1, <2>2, PastDecided
  <2> QED
    BY <2>3 DEF A
<1>5. decision' \in [Requests -> Decisions \cup {"none"}] /\ decision'[r] = d
  BY <1>1, <1>2 DEF RequestsTyped
<1>6. RequestsTyped'
  BY <1>1, <1>2, <1>3, <1>4, <1>5 DEF RequestsTyped, AtRest
<1>7. Fresh(r)' /\ (r \notin past'.interrupted => Stage(r)')
  BY <1>1, <1>2, <1>4 DEF RequestInv, Fresh, Stage, Untouched, Handling, HandlingAt, PendingApproval
<1>8. Answerable(r)'
  BY <1>1, <1>2, <1>4, <1>5 DEF RequestInv, Answerable, StillComing, Handling, HandlingAt
<1>9. \A q \in Requests \ {r} : decision'[q] = decision[q]
  BY <1>1, <1>2 DEF RequestsTyped
<1> QED
  BY <1>1, <1>2, <1>4, <1>6, <1>7, <1>8, <1>9, OneRequest DEF RequestInv

\* The human answers a question.
LEMMA HandleAskUserAnswerRInv ==
  ASSUME RInv, NEW r \in Requests, HandleAskUserAnswer(r)
  PROVE  RInv'
<1>1. RequestsTyped /\ RequestInv(r)
  BY DEF RInv
<1>2. /\ pending[r] = "question" /\ pending' = [pending EXCEPT ![r] = "none"]
      /\ UNCHANGED <<events, worker, kind, file, decision, waiter, container>>
      /\ \/ container # "none" /\ response' = [response EXCEPT ![r] = "result"] /\ UNCHANGED past
         \/ /\ container = "none" /\ UNCHANGED response
            /\ past' = [past EXCEPT !.enqueued = @ \cup {r}]
  BY DEF HandleAskUserAnswer, PendingQuestion, ResolvePendingQuestion, Respond
<1>4. /\ past' \in PastType
      /\ past'.executed = past.executed /\ past'.asked = past.asked
      /\ past'.approved = past.approved /\ past'.interrupted = past.interrupted
  <2>1. past \in PastType
    BY <1>1 DEF RequestsTyped
  <2> QED
    BY <1>2, <2>1, PastEnqueued
<1>5. RequestsTyped'
  BY <1>1, <1>2, <1>4 DEF RequestsTyped, AtRest
<1>6. /\ pending'[r] = "none"
      /\ container = "none" \/ response'[r] = "result"
      /\ \A q \in Requests \ {r} : pending'[q] = pending[q] /\ response'[q] = response[q]
  BY <1>1, <1>2 DEF RequestsTyped
<1>7. Fresh(r)' /\ (r \notin past'.interrupted => Stage(r)')
  BY <1>1, <1>2, <1>4, <1>6 DEF RequestInv, Fresh, Stage, Untouched, Handling, HandlingAt, PendingApproval
<1>8. Answerable(r)'
  BY <1>1, <1>2, <1>4, <1>6 DEF RequestInv, Answerable, StillComing, Handling, HandlingAt
<1> QED
  BY <1>2, <1>4, <1>5, <1>6, <1>7, <1>8, OneRequest DEF RequestInv

-----------------------------------------------------------------------------
(* The consumer.  Its steps do one of a few things with the request at hand. *)

\* The consumer handles nothing but r, and the step nothing outside it.
OnlyHandles(r) ==
  /\ worker = AtRest \/ worker.r = r
  /\ events' \in Seq({"task", "decision"} \X Requests)
  /\ UNCHANGED <<waiter, container>>

\* Nothing was carried out that still waits for approval.
NotAgain(r) == r \notin past.interrupted => past.executed[r] = 0 \/ pending[r] = "none"

\* The first handling of r is to come or under way, and nothing was done.
AtFirst(r) ==
  /\ kind[r] # "unused"
  /\ r \notin past.interrupted => Untouched(r) /\ file[r] = "tasks"

LEMMA AnswersRInv ==
  ASSUME RInv, NEW r \in Requests, NEW what \in {"result", "error"}, OnlyHandles(r), Answers(r, what),
         kind[r] # "unused", NotAgain(r)
  PROVE  RInv'
<1>1. RequestsTyped /\ RequestInv(r)
  BY DEF RInv
<1>2. /\ response' = [response EXCEPT ![r] = what]
      /\ file' = [file EXCEPT ![r] = "none"]
      /\ worker' = AtRest /\ UNCHANGED <<kind, pending, decision, past, waiter, container>>
  BY DEF Answers, Respond, Unlink, OnlyHandles
<1>3. RequestsTyped'
  BY <1>1, <1>2 DEF RequestsTyped, OnlyHandles, AtRest
<1>4. /\ response'[r] = what /\ file'[r] = "none" /\ worker'.pc = "idle"
      /\ \A q \in Requests \ {r} : response'[q] = response[q] /\ file'[q] = file[q]
  BY <1>1, <1>2 DEF RequestsTyped, AtRest
<1>5. Fresh(r)'
  BY <1>1, <1>2, <1>4 DEF RequestInv, Fresh
<1>6. r \notin past'.interrupted => Stage(r)'
  BY <1>1, <1>2, <1>4 DEF RequestInv, Stage, Handling, HandlingAt, PendingApproval, NotAgain
<1>7. Answerable(r)'
  BY <1>1, <1>2, <1>4 DEF RequestInv, Answerable, StillComing, Handling, HandlingAt
<1> QED
  BY <1>2, <1>3, <1>4, <1>5, <1>6, <1>7, OneRequest DEF RequestInv, OnlyHandles

LEMMA AskRInv ==
  ASSUME RInv, NEW r \in Requests, NEW type \in {"service", "ipc"}, OnlyHandles(r),
         CreatePendingApproval(r, type), AtFirst(r), type = "ipc" => kind[r] \in Scripts
  PROVE  RInv'
<1>1. RequestsTyped /\ RequestInv(r)
  BY DEF RInv
<1>2. /\ pending' = [pending EXCEPT ![r] = type]
      /\ past' = [past EXCEPT !.asked = @ \cup {r}]
      /\ worker' = [pc |-> "ask", r |-> r, approved |-> FALSE]
      /\ UNCHANGED <<kind, file, decision, response, waiter, container>>
  BY DEF CreatePendingApproval, Turn, OnlyHandles
<1>3. /\ past' \in PastType
      /\ past'.executed = past.executed /\ past'.asked = past.asked \cup {r}
      /\ past'.approved = past.approved /\ past'.interrupted = past.interrupted
  BY <1>1, <1>2, PastAsked DEF RequestsTyped
<1>4. RequestsTyped'
  BY <1>1, <1>2, <1>3 DEF RequestsTyped, OnlyHandles
<1>5. /\ pending'[r] = type
      /\ \A q \in Requests \ {r} : pending'[q] = pending[q]
      /\ worker'.pc = "ask" /\ worker'.r = r /\ worker'.approved = FALSE
  BY <1>1, <1>2 DEF RequestsTyped
<1>6. Fresh(r)'
  BY <1>2 DEF Fresh, AtFirst
<1>7. r \notin past'.interrupted => Stage(r)'
  BY <1>1, <1>2, <1>3, <1>5 DEF RequestInv, Stage, Handling, HandlingAt, PendingApproval, AtFirst, Untouched
<1>8. Answerable(r)'
  BY <1>1, <1>2, <1>3, <1>5 DEF RequestInv, Answerable, StillComing, Handling, HandlingAt
<1> QED
  BY <1>2, <1>3, <1>4, <1>5, <1>6, <1>7, <1>8, OneRequest DEF RequestInv, OnlyHandles

LEMMA ExecuteRInv ==
  ASSUME RInv, NEW r \in Requests, OnlyHandles(r), Turn("execute", r, FALSE), Executed(r),
         UNCHANGED files, AtFirst(r)
  PROVE  RInv'
<1>1. RequestsTyped /\ RequestInv(r)
  BY DEF RInv
<1>2. /\ worker' = [pc |-> "execute", r |-> r, approved |-> FALSE]
      /\ UNCHANGED <<kind, file, pending, decision, response, waiter, container>>
  BY DEF Turn, OnlyHandles, files
<1>3. /\ past' \in PastType
      /\ past'.executed[r] = past.executed[r] + 1
      /\ \A q \in Requests \ {r} : past'.executed[q] = past.executed[q]
      /\ past'.asked = past.asked
      /\ past'.approved = past.approved /\ past'.interrupted = past.interrupted
  BY <1>1, PastExecuted DEF RequestsTyped
<1>4. RequestsTyped'
  BY <1>1, <1>2, <1>3 DEF RequestsTyped, OnlyHandles
<1>5. Fresh(r)'
  BY <1>2 DEF Fresh, AtFirst
<1>6. r \notin past'.interrupted => Stage(r)'
  BY <1>1, <1>2, <1>3 DEF RequestInv, Stage, Handling, HandlingAt, PendingApproval, AtFirst, Untouched
<1>7. Answerable(r)'
  BY <1>1, <1>2, <1>3 DEF RequestInv, Answerable, StillComing, Handling, HandlingAt
<1> QED
  BY <1>2, <1>3, <1>4, <1>5, <1>6, <1>7, OneRequest DEF RequestInv, OnlyHandles

LEMMA InspectRInv ==
  ASSUME RInv, NEW r \in Requests, OnlyHandles(r), Starts(r, "cop"), kind[r] \in Scripts, AtFirst(r)
  PROVE  RInv'
<1>1. RequestsTyped /\ RequestInv(r)
  BY DEF RInv
<1>2. /\ worker' = [pc |-> "cop", r |-> r, approved |-> FALSE]
      /\ UNCHANGED <<kind, file, pending, decision, response, waiter, container, past>>
  BY DEF Starts, Turn, OnlyHandles, files
<1>3. RequestsTyped'
  BY <1>1, <1>2 DEF RequestsTyped, OnlyHandles
<1>4. Fresh(r)'
  BY <1>2 DEF Fresh, AtFirst
<1>5. r \notin past'.interrupted => Stage(r)'
  BY <1>1, <1>2 DEF RequestInv, Stage, Handling, HandlingAt, PendingApproval, AtFirst, Untouched
<1>6. Answerable(r)'
  BY <1>1, <1>2 DEF RequestInv, Answerable, StillComing, Handling, HandlingAt
<1> QED
  BY <1>2, <1>3, <1>4, <1>5, <1>6, OneRequest DEF RequestInv, OnlyHandles

LEMMA QuestionRInv ==
  ASSUME RInv, NEW r \in Requests, OnlyHandles(r), CreatePendingQuestion(r), Turn("ask", r, FALSE),
         UNCHANGED <<kind, file, decision, response, past>>, AtFirst(r)
  PROVE  RInv'
<1>1. RequestsTyped /\ RequestInv(r)
  BY DEF RInv
<1>2. /\ worker' = [pc |-> "ask", r |-> r, approved |-> FALSE]
      /\ pending' = [pending EXCEPT ![r] = "question"]
      /\ UNCHANGED <<kind, file, decision, response, waiter, container, past>>
  BY DEF CreatePendingQuestion, Turn, OnlyHandles
<1>3. RequestsTyped'
  BY <1>1, <1>2 DEF RequestsTyped, OnlyHandles
<1>4. /\ pending'[r] = "question"
      /\ \A q \in Requests \ {r} : pending'[q] = pending[q]
  BY <1>1, <1>2 DEF RequestsTyped
<1>5. Fresh(r)'
  BY <1>2 DEF Fresh, AtFirst
<1>6. r \notin past'.interrupted => Stage(r)'
  BY <1>1, <1>2, <1>4 DEF RequestInv, Stage, Handling, HandlingAt, PendingApproval, AtFirst, Untouched
<1>7. Answerable(r)'
  BY <1>1, <1>2, <1>4 DEF RequestInv, Answerable, StillComing, Handling, HandlingAt
<1> QED
  BY <1>2, <1>3, <1>4, <1>5, <1>6, <1>7, OneRequest DEF RequestInv, OnlyHandles

\* The first handling ends: the file leaves the directory of tasks.
LEMMA FileMovesRInv ==
  ASSUME RInv, NEW r \in Requests, OnlyHandles(r), NEW to \in {"none", "errors"},
         file' = [file EXCEPT ![r] = to], worker' = AtRest,
         UNCHANGED <<kind, pending, decision, response, past>>, kind[r] # "unused", NotAgain(r),
         waiter[r] = "waits" /\ to = "none" => pending[r] # "none" \/ response[r] # "none"
  PROVE  RInv'
<1>1. RequestsTyped /\ RequestInv(r)
  BY DEF RInv
<1>2. RequestsTyped'
  BY <1>1 DEF RequestsTyped, OnlyHandles, AtRest
<1>3. /\ file'[r] = to /\ worker'.pc = "idle"
      /\ \A q \in Requests \ {r} : file'[q] = file[q]
  BY <1>1 DEF RequestsTyped, AtRest
<1>4. Fresh(r)'
  BY DEF Fresh
<1>5. r \notin past'.interrupted => Stage(r)'
  BY <1>1, <1>3 DEF RequestInv, Stage, Handling, HandlingAt, PendingApproval, NotAgain
<1>6. Answerable(r)'
  BY <1>1, <1>3 DEF RequestInv, Answerable, StillComing, Handling, HandlingAt, OnlyHandles
<1> QED
  BY <1>2, <1>3, <1>4, <1>5, <1>6, OneRequest DEF RequestInv, OnlyHandles

\* Without its filing, r has something to wait for.
Answered(r) == file[r] # "none" \/ response[r] # "none" \/ (kind[r] \in Scripts /\ r \in past.approved)

\* The filing and its decision are removed.
LEMMA DiscardRInv ==
  ASSUME RInv, NEW r \in Requests, OnlyHandles(r), Discard(r), worker' = AtRest,
         UNCHANGED <<kind, file, response, past>>,
         Handling(r) => kind[r] # "unused",
         r \notin past.interrupted => (Handling(r) => file[r] # "tasks"),
         waiter[r] = "waits" => Answered(r)
  PROVE  RInv'
<1>1. RequestsTyped /\ RequestInv(r)
  BY DEF RInv
<1>2. /\ pending' = [pending EXCEPT ![r] = "none"] /\ decision' = [decision EXCEPT ![r] = "none"]
  BY DEF Discard
<1>3. RequestsTyped'
  BY <1>1, <1>2 DEF RequestsTyped, OnlyHandles, AtRest
<1>4. /\ pending'[r] = "none" /\ decision'[r] = "none" /\ worker'.pc = "idle"
      /\ \A q \in Requests \ {r} : pending'[q] = pending[q] /\ decision'[q] = decision[q]
  BY <1>1, <1>2 DEF RequestsTyped, AtRest
<1>5. Fresh(r)'
  BY <1>1, <1>4 DEF RequestInv, Fresh, Untouched, Handling
<1>6. r \notin past'.interrupted => Stage(r)'
  BY <1>1, <1>4 DEF RequestInv, Stage, Handling, HandlingAt, PendingApproval, Untouched, AtRest
<1>7. Answerable(r)'
  BY <1>1, <1>4 DEF RequestInv, Answerable, StillComing, Handling, HandlingAt, OnlyHandles, Answered
<1> QED
  BY <1>2, <1>3, <1>4, <1>5, <1>6, <1>7, OneRequest DEF RequestInv, OnlyHandles

\* A decision is carried out: the tool is called, or the handling goes straight to its end.
LEMMA CallApprovedRInv ==
  ASSUME RInv, NEW r \in Requests, OnlyHandles(r), worker = AtRest, PendingApproval(r),
         decision[r] = "approve", Turn("execute", r, TRUE), Executed(r), UNCHANGED files
  PROVE  RInv'
<1>1. RequestsTyped /\ RequestInv(r)
  BY DEF RInv
<1>2. /\ worker' = [pc |-> "execute", r |-> r, approved |-> TRUE]
      /\ UNCHANGED <<kind, file, pending, decision, response, waiter, container>>
  BY DEF Turn, OnlyHandles, files
<1>3. /\ past' \in PastType
      /\ past'.executed[r] = past.executed[r] + 1
      /\ \A q \in Requests \ {r} : past'.executed[q] = past.executed[q]
      /\ past'.asked = past.asked
      /\ past'.approved = past.approved /\ past'.interrupted = past.interrupted
  BY <1>1, PastExecuted DEF RequestsTyped
<1>4. RequestsTyped'
  BY <1>1, <1>2, <1>3 DEF RequestsTyped, OnlyHandles
<1>5. ~Handling(r) /\ pending[r] # "none" /\ kind[r] # "unused" /\ r \in past.approved
  BY <1>1 DEF Handling, AtRest, PendingApproval, RequestInv, Fresh, Untouched, Answerable
<1>6. Fresh(r)'
  BY <1>2, <1>5 DEF Fresh
<1>7. r \notin past'.interrupted => Stage(r)'
  BY <1>1, <1>2, <1>3, <1>5 DEF RequestInv, Stage, Handling, HandlingAt, PendingApproval, Untouched
<1>8. Answerable(r)'
  BY <1>1, <1>2, <1>3 DEF RequestInv, Answerable, StillComing, Handling, HandlingAt
<1> QED
  BY <1>2, <1>3, <1>4, <1>6, <1>7, <1>8, OneRequest DEF RequestInv, OnlyHandles

LEMMA AuditRInv ==
  ASSUME RInv, NEW r \in Requests, OnlyHandles(r), Turn("audit", r, TRUE),
         UNCHANGED <<kind, file, pending, decision, past>>,
         \/ \E what \in {"result", "error"} : Respond(r, what)
         \/ UNCHANGED response /\ kind[r] \in Scripts /\ r \in past.approved,
         kind[r] # "unused", r \notin past.interrupted => file[r] # "tasks"
  PROVE  RInv'
<1>1. RequestsTyped /\ RequestInv(r)
  BY DEF RInv
<1>2. /\ worker' = [pc |-> "audit", r |-> r, approved |-> TRUE]
      /\ response' \in [Requests -> {"none", "result", "error"}]
      /\ response'[r] # "none" \/ (kind[r] \in Scripts /\ r \in past.approved)
      /\ response[r] # "none" => response'[r] # "none"
      /\ \A q \in Requests \ {r} : response'[q] = response[q]
  BY <1>1 DEF Turn, Respond, RequestsTyped
<1>3. RequestsTyped'
  BY <1>1, <1>2 DEF RequestsTyped, OnlyHandles
<1>4. Fresh(r)'
  BY DEF Fresh
<1>5. r \notin past'.interrupted => Stage(r)'
  BY <1>1, <1>2 DEF RequestInv, Stage, Handling, HandlingAt, PendingApproval, Untouched
<1>6. Answerable(r)'
  BY <1>1, <1>2 DEF RequestInv, Answerable, StillComing, Handling, HandlingAt, OnlyHandles
<1> QED
  BY <1>2, <1>3, <1>4, <1>5, <1>6, OneRequest DEF RequestInv, OnlyHandles

\* A task file is processed.
LEMMA ProcessTaskFileRInv ==
  ASSUME RInv, NEW r \in Requests, OnlyHandles(r), worker = AtRest, file[r] = "tasks", ProcessTaskFile(r)
  PROVE  RInv'
<1>1. RequestsTyped /\ RequestInv(r) /\ ~Handling(r)
  BY DEF RInv, Handling, AtRest
<1>2. AtFirst(r) /\ NotAgain(r) /\ kind[r] # "unused"
  BY <1>1 DEF RequestInv, Fresh, Stage, AtFirst, NotAgain, Untouched
<1>3. CASE HandleServiceRequest(r)
  BY <1>2, <1>3, AnswersRInv, AskRInv, InspectRInv, ExecuteRInv DEF HandleServiceRequest
<1>4. CASE HandleBashSecurityCheck(r)
  <2>1. \/ CreatePendingApproval(r, "service") \/ Answers(r, "result") \/ Answers(r, "error")
    <3>1. PICK parts \in SUBSET CommandClasses, flagged \in BOOLEAN :
            LET verdict == EvaluateBashCommand(TaintNow, ClassifyCommand(parts), flagged)
            IN  CASE verdict = "needs_human" -> CreatePendingApproval(r, "service")
                  [] verdict = "allow" -> Answers(r, "result")
                  [] verdict = "deny" -> Answers(r, "error")
      BY <1>4 DEF HandleBashSecurityCheck
    <3>2. EvaluateBashCommand(TaintNow, ClassifyCommand(parts), flagged) \in {"needs_human", "allow", "deny"}
      BY DEF EvaluateBashCommand
    <3> QED
      BY <3>1, <3>2
  <2> QED
    BY <1>2, <2>1, AnswersRInv, AskRInv
<1>5. CASE HandleAskUserRequest(r)
  BY <1>2, <1>5, AnswersRInv, QuestionRInv DEF HandleAskUserRequest
<1> QED
  BY <1>3, <1>4, <1>5 DEF ProcessTaskFile

\* A decision is processed.
LEMMA ProcessApprovalDecisionRInv ==
  ASSUME RInv, NEW r \in Requests, OnlyHandles(r), worker = AtRest, ProcessApprovalDecision(r)
  PROVE  RInv'
<1>1. RequestsTyped /\ RequestInv(r) /\ ~Handling(r)
  BY DEF RInv, Handling, AtRest
<1>2. CASE pending[r] = "none" /\ Discard(r) /\ worker' = AtRest /\ UNCHANGED <<kind, file, response, past>>
  <2>1. waiter[r] = "waits" => Answered(r)
    BY <1>1, <1>2 DEF RequestInv, Answerable, StillComing, Answered
  <2> QED
    BY <1>1, <1>2, <2>1, DiscardRInv
<1> SUFFICES ASSUME pending[r] # "none" PROVE RInv'
  BY <1>2 DEF ProcessApprovalDecision
<1>3. kind[r] # "unused" /\ (r \notin past.interrupted => file[r] # "tasks")
  BY <1>1 DEF RequestInv, Fresh, Stage, Untouched
<1>4. CASE Respond(r, "error") /\ Turn("audit", r, TRUE) /\ UNCHANGED <<kind, file, pending, decision, past>>
  BY <1>3, <1>4, AuditRInv
<1>5. CASE /\ PendingApproval(r) /\ decision[r] = "approve"
           /\ Turn("execute", r, TRUE) /\ Executed(r) /\ UNCHANGED files
  BY <1>5, CallApprovedRInv
<1>6. CASE /\ pending[r] = "ipc" /\ decision[r] = "approve" /\ Turn("audit", r, TRUE)
           /\ UNCHANGED <<kind, file, pending, decision, response, past>>
  <2>1. kind[r] \in Scripts /\ r \in past.approved
    BY <1>1, <1>6 DEF RequestInv, Answerable
  <2> QED
    BY <1>3, <1>6, <2>1, AuditRInv
<1> QED
  BY <1>4, <1>5, <1>6 DEF ProcessApprovalDecision, ApprovedAgain, PendingApproval, files

LEMMA ProcessQueueRInv ==
  ASSUME RInv, ProcessQueue PROVE RInv'
<1>1. RequestsTyped
  BY DEF RInv
<1>2. /\ Head(events) \in {"task", "decision"} \X Requests
      /\ events' \in Seq({"task", "decision"} \X Requests)
  BY <1>1 DEF ProcessQueue, RequestsTyped
<1>3. PICK r \in Requests : r = Head(events)[2]
  BY <1>2
<1>4. OnlyHandles(r) /\ worker = AtRest /\ UNCHANGED <<waiter, container>>
  BY <1>2 DEF OnlyHandles, ProcessQueue
<1>5. CASE file[r] = "tasks" /\ ProcessTaskFile(r)
  BY <1>4, <1>5, ProcessTaskFileRInv
<1>6. CASE ProcessApprovalDecision(r)
  BY <1>4, <1>6, ProcessApprovalDecisionRInv
<1>7. CASE UNCHANGED <<files, worker, past>>
  <2>1. RequestsTyped'
    BY <1>1, <1>2, <1>4, <1>7 DEF RequestsTyped, files, AtRest
  <2>2. RequestInv(r)
    BY DEF RInv
  <2>3. RequestInv(r)'
    BY <1>4, <1>7, <2>2 DEF RequestInv, Fresh, Stage, Untouched, Handling, HandlingAt, PendingApproval, Answerable,
                            StillComing, files
  <2> QED
    BY <1>4, <1>7, <2>1, <2>3, OneRequest DEF files
<1> QED
  BY <1>3, <1>5, <1>6, <1>7 DEF ProcessQueue

\* What is known of the request at hand.
LEMMA AtHand ==
  ASSUME RInv, worker.pc # "idle", UNCHANGED <<events, waiter, container>>
  PROVE  /\ worker.r \in Requests /\ RequestInv(worker.r) /\ RequestsTyped
         /\ Handling(worker.r) /\ kind[worker.r] # "unused"
         /\ OnlyHandles(worker.r)
<1>1. RequestsTyped
  BY DEF RInv
<1>2. worker.r \in Requests
  BY <1>1 DEF RequestsTyped, AtRest
<1>3. PICK r \in Requests : r = worker.r
  BY <1>2
<1>4. RequestInv(r) /\ Handling(r)
  BY <1>3 DEF RInv, Handling
<1>5. kind[r] # "unused"
  BY <1>4 DEF RequestInv, Fresh
<1>6. OnlyHandles(r)
  BY <1>1, <1>3 DEF OnlyHandles, RequestsTyped
<1> QED
  BY <1>1, <1>3, <1>4, <1>5, <1>6

\* The inspection of a script, the call of a tool, the message to the human and the end of
\* an approved call.
LEMMA HandlingRInv ==
  ASSUME RInv, CopGate \/ ToolEnds \/ Told \/ Audited
  PROVE  RInv'
<1>1. worker.pc # "idle" /\ UNCHANGED <<events, waiter, container>>
  BY DEF CopGate, ToolEnds, Told, Audited
<1>2. PICK r \in Requests : r = worker.r
  BY <1>1, AtHand
<1>3. RequestInv(r) /\ RequestsTyped /\ Handling(r) /\ kind[r] # "unused" /\ OnlyHandles(r)
  BY <1>1, <1>2, AtHand
<1>4. CASE CopGate
  <2>1. HandlingAt(r, "cop")
    BY <1>2, <1>3, <1>4 DEF CopGate, HandlingAt
  <2>2. AtFirst(r) /\ NotAgain(r) /\ kind[r] \in Scripts
    BY <1>3, <2>1 DEF RequestInv, Stage, AtFirst, NotAgain, Untouched, Answerable
  <2>3. CASE Turn("execute", r, FALSE) /\ Executed(r) /\ UNCHANGED files
    BY <1>3, <2>2, <2>3, ExecuteRInv
  <2>4. CASE CreatePendingApproval(r, "ipc")
    BY <1>3, <2>2, <2>4, AskRInv
  <2>5. CASE /\ file' = [file EXCEPT ![r] = "errors"] /\ worker' = AtRest
             /\ UNCHANGED <<kind, pending, decision, response, past>>
    BY <1>3, <2>2, <2>5, FileMovesRInv
  <2> QED
    BY <1>2, <1>4, <2>3, <2>4, <2>5 DEF CopGate
<1>5. CASE ToolEnds
  <2>1. HandlingAt(r, "execute")
    BY <1>2, <1>3, <1>5 DEF ToolEnds, HandlingAt
  <2>2. CASE worker.approved
    <3>1. r \notin past.interrupted => file[r] # "tasks"
      BY <1>3, <2>2 DEF RequestInv, Stage
    <3> QED
      BY <1>2, <1>3, <1>5, <2>2, <3>1, AuditRInv DEF ToolEnds
  <2>3. CASE ~worker.approved
    <3>1. NotAgain(r)
      BY <1>3, <2>1, <2>3 DEF RequestInv, Stage, NotAgain
    <3>2. CASE Answers(r, "result")
      BY <1>3, <3>1, <3>2, AnswersRInv
    <3>3. CASE /\ file' = [file EXCEPT ![r] = "errors"] /\ worker' = AtRest
               /\ UNCHANGED <<kind, pending, decision, response, past>>
      BY <1>3, <3>1, <3>3, FileMovesRInv
    <3> QED
      BY <1>2, <1>5, <2>3, <3>2, <3>3 DEF ToolEnds
  <2> QED
    BY <2>2, <2>3
<1>6. CASE Told
  <2>1. HandlingAt(r, "ask")
    BY <1>2, <1>3, <1>6 DEF Told, HandlingAt
  <2>2. NotAgain(r) /\ (waiter[r] = "waits" => pending[r] # "none" \/ response[r] # "none")
    BY <1>3, <2>1 DEF RequestInv, Stage, NotAgain, Answerable
  <2> QED
    BY <1>2, <1>3, <1>6, <2>2, FileMovesRInv DEF Told
<1>7. CASE Audited
  <2>1. HandlingAt(r, "audit")
    BY <1>2, <1>3, <1>7 DEF Audited, HandlingAt
  <2>2. /\ r \notin past.interrupted => file[r] # "tasks"
        /\ waiter[r] = "waits" => Answered(r)
    BY <1>3, <2>1 DEF RequestInv, Stage, Answerable, Answered
  <2> QED
    BY <1>2, <1>3, <1>7, <2>2, DiscardRInv DEF Audited
<1> QED
  BY <1>4, <1>5, <1>6, <1>7

\* The list the start makes of the files it finds.
LEMMA SetToSeqTyped ==
  ASSUME NEW S, IsFiniteSet(S)
  PROVE  SetToSeq(S) \in Seq(S)
<1>1. PICK n \in Nat : ExistsBijection(1..n, S)
  BY FS_NatBijection
<1>2. Cardinality(S) = n
  BY <1>1, FS_CountingElements
<1>3. PICK f : f \in Bijection(1..n, S)
  BY <1>1 DEF ExistsBijection
<1>4. f \in [1..n -> S] /\ IsInjective(f)
  BY <1>3 DEF Bijection, Injection, IsInjective
<1>5. SetToSeq(S) \in [1..n -> S]
  BY <1>2, <1>4 DEF SetToSeq
<1> QED
  BY <1>5

LEMMA StartIpcWatcherRInv ==
  ASSUME RInv, StartIpcWatcher PROVE RInv'
<1>1. RequestsTyped
  BY DEF RInv
<1>2. events' \in Seq({"task", "decision"} \X Requests)
  <2> DEFINE R == {q \in Requests : file[q] = "tasks"}
             S == {<<"task", r>> : r \in R}
             f == [r \in R |-> <<"task", r>>]
  <2>1. IsFiniteSet(R)
    BY RequestsFinite, FS_Subset
  <2>2. f \in Surjection(R, S)
    BY DEF Surjection
  <2>3. IsFiniteSet(S)
    BY <2>1, <2>2, FS_Surjection
  <2>4. SetToSeq(S) \in Seq(S)
    BY <2>3, SetToSeqTyped
  <2>5. S \subseteq {"task", "decision"} \X Requests
    OBVIOUS
  <2>6. events' = SetToSeq(S)
    BY DEF StartIpcWatcher
  <2> HIDE DEF S
  <2> QED
    BY <2>4, <2>5, <2>6
<1>3. UNCHANGED <<worker, files, waiter, container, past>>
  BY DEF StartIpcWatcher
<1>4. RequestsTyped'
  BY <1>1, <1>2, <1>3 DEF RequestsTyped, files, AtRest
<1>5. ASSUME NEW q \in Requests PROVE RequestInv(q)'
  <2>1. RequestInv(q)
    BY DEF RInv
  <2> QED
    BY <1>3, <2>1 DEF RequestInv, Fresh, Stage, Untouched, Handling, HandlingAt, PendingApproval, Answerable,
                     StillComing, files
<1> QED
  BY <1>4, <1>5 DEF RInv

\* The end of the sweep answers only those that nobody waits for any more.
LEMMA SweepEndsRInv ==
  ASSUME RInv, SweepEnds PROVE RInv'
<1>1. RequestsTyped
  BY DEF RInv
<1>2. PICK old \in SUBSET (ExpiredApprovals \cup ExpiredQuestions) :
        /\ pending' = [r \in Requests |-> IF r \in old THEN "none" ELSE pending[r]]
        /\ response' = [r \in Requests |-> IF r \in old THEN "error" ELSE response[r]]
        /\ decision' = [r \in Requests |-> IF pending'[r] = "none" THEN "none" ELSE decision[r]]
  BY DEF SweepEnds
<1>3. /\ UNCHANGED <<events, worker, kind, file, waiter, container, past>>
      /\ worker.pc = "idle"
  BY DEF SweepEnds, AtRest
<1>4. RequestsTyped'
  BY <1>1, <1>2, <1>3 DEF RequestsTyped, AtRest
<1>5. ASSUME NEW q \in Requests PROVE RequestInv(q)'
  <2>1. RequestInv(q)
    BY DEF RInv
  <2>2. /\ pending'[q] \in {"none", pending[q]} /\ decision'[q] \in {"none", decision[q]}
        /\ waiter[q] = "waits" => pending'[q] = pending[q] /\ response'[q] = response[q]
    BY <1>2 DEF ExpiredApprovals, ExpiredQuestions, Expired
  <2>3. Fresh(q)'
    BY <1>3, <2>1, <2>2 DEF RequestInv, Fresh, Untouched, Handling
  <2>4. q \notin past'.interrupted => Stage(q)'
    BY <1>3, <2>1, <2>2 DEF RequestInv, Stage, Untouched, Handling, HandlingAt, PendingApproval
  <2>5. Answerable(q)'
    BY <1>3, <2>1, <2>2 DEF RequestInv, Answerable, StillComing, Handling, HandlingAt
  <2> QED
    BY <2>3, <2>4, <2>5 DEF RequestInv
<1> QED
  BY <1>4, <1>5 DEF RInv

\* A death of the process takes the containers along and interrupts what was handled.
LEMMA WatcherCrashRInv ==
  ASSUME RInv, WatcherCrash PROVE RInv'
<1>1. RequestsTyped
  BY DEF RInv
<1> DEFINE A == IF worker = AtRest THEN past.interrupted ELSE past.interrupted \cup {worker.r}
<1>2. A \in SUBSET Requests
  BY <1>1 DEF RequestsTyped, PastType
<1>3. past' = [past EXCEPT !.crashes = @ + 1, !.interrupted = A]
  BY DEF WatcherCrash
<1>4. /\ past' \in PastType
      /\ past'.executed = past.executed /\ past'.asked = past.asked
      /\ past'.approved = past.approved /\ past'.interrupted = A
  <2> HIDE DEF A
  <2> QED
    BY <1>1, <1>2, <1>3, PastCrashed DEF RequestsTyped
<1>5. /\ events' = <<>> /\ worker' = AtRest /\ waiter' = Gone /\ UNCHANGED files
  BY DEF WatcherCrash
<1>6. waiter' \in [Requests -> {"none", "waits", "result", "error", "gone"}]
  BY <1>1, <1>5 DEF Gone, RequestsTyped
<1>7. RequestsTyped'
  <2>1. events' \in Seq({"task", "decision"} \X Requests)
    BY <1>5
  <2> QED
    BY <1>1, <1>4, <1>5, <1>6, <2>1 DEF RequestsTyped, files
<1>8. ASSUME NEW q \in Requests PROVE RequestInv(q)'
  <2>1. waiter'[q] # "waits"
    BY <1>5 DEF Gone
  <2>2. Handling(q) => q \in past'.interrupted
    BY <1>4 DEF Handling, AtRest
  <2>3. worker'.pc = "idle" /\ (q \in past.interrupted => q \in past'.interrupted)
    BY <1>4, <1>5 DEF AtRest
  <2> QED
    BY <1>4, <1>5, <1>7, <2>1, <2>2, <2>3, Bystander DEF files
<1> QED
  BY <1>7, <1>8 DEF RInv

LEMMA NextRInv == RInv /\ [RequestNext]_request_vars => RInv'
<1> SUFFICES ASSUME RInv, [RequestNext]_request_vars PROVE RInv'
  OBVIOUS
<1>1. CASE SpawnContainer \/ ReleaseSlot \/ FollowUp \/ ContainerEnds \/ \E s \in Tools : ProxyHandler(s)
  BY <1>1, ContainerRInv
<1>2. ASSUME NEW r \in Requests,
             \/ \E k \in RequestKinds : ServiceRequest(r, k)
             \/ ReadResponse(r) \/ RequestTimesOut(r) \/ HandleAskUserAnswer(r)
             \/ \E d \in Decisions : HandleApprovalCommand(r, d)
      PROVE  RInv'
  BY <1>2, ServiceRequestRInv, ReaderRInv, HandleAskUserAnswerRInv, HandleApprovalCommandRInv
<1>3. CASE WatcherStep
  BY <1>3, ProcessQueueRInv, HandlingRInv, StartIpcWatcherRInv, SweepEndsRInv DEF WatcherStep
<1>4. CASE UNCHANGED request_vars
  <2>1. RequestsTyped
    BY DEF RInv
  <2>2. UNCHANGED <<events, worker, kind, file, pending, decision, response, waiter, container, past>>
    BY <1>4 DEF request_vars, files
  <2>3. RequestsTyped'
    BY <2>1, <2>2 DEF RequestsTyped, AtRest
  <2>4. ASSUME NEW q \in Requests PROVE RequestInv(q)'
    <3>1. RequestInv(q)
      BY DEF RInv
    <3> QED
      BY <2>2, <3>1 DEF RequestInv, Fresh, Stage, Untouched, Handling, HandlingAt, PendingApproval, Answerable,
                       StillComing
  <2> QED
    BY <2>3, <2>4 DEF RInv
<1> QED
  BY <1>1, <1>2, <1>3, <1>4, WatcherCrashRInv DEF RequestNext

\* How far each request has come, whatever decisions, crashes and restarts do: its
\* file stays in tasks/ until its first handling is over, the worker holds it at
\* most once, and after that only a decision of a human moves it on
\* (ipc/_watcher.py, ipc/handlers_approval.py, security/approval.py).
THEOREM RequestInvariant == RequestSpec => []RInv
BY InitRInv, NextRInv, PTL DEF RequestSpec

\* The invariant gives what the run checks.
LEMMA RInvSound == RInv => RequestsSound
<1> SUFFICES ASSUME RInv PROVE RequestsSound
  OBVIOUS
<1>1. past.executed \in [Requests -> Nat]
  BY DEF RInv, RequestsTyped, PastType
<1>2. ASSUME NEW r \in Requests
      PROVE  /\ past.executed[r] > 1 => r \in past.interrupted
             /\ r \in past.asked \ past.interrupted /\ past.executed[r] > 0 => r \in past.approved
             /\ waiter[r] = "waits" => StillComing(r)
  <2>1. RequestInv(r)
    BY DEF RInv
  <2> QED
    BY <1>1, <2>1 DEF RequestInv, Stage, Answerable
<1>3. past.asked \subseteq Requests
  BY DEF RInv, RequestsTyped, PastType
<1> QED
  BY <1>2, <1>3 DEF RequestsSound, ExecutedOnce, ApprovalRespected, NobodyForgotten, StillComing

\* A tool is called once for a request unless the process died meanwhile, what was put to a
\* human only with the approval, and who waits has something to wait for (ipc/_watcher.py,
\* ipc/handlers_service.py, ipc/handlers_approval.py, security/approval.py).
THEOREM RequestsStaySound == RequestSpec => []RequestsSound
BY RInvSound, RequestInvariant, PTL

-----------------------------------------------------------------------------
(* The types with their bounds: a tool is called once for a request, and   *)
(* once more for each death of the process at most.                        *)

\* The first handling has called the tool, or filed the request for a human.
FirstBegun(r) == Handling(r) /\ ~worker.approved /\ worker.pc \in {"execute", "ask"}

\* What can still lead to a call: the task file, unless that was it, and the filing,
\* unless it is being carried out.
Due(r) == kind[r] = "unused" \/ (file[r] = "tasks" /\ ~FirstBegun(r))
Filed(r) == pending[r] # "none" /\ ~(Handling(r) /\ worker.approved)

Budget(r) ==
  past.executed[r] + (IF Due(r) THEN 1 ELSE 0) + (IF Filed(r) THEN 1 ELSE 0) <= past.crashes + 1

Bounded ==
  /\ watcher \in {"down", "sweep", "ready"} /\ container \in {"none", "run", "warm"}
  /\ past.crashes <= MaxCrashes /\ past.spawns <= MaxSpawns /\ past.decisions <= MaxDecisions

\* An inspection, and a message to the human, belong to the first handling.
FirstHasFile == worker.pc \in {"cop", "ask"} => ~worker.approved /\ (worker.pc = "cop" => file[worker.r] = "tasks")

\* The invariant of the requests, with the bounds.
TInv == RInv /\ GateTypeOK /\ Bounded /\ FirstHasFile /\ \A r \in Requests : Budget(r)

LEMMA RequestTypes == TInv => RequestTypeOK
<1> SUFFICES ASSUME TInv PROVE RequestTypeOK
  OBVIOUS
<1>1. RequestsTyped /\ Bounded /\ GateTypeOK
  BY DEF TInv, RInv
<1>2. past \in PastType /\ MaxCrashes \in Nat /\ MaxSpawns \in Nat /\ MaxDecisions \in Nat
  BY <1>1, RequestBounds DEF RequestsTyped
<1>3. ASSUME NEW r \in Requests PROVE past.executed[r] \in 0..(1 + MaxCrashes)
  <2>1. past.executed[r] \in Nat /\ past.crashes \in Nat /\ past.crashes <= MaxCrashes
    BY <1>1, <1>2 DEF PastType, Bounded
  <2>2. past.executed[r] <= past.crashes + 1
    BY <2>1 DEF TInv, Budget
  <2> QED
    BY <1>2, <2>1, <2>2
<1>4. past.executed \in [Requests -> 0..(1 + MaxCrashes)]
  BY <1>2, <1>3 DEF PastType
<1>5. past.crashes \in 0..MaxCrashes /\ past.spawns \in 0..MaxSpawns /\ past.decisions \in 0..MaxDecisions
  BY <1>1, <1>2 DEF PastType, Bounded
<1>6. past \in [crashes : 0..MaxCrashes, spawns : 0..MaxSpawns, decisions : 0..MaxDecisions,
               executed : [Requests -> 0..(1 + MaxCrashes)], asked : SUBSET Requests,
               approved : SUBSET Requests, interrupted : SUBSET Requests, enqueued : SUBSET Requests]
  <2> DEFINE called == [Requests -> 0..(1 + MaxCrashes)]
             sets == SUBSET Requests
             crashes == 0..MaxCrashes
             spawns == 0..MaxSpawns
             decisions == 0..MaxDecisions
             numbers == Nat
             calls == [Requests -> Nat]
  <2>1. past \in [crashes : numbers, spawns : numbers, decisions : numbers, executed : calls,
                  asked : sets, approved : sets, interrupted : sets, enqueued : sets]
    BY <1>2 DEF PastType
  <2>2. past.executed \in called /\ past.crashes \in crashes /\ past.spawns \in spawns /\ past.decisions \in decisions
    BY <1>4, <1>5
  <2> HIDE DEF called, sets, crashes, spawns, decisions, numbers, calls
  <2>3. past \in [crashes : crashes, spawns : spawns, decisions : decisions,
                  executed : called, asked : sets, approved : sets, interrupted : sets, enqueued : sets]
    BY <2>1, <2>2
  <2> QED
    BY <2>3 DEF called, sets, crashes, spawns, decisions
<1>7. worker \in [pc : {"idle", "cop", "execute", "ask", "audit"}, r : Requests \cup {0}, approved : BOOLEAN]
  <2>1. CASE worker = AtRest
    <3>1. "idle" \in {"idle", "cop", "execute", "ask", "audit"} /\ 0 \in Requests \cup {0} /\ FALSE \in BOOLEAN
      OBVIOUS
    <3> QED
      BY <2>1, <3>1 DEF AtRest
  <2>2. CASE worker \in [pc : {"cop", "execute", "ask", "audit"}, r : Requests, approved : BOOLEAN]
    BY <2>2
  <2> QED
    BY <1>1, <2>1, <2>2 DEF RequestsTyped
<1> QED
  BY <1>1, <1>6, <1>7 DEF RequestTypeOK, RequestsTyped, Bounded, GateTypeOK

-----------------------------------------------------------------------------
\* What a step can do to what is left of a request.
LEMMA SpendsNothing ==
  ASSUME TInv, NEW q \in Requests, past' \in PastType,
         past'.executed[q] = past.executed[q], past'.crashes = past.crashes,
         Due(q)' => Due(q), Filed(q)' => Filed(q)
  PROVE  Budget(q)'
<1>1. past.executed[q] \in Nat /\ past.crashes \in Nat /\ Budget(q)
  BY DEF TInv, RInv, RequestsTyped, PastType
<1> QED
  BY <1>1 DEF Budget

LEMMA SpendsTheFile ==
  ASSUME TInv, NEW q \in Requests, past' \in PastType,
         past'.executed[q] = past.executed[q], past'.crashes = past.crashes,
         Due(q), ~Due(q)'
  PROVE  Budget(q)'
<1>1. past.executed[q] \in Nat /\ past.crashes \in Nat /\ Budget(q)
  BY DEF TInv, RInv, RequestsTyped, PastType
<1> QED
  BY <1>1 DEF Budget

LEMMA SpendsOnACall ==
  ASSUME TInv, NEW q \in Requests, past' \in PastType,
         past'.executed[q] = past.executed[q] + 1, past'.crashes = past.crashes,
         Due(q)' => Due(q), Filed(q)' => Filed(q),
         (Due(q) /\ ~Due(q)') \/ (Filed(q) /\ ~Filed(q)')
  PROVE  Budget(q)'
<1>1. past.executed[q] \in Nat /\ past.crashes \in Nat /\ Budget(q)
  BY DEF TInv, RInv, RequestsTyped, PastType
<1> QED
  BY <1>1 DEF Budget

LEMMA SpendsACrash ==
  ASSUME TInv, NEW q \in Requests, past' \in PastType,
         past'.executed[q] = past.executed[q], past'.crashes = past.crashes + 1,
         (Due(q)' => Due(q)) \/ (Filed(q)' => Filed(q))
  PROVE  Budget(q)'
<1>1. past.executed[q] \in Nat /\ past.crashes \in Nat /\ Budget(q)
  BY DEF TInv, RInv, RequestsTyped, PastType
<1> QED
  BY <1>1 DEF Budget

\* The other requests, when the consumer takes one, goes on with it or ends it.
LEMMA OthersLeft ==
  ASSUME NEW r \in Requests, NEW q \in Requests \ {r},
         worker = AtRest \/ worker.r = r, worker' = AtRest \/ worker'.r = r,
         kind'[q] = kind[q], file'[q] = file[q], pending'[q] = pending[q]
  PROVE  (Due(q)' <=> Due(q)) /\ (Filed(q)' <=> Filed(q))
BY DEF Due, Filed, FirstBegun, Handling, AtRest

\* The consumer takes an event.
LEMMA QueueTakes ==
  ASSUME RInv, ProcessQueue
  PROVE  /\ worker = AtRest /\ UNCHANGED <<watcher, container>>
         /\ \E r \in Requests : \/ file[r] = "tasks" /\ ProcessTaskFile(r)
                               \/ ProcessApprovalDecision(r)
                               \/ UNCHANGED <<files, worker, past>>
<1>1. Head(events) \in {"task", "decision"} \X Requests
  BY DEF RInv, RequestsTyped, ProcessQueue
<1>2. PICK r \in Requests : r = Head(events)[2]
  BY <1>1
<1>3. \/ file[r] = "tasks" /\ ProcessTaskFile(r)
      \/ ProcessApprovalDecision(r)
      \/ UNCHANGED <<files, worker, past>>
  BY <1>2 DEF ProcessQueue
<1> QED
  BY <1>3 DEF ProcessQueue

\* What the first handling of a request does.
LEMMA FirstOutcomes ==
  ASSUME NEW r, ProcessTaskFile(r)
  PROVE  \/ \E what \in {"result", "error"} : Answers(r, what)
         \/ CreatePendingApproval(r, "service")
         \/ Starts(r, "cop")
         \/ Turn("execute", r, FALSE) /\ Executed(r) /\ UNCHANGED files
         \/ CreatePendingQuestion(r) /\ Turn("ask", r, FALSE) /\ UNCHANGED <<kind, file, decision, response, past>>
<1>1. CASE HandleServiceRequest(r)
  BY <1>1 DEF HandleServiceRequest
<1>2. CASE HandleBashSecurityCheck(r)
  BY <1>2 DEF HandleBashSecurityCheck, EvaluateBashCommand
<1>3. CASE HandleAskUserRequest(r)
  BY <1>3 DEF HandleAskUserRequest
<1> QED
  BY <1>1, <1>2, <1>3 DEF ProcessTaskFile

\* The history, but for calls and crashes.
LEMMA PastOf ==
  ASSUME TInv, RequestsTyped', [RequestNext]_request_vars
  PROVE  /\ past' \in PastType /\ past \in PastType
         /\ past'.crashes <= MaxCrashes /\ past'.spawns <= MaxSpawns /\ past'.decisions <= MaxDecisions
         /\ ~WatcherCrash => past'.crashes = past.crashes
<1>1. past \in PastType /\ past' \in PastType /\ Bounded
  BY DEF TInv, RInv, RequestsTyped
<1>2. /\ past.crashes \in Nat /\ past.spawns \in Nat /\ past.decisions \in Nat
      /\ MaxCrashes \in Nat /\ MaxSpawns \in Nat /\ MaxDecisions \in Nat
  BY <1>1, RequestBounds DEF PastType
<1>3. \/ past'.crashes = past.crashes /\ past'.spawns = past.spawns /\ past'.decisions = past.decisions
      \/ /\ past'.crashes = past.crashes
         /\ past'.spawns = past.spawns \/ (past.spawns < MaxSpawns /\ past'.spawns = past.spawns + 1)
         /\ past'.decisions = past.decisions \/ (past.decisions < MaxDecisions /\ past'.decisions = past.decisions + 1)
      \/ /\ WatcherCrash /\ past.crashes < MaxCrashes /\ past'.crashes = past.crashes + 1
         /\ past'.spawns = past.spawns /\ past'.decisions = past.decisions
  <2>1. CASE SpawnContainer
    BY <1>1, <2>1 DEF SpawnContainer, PastType
  <2>2. CASE WatcherCrash
    BY <1>1, <2>2 DEF WatcherCrash, PastType
  <2>3. ASSUME NEW r \in Requests, NEW d \in Decisions, HandleApprovalCommand(r, d)
        PROVE  past'.crashes = past.crashes /\ past'.spawns = past.spawns
               /\ past.decisions < MaxDecisions /\ past'.decisions = past.decisions + 1
    BY <1>1, <2>3 DEF HandleApprovalCommand, PastType
  <2>4. CASE UNCHANGED past
    BY <2>4
  <2>5. ASSUME NEW r \in Requests, HandleAskUserAnswer(r)
        PROVE  past'.crashes = past.crashes /\ past'.spawns = past.spawns /\ past'.decisions = past.decisions
    BY <1>1, <2>5 DEF HandleAskUserAnswer, PastType
  <2>6. ASSUME NEW r, Executed(r) \/ past' = [past EXCEPT !.asked = past.asked \cup {r}]
        PROVE  past'.crashes = past.crashes /\ past'.spawns = past.spawns /\ past'.decisions = past.decisions
    <3>1. CASE Executed(r)
      <4> DEFINE calls == [past.executed EXCEPT ![r] = past.executed[r] + 1]
      <4>1. past' = [past EXCEPT !.executed = calls]
        BY <3>1 DEF Executed
      <4> HIDE DEF calls
      <4> QED
        BY <1>1, <4>1 DEF PastType
    <3>2. CASE past' = [past EXCEPT !.asked = past.asked \cup {r}]
      BY <1>1, <3>2 DEF PastType
    <3> QED
      BY <2>6, <3>1, <3>2
  <2>7. CASE CopGate \/ ToolEnds \/ Told \/ Audited \/ StartIpcWatcher \/ SweepEnds
    BY <2>4, <2>6, <2>7 DEF CopGate, ToolEnds, Told, Audited, StartIpcWatcher, SweepEnds, Answers, CreatePendingApproval
  <2>8. CASE ProcessQueue
    <3>1. PICK r \in Requests : ProcessTaskFile(r) \/ ProcessApprovalDecision(r) \/ UNCHANGED <<files, worker, past>>
      BY <2>8, QueueTakes DEF TInv
    <3>2. CASE ProcessTaskFile(r)
      BY <2>4, <2>6, <3>2, FirstOutcomes DEF Answers, CreatePendingApproval, Starts
    <3>3. CASE ProcessApprovalDecision(r)
      BY <2>4, <2>6, <3>3 DEF ProcessApprovalDecision, ApprovedAgain
    <3> QED
      BY <2>4, <3>1, <3>2, <3>3
  <2>9. CASE ReleaseSlot \/ FollowUp \/ ContainerEnds \/ \E s \in Tools : ProxyHandler(s)
    BY <2>4, <2>9 DEF ReleaseSlot, FollowUp, ContainerEnds, ProxyHandler
  <2>10. ASSUME NEW r \in Requests, (\E k \in RequestKinds : ServiceRequest(r, k)) \/ ReadResponse(r) \/ RequestTimesOut(r)
         PROVE  past' = past
    BY <2>10 DEF ServiceRequest, ReadResponse, RequestTimesOut
  <2>11. CASE UNCHANGED request_vars
    BY <2>4, <2>11 DEF request_vars
  <2> QED
    BY <2>1, <2>2, <2>3, <2>4, <2>5, <2>7, <2>8, <2>9, <2>10, <2>11 DEF RequestNext, WatcherStep
<1>4. ~WatcherCrash => past'.crashes = past.crashes
  BY <1>3
<1> QED
  BY <1>1, <1>2, <1>3, <1>4 DEF Bounded

-----------------------------------------------------------------------------
\* Steps that the consumer has no part in.
LEMMA QuietTInv ==
  ASSUME TInv, RInv', GateTypeOK', Bounded', worker' = worker,
         past'.executed = past.executed, past'.crashes = past.crashes,
         \A q \in Requests : /\ kind'[q] = "unused" => kind[q] = "unused"
                             /\ file'[q] = "tasks" => file[q] = "tasks" \/ kind[q] = "unused"
                             /\ pending'[q] # "none" => pending[q] # "none",
         worker.pc = "cop" => file'[worker.r] = "tasks"
  PROVE  TInv'
<1>1. past' \in PastType
  BY DEF RInv, RequestsTyped
<1>2. ASSUME NEW q \in Requests PROVE Budget(q)'
  <2>1. (Due(q)' => Due(q)) /\ (Filed(q)' => Filed(q))
    <3>1. kind[q] # "unused" => (FirstBegun(q)' <=> FirstBegun(q))
      BY DEF FirstBegun, Handling
    <3>2. Handling(q)' <=> Handling(q)
      BY DEF Handling
    <3> QED
      BY <3>1, <3>2 DEF Due, Filed
  <2> QED
    BY <1>1, <2>1, SpendsNothing
<1>3. FirstHasFile'
  BY DEF TInv, FirstHasFile
<1> QED
  BY <1>2, <1>3 DEF TInv

\* Steps of the consumer: what they do to the request at hand.
LEMMA AtHandTInv ==
  ASSUME TInv, RInv', GateTypeOK', Bounded', NEW r \in Requests,
         worker = AtRest \/ worker.r = r, worker' = AtRest \/ worker'.r = r,
         \A q \in Requests \ {r} : /\ kind'[q] = kind[q] /\ file'[q] = file[q] /\ pending'[q] = pending[q]
                                   /\ past'.executed[q] = past.executed[q],
         past'.crashes = past.crashes,
         worker'.pc \in {"cop", "ask"} => ~worker'.approved /\ (worker'.pc = "cop" => file'[r] = "tasks"),
         Budget(r)'
  PROVE  TInv'
<1>1. past' \in PastType
  BY DEF RInv, RequestsTyped
<1>2. ASSUME NEW q \in Requests \ {r} PROVE Budget(q)'
  BY <1>1, <1>2, OthersLeft, SpendsNothing
<1>3. FirstHasFile'
  BY DEF FirstHasFile, AtRest
<1> QED
  BY <1>2, <1>3 DEF TInv

LEMMA ContainerTInv ==
  ASSUME TInv, RInv', GateTypeOK', Bounded', past'.crashes = past.crashes,
         \/ SpawnContainer \/ ReleaseSlot \/ FollowUp \/ ContainerEnds \/ StartIpcWatcher \/ UNCHANGED request_vars
         \/ (\E s \in Tools : ProxyHandler(s))
         \/ (\E r \in Requests : ReadResponse(r) \/ RequestTimesOut(r) \/ \E d \in Decisions : HandleApprovalCommand(r, d))
  PROVE  TInv'
<1>1. past \in PastType
  BY DEF TInv, RInv, RequestsTyped
<1>2. worker' = worker /\ kind' = kind /\ file' = file /\ pending' = pending /\ past'.executed = past.executed
  <2>1. CASE SpawnContainer
    BY <1>1, <2>1 DEF SpawnContainer, files, PastType
  <2>2. CASE ReleaseSlot \/ FollowUp \/ ContainerEnds \/ StartIpcWatcher \/ UNCHANGED request_vars
    BY <2>2 DEF ReleaseSlot, FollowUp, ContainerEnds, StartIpcWatcher, request_vars, files
  <2>3. CASE \E s \in Tools : ProxyHandler(s)
    BY <2>3 DEF ProxyHandler, files
  <2>4. CASE \E r \in Requests : ReadResponse(r) \/ RequestTimesOut(r)
    BY <2>4 DEF ReadResponse, RequestTimesOut, files
  <2>5. ASSUME NEW r \in Requests, NEW d \in Decisions, HandleApprovalCommand(r, d)
        PROVE  worker' = worker /\ kind' = kind /\ file' = file /\ pending' = pending /\ past'.executed = past.executed
    BY <1>1, <2>5 DEF HandleApprovalCommand, PastType
  <2> QED
    BY <2>1, <2>2, <2>3, <2>4, <2>5
<1>3. worker.pc = "cop" => file'[worker.r] = "tasks"
  BY <1>2 DEF TInv, FirstHasFile
<1> QED
  BY <1>2, <1>3, QuietTInv

LEMMA ServiceRequestTInv ==
  ASSUME TInv, RInv', GateTypeOK', Bounded', NEW r \in Requests, NEW k \in RequestKinds, ServiceRequest(r, k)
  PROVE  TInv'
<1>1. /\ worker' = worker /\ pending' = pending /\ past' = past /\ kind[r] = "unused"
      /\ kind' = [kind EXCEPT ![r] = k] /\ file' = [file EXCEPT ![r] = "tasks"]
  BY DEF ServiceRequest
<1>2. kind \in [Requests -> RequestKinds \cup {"unused"}] /\ file \in [Requests -> {"none", "tasks", "errors"}]
      /\ (worker.pc = "cop" => worker.r \in Requests /\ file[worker.r] = "tasks")
  BY DEF TInv, RInv, RequestsTyped, FirstHasFile, AtRest
<1>3. k # "unused"
  BY ServicesAssumption DEF RequestKinds
<1>4. \A q \in Requests : /\ kind'[q] = "unused" => kind[q] = "unused"
                          /\ file'[q] = "tasks" => file[q] = "tasks" \/ kind[q] = "unused"
  BY <1>1, <1>2, <1>3
<1>5. worker.pc = "cop" => file'[worker.r] = "tasks"
  BY <1>1, <1>2
<1> QED
  BY <1>1, <1>4, <1>5, QuietTInv

LEMMA AnsweredTInv ==
  ASSUME TInv, RInv', GateTypeOK', Bounded', SweepEnds \/ \E r \in Requests : HandleAskUserAnswer(r)
  PROVE  TInv'
<1>1. past \in PastType /\ pending \in [Requests -> {"none", "service", "ipc", "question"}]
  BY DEF TInv, RInv, RequestsTyped
<1>2. /\ worker' = worker /\ kind' = kind /\ file' = file /\ past'.executed = past.executed /\ past'.crashes = past.crashes
      /\ \A q \in Requests : pending'[q] # "none" => pending[q] # "none"
  <2>1. CASE SweepEnds
    BY <1>1, <2>1 DEF SweepEnds
  <2>2. ASSUME NEW r \in Requests, HandleAskUserAnswer(r)
        PROVE  /\ worker' = worker /\ kind' = kind /\ file' = file /\ past'.executed = past.executed /\ past'.crashes = past.crashes
               /\ \A q \in Requests : pending'[q] # "none" => pending[q] # "none"
    BY <1>1, <2>2 DEF HandleAskUserAnswer, ResolvePendingQuestion, PastType
  <2> QED
    BY <2>1, <2>2
<1>3. worker.pc = "cop" => file'[worker.r] = "tasks"
  BY <1>2 DEF TInv, FirstHasFile
<1> QED
  BY <1>2, <1>3, QuietTInv

\* Of the request at hand, when the handling of its file or of a decision begins.
LEMMA AtRestLeft ==
  ASSUME worker = AtRest, NEW r
  PROVE  ~Handling(r) /\ (Due(r) <=> kind[r] = "unused" \/ file[r] = "tasks") /\ (Filed(r) <=> pending[r] # "none")
BY DEF Handling, FirstBegun, Due, Filed, AtRest

\* A call of the tool, by the one handling or the other.
LEMMA CallTInv ==
  ASSUME TInv, RInv', GateTypeOK', Bounded', NEW r \in Requests, NEW approved \in BOOLEAN,
         worker = AtRest \/ (worker.r = r /\ worker.pc = "cop"), past'.crashes = past.crashes,
         Turn("execute", r, approved), Executed(r), UNCHANGED <<kind, file, pending>>,
         IF approved THEN pending[r] # "none" /\ worker = AtRest ELSE file[r] = "tasks" /\ kind[r] # "unused"
  PROVE  TInv'
<1>1. past \in PastType /\ past' \in PastType
  BY DEF TInv, RInv, RequestsTyped
<1>2. /\ past'.executed[r] = past.executed[r] + 1
      /\ \A q \in Requests \ {r} : past'.executed[q] = past.executed[q]
  BY <1>1, PastExecuted
<1>3. worker' = [pc |-> "execute", r |-> r, approved |-> approved]
  BY DEF Turn
<1>4. worker'.r = r /\ worker'.pc = "execute" /\ worker'.approved = approved
  BY <1>3
<1>5. Handling(r)' /\ (FirstBegun(r)' <=> ~approved)
  BY <1>4 DEF Handling, FirstBegun
<1>6. Budget(r)'
  <2>1. CASE approved
    <3>1. Filed(r) /\ ~Filed(r)' /\ (Due(r)' => Due(r))
      BY <1>4, <1>5, <2>1, AtRestLeft DEF Filed, Due
    <3> QED
      BY <1>1, <1>2, <3>1, SpendsOnACall
  <2>2. CASE ~approved
    <3>1. Due(r) /\ ~Due(r)'
      BY <1>5, <2>2, AtRestLeft DEF Due, FirstBegun
    <3>2. Filed(r)' => Filed(r)
      <4>1. CASE worker = AtRest
        BY <4>1, AtRestLeft DEF Filed
      <4>2. CASE worker.r = r /\ worker.pc = "cop"
        BY <1>1, <4>2 DEF TInv, FirstHasFile, Filed
      <4> QED
        BY <4>1, <4>2
    <3> QED
      BY <1>1, <1>2, <3>1, <3>2, SpendsOnACall
  <2> QED
    BY <2>1, <2>2
<1> QED
  BY <1>2, <1>4, <1>6, AtHandTInv

\* The request is filed for a human and the human is being told.
LEMMA FilesTInv ==
  ASSUME TInv, RInv', GateTypeOK', Bounded', NEW r \in Requests,
         worker = AtRest \/ (worker.r = r /\ worker.pc = "cop"), past'.crashes = past.crashes,
         Turn("ask", r, FALSE), past'.executed = past.executed, UNCHANGED <<kind, file>>,
         \A q \in Requests \ {r} : pending'[q] = pending[q],
         file[r] = "tasks", kind[r] # "unused"
  PROVE  TInv'
<1>1. past' \in PastType
  BY DEF RInv, RequestsTyped
<1>2. worker'.r = r /\ worker'.pc = "ask" /\ worker'.approved = FALSE
  BY DEF Turn
<1>3. Due(r) /\ ~Due(r)'
  <2>1. Due(r)
    <3>1. CASE worker = AtRest
      BY <3>1, AtRestLeft
    <3>2. CASE worker.pc = "cop"
      BY <3>2 DEF Due, FirstBegun
    <3> QED
      BY <3>1, <3>2
  <2>2. ~Due(r)'
    BY <1>2 DEF Due, FirstBegun, Handling
  <2> QED
    BY <2>1, <2>2
<1>4. Budget(r)'
  BY <1>1, <1>3, SpendsTheFile
<1> QED
  BY <1>2, <1>4, AtHandTInv

\* A handling ends: the file is gone, or the filing, or the response is all there is.
LEMMA EndsTInv ==
  ASSUME TInv, RInv', GateTypeOK', Bounded', NEW r \in Requests, kind[r] # "unused",
         worker = AtRest \/ worker.r = r, past' = past, kind' = kind,
         \A q \in Requests \ {r} : pending'[q] = pending[q] /\ file'[q] = file[q],
         worker' = AtRest \/ (worker'.r = r /\ worker'.pc = "audit" /\ worker'.approved),
         file'[r] = "tasks" => Due(r),
         pending'[r] # "none" /\ worker' = AtRest => Filed(r)
  PROVE  TInv'
<1>1. past' \in PastType
  BY DEF RInv, RequestsTyped
<1>2. (Due(r)' => Due(r)) /\ (Filed(r)' => Filed(r))
  <2>1. CASE worker' = AtRest
    BY <2>1 DEF Due, Filed
  <2>2. CASE worker'.r = r /\ worker'.pc = "audit" /\ worker'.approved
    BY <2>2 DEF Due, Filed, Handling
  <2> QED
    BY <2>1, <2>2
<1>3. Budget(r)'
  BY <1>1, <1>2, SpendsNothing
<1>4. worker'.pc \notin {"cop", "ask"}
  BY DEF AtRest
<1> QED
  BY <1>3, <1>4, AtHandTInv

LEMMA FirstTInv ==
  ASSUME TInv, RInv', GateTypeOK', Bounded', NEW r \in Requests, past'.crashes = past.crashes,
         worker = AtRest, file[r] = "tasks", ProcessTaskFile(r)
  PROVE  TInv'
<1>1. /\ kind[r] # "unused" /\ past \in PastType /\ file \in [Requests -> {"none", "tasks", "errors"}]
      /\ pending \in [Requests -> {"none", "service", "ipc", "question"}]
  BY DEF TInv, RInv, RequestsTyped, RequestInv, Fresh
<1>2. Due(r) /\ (Filed(r) <=> pending[r] # "none")
  BY AtRestLeft
<1>3. ASSUME NEW what, Answers(r, what) PROVE TInv'
  <2>1. /\ worker' = AtRest /\ past' = past /\ kind' = kind /\ pending' = pending /\ file' = [file EXCEPT ![r] = "none"]
    BY <1>3 DEF Answers, Unlink
  <2> QED
    BY <1>1, <1>2, <2>1, EndsTInv
<1>4. ASSUME NEW t, CreatePendingApproval(r, t) PROVE TInv'
  <2>1. past'.executed = past.executed /\ Turn("ask", r, FALSE) /\ UNCHANGED <<kind, file>> /\ pending' = [pending EXCEPT ![r] = t]
    BY <1>1, <1>4, PastAsked DEF CreatePendingApproval
  <2> QED
    BY <1>1, <2>1, FilesTInv
<1>5. CASE CreatePendingQuestion(r) /\ Turn("ask", r, FALSE) /\ UNCHANGED <<kind, file, decision, response, past>>
  BY <1>1, <1>5, FilesTInv DEF CreatePendingQuestion
<1>6. CASE Turn("execute", r, FALSE) /\ Executed(r) /\ UNCHANGED files
  BY <1>1, <1>6, CallTInv DEF files
<1>7. CASE Starts(r, "cop")
  <2>1. /\ worker'.pc = "cop" /\ worker'.r = r /\ worker'.approved = FALSE /\ past' = past
        /\ kind' = kind /\ file' = file /\ pending' = pending
    BY <1>7 DEF Starts, Turn, files
  <2>2. (Due(r)' => Due(r)) /\ (Filed(r)' => Filed(r))
    BY <1>2, <2>1 DEF Filed
  <2>3. Budget(r)'
    BY <1>1, <2>1, <2>2, SpendsNothing
  <2> QED
    BY <2>1, <2>3, AtHandTInv
<1> QED
  BY <1>3, <1>4, <1>5, <1>6, <1>7, FirstOutcomes

LEMMA DecisionTInv ==
  ASSUME TInv, RInv', GateTypeOK', Bounded', NEW r \in Requests, past'.crashes = past.crashes,
         worker = AtRest, ProcessApprovalDecision(r)
  PROVE  TInv'
<1>1. /\ past \in PastType /\ pending \in [Requests -> {"none", "service", "ipc", "question"}]
      /\ (pending[r] # "none" => kind[r] # "unused")
  BY DEF TInv, RInv, RequestsTyped, RequestInv, Fresh, Untouched
<1>2. (Due(r) <=> kind[r] = "unused" \/ file[r] = "tasks") /\ (Filed(r) <=> pending[r] # "none")
  BY AtRestLeft
<1>3. CASE pending[r] = "none" /\ Discard(r) /\ worker' = AtRest /\ UNCHANGED <<kind, file, response, past>>
  <2>1. pending' = pending
    BY <1>1, <1>3 DEF Discard
  <2>2. worker' = worker /\ kind' = kind /\ file' = file /\ past' = past
    BY <1>3
  <2>3. worker.pc # "cop"
    BY DEF AtRest
  <2> QED
    BY <2>1, <2>2, <2>3, QuietTInv
<1>4. CASE pending[r] # "none" /\ Turn("audit", r, TRUE) /\ UNCHANGED <<kind, file, pending, past>>
  <2>1. worker'.r = r /\ worker'.pc = "audit" /\ worker'.approved = TRUE /\ worker' # AtRest
    BY <1>4 DEF Turn, AtRest
  <2> QED
    BY <1>1, <1>2, <1>4, <2>1, EndsTInv
<1>5. CASE pending[r] # "none" /\ Turn("execute", r, TRUE) /\ Executed(r) /\ UNCHANGED <<kind, file, pending>>
  BY <1>5, CallTInv
<1> QED
  BY <1>3, <1>4, <1>5 DEF ProcessApprovalDecision, ApprovedAgain

LEMMA HandlingTInv ==
  ASSUME TInv, RInv', GateTypeOK', Bounded', past'.crashes = past.crashes, CopGate \/ ToolEnds \/ Told \/ Audited
  PROVE  TInv'
<1>1. worker.pc # "idle" /\ UNCHANGED <<events, waiter, container>> /\ RInv
  BY DEF CopGate, ToolEnds, Told, Audited, TInv
<1>2. PICK r \in Requests : r = worker.r
  BY <1>1, AtHand
<1>3. Handling(r) /\ kind[r] # "unused"
  BY <1>1, <1>2, AtHand
<1>4. /\ past \in PastType /\ file \in [Requests -> {"none", "tasks", "errors"}]
      /\ pending \in [Requests -> {"none", "service", "ipc", "question"}]
  BY DEF TInv, RInv, RequestsTyped
<1>5. FirstHasFile
  BY DEF TInv
\* A first handling that ends, with the file gone.
<1>6. ASSUME ~worker.approved, worker' = AtRest, past' = past, kind' = kind, pending' = pending,
             NEW to \in {"none", "errors"}, file' = [file EXCEPT ![r] = to]
      PROVE  TInv'
  <2>1. pending[r] # "none" => Filed(r)
    BY <1>6 DEF Filed
  <2> QED
    BY <1>2, <1>3, <1>4, <1>6, <2>1, EndsTInv
<1>7. CASE CopGate
  <2>1. worker.pc = "cop" /\ ~worker.approved /\ file[r] = "tasks"
    BY <1>2, <1>5, <1>7 DEF CopGate, FirstHasFile
  <2>2. CASE Turn("execute", r, FALSE) /\ Executed(r) /\ UNCHANGED files
    BY <1>2, <1>3, <2>1, <2>2, CallTInv DEF files
  <2>3. CASE CreatePendingApproval(r, "ipc")
    <3>1. past'.executed = past.executed /\ Turn("ask", r, FALSE) /\ UNCHANGED <<kind, file>> /\ pending' = [pending EXCEPT ![r] = "ipc"]
      BY <1>4, <2>3, PastAsked DEF CreatePendingApproval
    <3> QED
      BY <1>2, <1>3, <1>4, <2>1, <3>1, FilesTInv
  <2>4. CASE file' = [file EXCEPT ![r] = "errors"] /\ worker' = AtRest /\ UNCHANGED <<kind, pending, decision, response, past>>
    BY <1>6, <2>1, <2>4
  <2> QED
    BY <1>2, <1>7, <2>2, <2>3, <2>4 DEF CopGate
<1>8. CASE ToolEnds
  <2>1. CASE worker.approved
    <3>1. Turn("audit", r, TRUE) /\ UNCHANGED <<kind, file, pending, past>>
      BY <1>2, <1>8, <2>1 DEF ToolEnds
    <3>2. worker'.r = r /\ worker'.pc = "audit" /\ worker'.approved = TRUE /\ worker' # AtRest
      BY <3>1 DEF Turn, AtRest
    <3>3. file[r] = "tasks" => Due(r)
      BY <2>1 DEF Due, FirstBegun
    <3> QED
      BY <1>2, <1>3, <3>1, <3>2, <3>3, EndsTInv
  <2>2. CASE ~worker.approved
    <3>1. CASE Answers(r, "result")
      <4>1. worker' = AtRest /\ past' = past /\ kind' = kind /\ pending' = pending /\ file' = [file EXCEPT ![r] = "none"]
        BY <3>1 DEF Answers, Unlink
      <4> QED
        BY <1>6, <2>2, <4>1
    <3>2. CASE file' = [file EXCEPT ![r] = "errors"] /\ worker' = AtRest /\ UNCHANGED <<kind, pending, decision, response, past>>
      BY <1>6, <2>2, <3>2
    <3> QED
      BY <1>2, <1>8, <2>2, <3>1, <3>2 DEF ToolEnds
  <2> QED
    BY <2>1, <2>2
<1>9. CASE Told
  <2>1. ~worker.approved
    BY <1>5, <1>9 DEF Told, FirstHasFile
  <2> QED
    BY <1>2, <1>6, <1>9, <2>1 DEF Told
<1>10. CASE Audited
  <2>1. /\ worker' = AtRest /\ UNCHANGED <<kind, file, past>> /\ pending' = [pending EXCEPT ![r] = "none"]
        /\ worker.pc = "audit"
    BY <1>2, <1>10 DEF Audited, Discard
  <2>2. (file'[r] = "tasks" => Due(r)) /\ pending'[r] = "none"
    BY <1>4, <2>1 DEF Due, FirstBegun
  <2> QED
    BY <1>2, <1>3, <1>4, <2>1, <2>2, EndsTInv
<1> QED
  BY <1>7, <1>8, <1>9, <1>10

LEMMA WatcherCrashTInv ==
  ASSUME TInv, RInv', GateTypeOK', Bounded', WatcherCrash
  PROVE  TInv'
<1>1. past \in PastType /\ past' \in PastType
  BY DEF TInv, RInv, RequestsTyped
<1>2. worker' = AtRest /\ kind' = kind /\ file' = file /\ pending' = pending
  BY DEF WatcherCrash, files
<1>3. past'.executed = past.executed /\ past'.crashes = past.crashes + 1
  BY <1>1 DEF WatcherCrash, PastType
<1>4. ASSUME NEW q \in Requests PROVE Budget(q)'
  <2>1. CASE Handling(q) /\ worker.approved
    <3>1. Due(q)' => Due(q)
      BY <1>2, <2>1 DEF Due, FirstBegun
    <3> QED
      BY <1>1, <1>3, <3>1, SpendsACrash
  <2>2. CASE ~(Handling(q) /\ worker.approved)
    <3>1. Filed(q)' => Filed(q)
      BY <1>2, <2>2 DEF Filed
    <3> QED
      BY <1>1, <1>3, <3>1, SpendsACrash
  <2> QED
    BY <2>1, <2>2
<1>5. FirstHasFile'
  BY <1>2 DEF FirstHasFile, AtRest
<1> QED
  BY <1>4, <1>5 DEF TInv

LEMMA NextTInv == TInv /\ [RequestNext]_request_vars => TInv'
<1> SUFFICES ASSUME TInv, [RequestNext]_request_vars PROVE TInv'
  OBVIOUS
<1>1. RInv'
  BY NextRInv DEF TInv
<1>2. GateTypeOK'
  <2>1. CASE UNCHANGED request_vars
    BY <2>1 DEF TInv, request_vars, GateTypeOK
  <2> QED
    BY <2>1, GateStep DEF TInv
<1>3. Bounded' /\ (~WatcherCrash => past'.crashes = past.crashes)
  <2>1. /\ past'.crashes <= MaxCrashes /\ past'.spawns <= MaxSpawns /\ past'.decisions <= MaxDecisions
        /\ (~WatcherCrash => past'.crashes = past.crashes)
    <3>1. RequestsTyped'
      BY <1>1 DEF RInv
    <3> QED
      BY <3>1, PastOf
  <2>2. watcher \in {"down", "sweep", "ready"} /\ container \in {"none", "run", "warm"}
    BY DEF TInv, Bounded
  <2>3. watcher' \in {"down", "sweep", "ready"} /\ container' \in {"none", "run", "warm"}
    <3>1. CASE UNCHANGED request_vars
      BY <2>2, <3>1 DEF request_vars
    <3>2. CASE WatcherStep
      BY <2>2, <3>2 DEF WatcherStep, ProcessQueue, CopGate, ToolEnds, Told, Audited, StartIpcWatcher, SweepEnds
    <3>3. CASE SpawnContainer \/ ReleaseSlot \/ FollowUp \/ ContainerEnds \/ WatcherCrash \/ \E s \in Tools : ProxyHandler(s)
      BY <2>2, <3>3 DEF SpawnContainer, ReleaseSlot, FollowUp, ContainerEnds, WatcherCrash, ProxyHandler
    <3>4. ASSUME NEW r \in Requests,
                 \/ \E k \in RequestKinds : ServiceRequest(r, k)
                 \/ ReadResponse(r) \/ RequestTimesOut(r) \/ HandleAskUserAnswer(r)
                 \/ \E d \in Decisions : HandleApprovalCommand(r, d)
          PROVE  watcher' = watcher /\ container' = container
      BY <3>4 DEF ServiceRequest, ReadResponse, RequestTimesOut, HandleAskUserAnswer, HandleApprovalCommand
    <3> QED
      BY <2>2, <3>1, <3>2, <3>3, <3>4 DEF RequestNext
  <2> QED
    BY <2>1, <2>3 DEF Bounded
<1>4. CASE WatcherCrash
  BY <1>1, <1>2, <1>3, <1>4, WatcherCrashTInv
<1> SUFFICES ASSUME ~WatcherCrash PROVE TInv'
  BY <1>4
<1>5. CASE \/ SpawnContainer \/ ReleaseSlot \/ FollowUp \/ ContainerEnds \/ StartIpcWatcher \/ UNCHANGED request_vars
           \/ (\E s \in Tools : ProxyHandler(s))
           \/ (\E r \in Requests : ReadResponse(r) \/ RequestTimesOut(r) \/ \E d \in Decisions : HandleApprovalCommand(r, d))
  BY <1>1, <1>2, <1>3, <1>5, ContainerTInv
<1>6. CASE \E r \in Requests, k \in RequestKinds : ServiceRequest(r, k)
  BY <1>1, <1>2, <1>3, <1>6, ServiceRequestTInv
<1>7. CASE SweepEnds \/ \E r \in Requests : HandleAskUserAnswer(r)
  BY <1>1, <1>2, <1>3, <1>7, AnsweredTInv
<1>8. CASE CopGate \/ ToolEnds \/ Told \/ Audited
  BY <1>1, <1>2, <1>3, <1>8, HandlingTInv
<1>9. CASE ProcessQueue
  <2>1. worker = AtRest
    BY <1>9, QueueTakes DEF TInv
  <2>2. PICK r \in Requests : \/ file[r] = "tasks" /\ ProcessTaskFile(r)
                              \/ ProcessApprovalDecision(r)
                              \/ UNCHANGED <<files, worker, past>>
    BY <1>9, QueueTakes DEF TInv
  <2>3. CASE file[r] = "tasks" /\ ProcessTaskFile(r)
    BY <1>1, <1>2, <1>3, <2>1, <2>3, FirstTInv
  <2>4. CASE ProcessApprovalDecision(r)
    BY <1>1, <1>2, <1>3, <2>1, <2>4, DecisionTInv
  <2>5. CASE UNCHANGED <<files, worker, past>>
    <3>1. worker' = worker /\ kind' = kind /\ file' = file /\ pending' = pending /\ past' = past /\ worker.pc # "cop"
      BY <2>1, <2>5 DEF files, AtRest
    <3> QED
      BY <1>1, <1>2, <1>3, <3>1, QuietTInv
  <2> QED
    BY <2>2, <2>3, <2>4, <2>5
<1> QED
  BY <1>5, <1>6, <1>7, <1>8, <1>9 DEF RequestNext, WatcherStep

LEMMA InitTInv == RequestInit => TInv
<1> SUFFICES ASSUME RequestInit PROVE TInv
  OBVIOUS
<1>1. RInv
  BY InitRInv
<1>2. /\ watcher = "down" /\ worker = AtRest /\ container = "none" /\ gate = NoGate
      /\ kind = [r \in Requests |-> "unused"] /\ pending = [r \in Requests |-> "none"]
      /\ past.crashes = 0 /\ past.spawns = 0 /\ past.decisions = 0 /\ past.executed = [r \in Requests |-> 0]
  BY DEF RequestInit
<1>3. GateTypeOK /\ Bounded /\ FirstHasFile
  BY <1>2, RequestBounds DEF GateTypeOK, Bounded, FirstHasFile, AtRest
<1>4. ASSUME NEW r \in Requests PROVE Budget(r)
  <2>1. past.executed[r] = 0 /\ ~Filed(r)
    BY <1>2 DEF Filed
  <2> QED
    BY <1>2, <2>1 DEF Budget
<1> QED
  BY <1>1, <1>3, <1>4 DEF TInv

\* A tool is called once for a request, and once more for each death of the process
\* at most: what can still lead to a call is counted with the calls
\* (ipc/_watcher.py, ipc/handlers_approval.py).
THEOREM CallsAreCounted == RequestSpec => []TInv
BY InitTInv, NextTInv, PTL DEF RequestSpec

\* Every variable of the requests has its type, with those bounds.
THEOREM RequestsStayTyped == RequestSpec => []RequestTypeOK
BY CallsAreCounted, RequestTypes, PTL
=============================================================================
