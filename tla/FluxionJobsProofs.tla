------------------------- MODULE FluxionJobsProofs -------------------------
(***************************************************************************)
(* What the queue manager, the resource module and the job manager think    *)
(* of the jobs, over all interleavings of their messages.                   *)
(***************************************************************************)
EXTENDS FluxionModulesProofs

(***************************************************************************)
(* Sequences of jobs.                                                      *)
(***************************************************************************)
\* No element occurs twice.
Distinct(s) == \A i, k \in DOMAIN s : i # k => s[i] # s[k]

\* Without the first element.
LEMMA TailSet ==
    ASSUME NEW S, NEW s \in Seq(S), s # << >>, Distinct(s)
    PROVE  Distinct(Tail(s)) /\ ToSet(Tail(s)) = ToSet(s) \ {Head(s)} /\ Head(s) \in ToSet(s)
<1> DEFINE n == Len(s)
           t == Tail(s)
<1>1. n \in Nat /\ n # 0 /\ DOMAIN s = 1..n
  OBVIOUS
<1>2. t \in Seq(S) /\ Len(t) = n - 1 /\ Head(s) = s[1] /\ \A i \in 1..(n - 1) : t[i] = s[i + 1]
  BY Shorter
<1>3. DOMAIN t = 1..(n - 1)
  BY <1>2
<1> HIDE DEF n, t
<1>4. \A i \in 1..(n - 1) : i + 1 \in 1..n /\ i + 1 # 1
  BY <1>1
<1>5. \A i \in 1..n : i # 1 => i - 1 \in 1..(n - 1) /\ (i - 1) + 1 = i
  BY <1>1
<1>6. \A i, k \in 1..(n - 1) : i # k => i + 1 # k + 1
  BY <1>1
<1>7. 1 \in 1..n
  BY <1>1
<1>8. Distinct(t)
  <2> SUFFICES ASSUME NEW i \in 1..(n - 1), NEW k \in 1..(n - 1), i # k PROVE t[i] # t[k]
    BY <1>3 DEF Distinct
  <2>1. i + 1 \in DOMAIN s /\ k + 1 \in DOMAIN s /\ i + 1 # k + 1
    BY <1>1, <1>4, <1>6
  <2>2. s[i + 1] # s[k + 1]
    BY <2>1 DEF Distinct
  <2> QED BY <1>2, <2>2
<1> DEFINE h == s[1]
<1>9. ASSUME NEW x \in ToSet(t) PROVE x \in ToSet(s) /\ x # h
  <2>1. PICK i \in 1..(n - 1) : x = t[i]
    BY <1>3, <1>9 DEF ToSet
  <2> QED BY <1>1, <1>2, <1>4, <1>7, <2>1 DEF ToSet, Distinct
<1>10. ASSUME NEW x \in ToSet(s), x # h PROVE x \in ToSet(t)
  <2>1. PICK i \in 1..n : x = s[i]
    BY <1>1, <1>10 DEF ToSet
  <2>2. i # 1
    BY <1>10, <2>1
  <2>3. x = t[i - 1]
    BY <1>2, <1>5, <2>1, <2>2
  <2> QED BY <1>3, <1>5, <2>2, <2>3 DEF ToSet
<1>11. h \in ToSet(s)
  BY <1>1, <1>7 DEF ToSet
<1> QED BY <1>2, <1>8, <1>9, <1>10, <1>11 DEF t

\* With one more element.
LEMMA AppendSet ==
    ASSUME NEW S, NEW s \in Seq(S), NEW x \in S
    PROVE  /\ ToSet(Append(s, x)) = ToSet(s) \cup {x}
           /\ Distinct(s) /\ x \notin ToSet(s) => Distinct(Append(s, x))
<1> DEFINE n == Len(s)
           t == Append(s, x)
<1>1. n \in Nat /\ DOMAIN s = 1..n /\ DOMAIN t = 1..(n + 1)
  OBVIOUS
<1>2. t[n + 1] = x /\ \A i \in 1..n : t[i] = s[i]
  OBVIOUS
<1> HIDE DEF n, t
<1>3. n + 1 \in 1..(n + 1) /\ \A i : i \in 1..(n + 1) <=> i \in 1..n \/ i = n + 1
  BY <1>1
<1>4. ToSet(t) = ToSet(s) \cup {x}
  BY <1>1, <1>2, <1>3 DEF ToSet
<1>5. ASSUME Distinct(s), x \notin ToSet(s) PROVE Distinct(t)
  BY <1>1, <1>2, <1>3, <1>5 DEF ToSet, Distinct
<1> QED BY <1>4, <1>5 DEF t

\* One sequence after the other.
LEMMA ConcatSet ==
    ASSUME NEW S, NEW s \in Seq(S), NEW t \in Seq(S)
    PROVE  /\ ToSet(s \o t) = ToSet(s) \cup ToSet(t)
           /\ Distinct(s) /\ Distinct(t) /\ ToSet(s) \cap ToSet(t) = {} => Distinct(s \o t)
<1> DEFINE n == Len(s)
           m == Len(t)
           u == s \o t
<1>1. n \in Nat /\ m \in Nat /\ DOMAIN s = 1..n /\ DOMAIN t = 1..m
  OBVIOUS
<1>2. /\ DOMAIN u = 1..(n + m)
      /\ \A i \in 1..n : u[i] = s[i]
      /\ \A i \in 1..m : u[n + i] = t[i]
  BY InARow
<1> HIDE DEF n, m, u
<1>3. \A i \in 1..(n + m) : i \in 1..n \/ (i - n \in 1..m /\ n + (i - n) = i)
  BY <1>1
<1>4. (\A i \in 1..n : i \in 1..(n + m)) /\ (\A i \in 1..m : n + i \in 1..(n + m))
  BY <1>1
<1>5. \A i, k \in 1..(n + m) : i # k => i - n # k - n
  BY <1>1
<1>6. \A i \in 1..(n + m) : \/ i \in 1..n /\ u[i] = s[i]
                            \/ i - n \in 1..m /\ u[i] = t[i - n]
  BY <1>2, <1>3
<1>7. ToSet(u) = ToSet(s) \cup ToSet(t)
  <2>1. ASSUME NEW x \in ToSet(u) PROVE x \in ToSet(s) \cup ToSet(t)
    BY <1>1, <1>2, <1>6, <2>1 DEF ToSet
  <2>2. ASSUME NEW x \in ToSet(s) PROVE x \in ToSet(u)
    BY <1>1, <1>2, <1>4, <2>2 DEF ToSet
  <2>3. ASSUME NEW x \in ToSet(t) PROVE x \in ToSet(u)
    BY <1>1, <1>2, <1>4, <2>3 DEF ToSet
  <2> QED BY <2>1, <2>2, <2>3
<1>8. ASSUME Distinct(s), Distinct(t), ToSet(s) \cap ToSet(t) = {} PROVE Distinct(u)
  <2> SUFFICES ASSUME NEW i \in 1..(n + m), NEW k \in 1..(n + m), i # k PROVE u[i] # u[k]
    BY <1>2 DEF Distinct
  <2>1. \A a \in 1..n, b \in 1..m : s[a] # t[b]
    BY <1>1, <1>8 DEF ToSet
  <2> QED BY <1>1, <1>5, <1>6, <1>8, <2>1 DEF Distinct
<1> QED BY <1>7, <1>8 DEF u

\* The first elements.
LEMMA PrefixSet ==
    ASSUME NEW S, NEW s \in Seq(S), NEW n \in Nat, n <= Len(s)
    PROVE  /\ ToSet(SubSeq(s, 1, n)) \subseteq ToSet(s)
           /\ Distinct(s) => Distinct(SubSeq(s, 1, n))
<1> DEFINE t == SubSeq(s, 1, n)
           m == Len(s)
<1>1. m \in Nat /\ DOMAIN s = 1..m /\ DOMAIN t = 1..n /\ \A i \in 1..n : t[i] = s[i]
  OBVIOUS
<1>2. \A i \in 1..n : i \in 1..m
  OBVIOUS
<1> HIDE DEF t, m
<1>3. ToSet(t) \subseteq ToSet(s)
  BY <1>1, <1>2 DEF ToSet
<1>4. Distinct(s) => Distinct(t)
  BY <1>1, <1>2 DEF Distinct
<1> QED BY <1>3, <1>4 DEF t

-----------------------------------------------------------------------------
(***************************************************************************)
(* A queue: a job is in one place of it.                                   *)
(***************************************************************************)
\* The jobs that wait, and those with an allocation the job manager has not seen.
Pend(q) == ToSet(q.pending) \cup ToSet(q.provisional)

Given(q) == {a.j : a \in ToSet(q.alloced)}

Tidy(q) ==
    /\ Distinct(q.pending) /\ Distinct(q.provisional)
    /\ ToSet(q.pending) \cap ToSet(q.provisional) = {}
    /\ Given(q) \cap Pend(q) = {} /\ Given(q) \subseteq q.running

\* A loop starts: the jobs that came are behind those that waited.
LEMMA LoopTidy ==
    ASSUME NEW q, QueueTyped(q), Tidy(q)
    PROVE  LET l == run_sched_loop(q)
           IN  /\ Tidy(l) /\ Pend(l) = Pend(q) /\ l.alloced = q.alloced /\ l.running = q.running
<1> DEFINE l == run_sched_loop(q)
           a == q.pending
           b == q.provisional
           p == a \o b
<1>1. CASE q.active
  BY <1>1 DEF run_sched_loop
<1>2. CASE ~q.active
  <2>1. a \in Seq(Job) /\ b \in Seq(Job)
    BY DEF QueueTyped
  <2>2. l.pending = p /\ l.provisional = << >> /\ l.alloced = q.alloced /\ l.running = q.running
    BY <1>2 DEF run_sched_loop, QueueTyped, QueueFields
  <2>3. ToSet(p) = ToSet(a) \cup ToSet(b) /\ Distinct(p)
    BY <2>1, ConcatSet DEF Tidy
  <2> HIDE DEF l, p
  <2>4. ToSet(<< >>) = {} /\ Distinct(<< >>)
    BY DEF ToSet, Distinct
  <2>5. Pend(l) = Pend(q)
    BY <2>2, <2>3, <2>4 DEF Pend
  <2>6. Given(l) = Given(q)
    BY <2>2 DEF Given
  <2>7. Tidy(l)
    BY <2>2, <2>3, <2>4, <2>5, <2>6 DEF Tidy
  <2> QED BY <1>2, <2>2, <2>5, <2>7 DEF l
<1> QED BY <1>1, <1>2

\* The answers have been sent.
LEMMA SentTidy ==
    ASSUME NEW q, QueueTyped(q), Tidy(q)
    PROVE  LET l == [q EXCEPT !.alloced = << >>, !.rejected = << >>]
           IN  /\ Tidy(l) /\ Pend(l) = Pend(q) /\ l.running = q.running
               /\ Given(l) = {} /\ ToSet(l.alloced) = {}
<1> DEFINE l == [q EXCEPT !.alloced = << >>, !.rejected = << >>]
<1>1. /\ l.pending = q.pending /\ l.provisional = q.provisional /\ l.running = q.running
      /\ l.alloced = << >>
  BY DEF QueueTyped, QueueFields
<1> HIDE DEF l
<1>2. ToSet(<< >>) = {}
  BY DEF ToSet
<1>3. Given(l) = {} /\ Pend(l) = Pend(q)
  BY <1>1, <1>2 DEF Given, Pend
<1>4. Tidy(l)
  BY <1>1, <1>3 DEF Tidy
<1> QED BY <1>1, <1>2, <1>3, <1>4 DEF l

\* A job comes.
LEMMA InsertTidy ==
    ASSUME NEW q, QueueTyped(q), Tidy(q), NEW j \in Job, j \notin Pend(q), j \notin Given(q)
    PROVE  LET l == [q EXCEPT !.provisional = Append(q.provisional, j), !.sched = TRUE]
           IN  /\ Tidy(l) /\ Pend(l) = Pend(q) \cup {j}
               /\ l.alloced = q.alloced /\ l.running = q.running
<1> DEFINE b == q.provisional
           p == Append(b, j)
           l == [q EXCEPT !.provisional = p, !.sched = TRUE]
<1>1. b \in Seq(Job)
  BY DEF QueueTyped
<1>2. ToSet(p) = ToSet(b) \cup {j} /\ Distinct(p)
  BY <1>1, AppendSet DEF Tidy, Pend
<1> HIDE DEF p
<1>3. l.pending = q.pending /\ l.provisional = p /\ l.running = q.running /\ l.alloced = q.alloced
  BY DEF QueueTyped, QueueFields
<1> HIDE DEF l
<1>4. Pend(l) = Pend(q) \cup {j} /\ Given(l) = Given(q)
  BY <1>2, <1>3 DEF Pend, Given
<1>5. Tidy(l)
  BY <1>2, <1>3, <1>4 DEF Tidy, Pend
<1> QED BY <1>3, <1>4, <1>5 DEF l, p

\* A success: the first job that waits has its answer, if it is the job of the answer.
LEMMA SuccessTidy ==
    ASSUME NEW q, QueueTyped(q), Tidy(q), NEW m \in Result
    PROVE  LET l == handle_match_success(q, m)
           IN  /\ Tidy(l) /\ Pend(l) \cup Given(l) \subseteq Pend(q) \cup Given(q)
               /\ q.running \subseteq l.running
               /\ ToSet(l.alloced) \subseteq ToSet(q.alloced) \cup {[j |-> m.j, R |-> m.R]}
<1> DEFINE l == handle_match_success(q, m)
           p == q.pending
           j == m.j
           x == [j |-> j, R |-> m.R]
<1>1. CASE ~q.active \/ p = << >> \/ Head(p) # j
  <2>1. l = q
    BY <1>1 DEF handle_match_success
  <2> HIDE DEF l
  <2> QED BY <2>1 DEF l
<1>2. CASE q.active /\ p # << >> /\ Head(p) = j
  <2> DEFINE y == q.alloced
             z == Append(y, x)
             t == Tail(p)
             A == [j : Job, R : GivenR]
  <2>1. p \in Seq(Job) /\ y \in Seq(A)
    BY DEF QueueTyped
  <2>2. Distinct(t) /\ ToSet(t) = ToSet(p) \ {j} /\ j \in ToSet(p) /\ j \in Job
    BY <1>2, <2>1, TailSet DEF Tidy
  <2>3. x \in A /\ x.j = j
    <3>1. m.R \in GivenR
      BY DEF Result
    <3> QED BY <2>2, <3>1
  <2> HIDE DEF x, A, y
  <2>4. ToSet(z) = ToSet(y) \cup {x}
    BY <2>1, <2>3, AppendSet
  <2> HIDE DEF z
  <2>5. l = [q EXCEPT !.pending = t, !.alloced = z, !.running = q.running \cup {j}]
    BY <1>2 DEF handle_match_success, x, y, z, QueueTyped, QueueFields
  <2> HIDE DEF t, p, j
  <2>6. /\ l.pending = t /\ l.alloced = z /\ l.running = q.running \cup {j}
        /\ l.provisional = q.provisional
    BY <2>5 DEF QueueTyped, QueueFields
  <2> HIDE DEF l
  <2>7. Given(l) = Given(q) \cup {j}
    BY <2>3, <2>4, <2>6 DEF Given, y
  <2>8. Pend(l) = Pend(q) \ {j} /\ j \in Pend(q)
    <3>1. j \notin ToSet(q.provisional)
      BY <2>2 DEF Tidy, p
    <3> QED BY <2>2, <2>6, <3>1 DEF Pend, p
  <2>9. Tidy(l)
    <3>1. ToSet(l.pending) \cap ToSet(l.provisional) = {}
      BY <2>2, <2>6 DEF Tidy, p
    <3> QED BY <2>2, <2>6, <2>7, <2>8, <3>1 DEF Tidy
  <2> QED BY <2>2, <2>4, <2>6, <2>7, <2>8, <2>9 DEF l, p, y, x, j
<1> QED BY <1>1, <1>2

\* The end of a loop: a job that is rejected is the first that waits.
LEMMA FailureTidy ==
    ASSUME NEW q, QueueTyped(q), Tidy(q), NEW m
    PROVE  LET l == handle_match_failure(q, m)
           IN  /\ Tidy(l) /\ Pend(l) \cup Given(l) \subseteq Pend(q) \cup Given(q)
               /\ l.running = q.running /\ l.alloced = q.alloced
<1> DEFINE l == handle_match_failure(q, m)
           p == q.pending
           t == l.pending
<1>1. /\ t = p \/ t = Tail(p)
      /\ l.provisional = q.provisional /\ l.running = q.running /\ l.alloced = q.alloced
  BY DEF handle_match_failure, QueueTyped, QueueFields
<1>2. Distinct(t) /\ ToSet(t) \subseteq ToSet(p)
  <2>1. CASE t = p
    BY <2>1 DEF Tidy
  <2>2. CASE p # << >> /\ t = Tail(p)
    <3>1. p \in Seq(Job)
      BY DEF QueueTyped
    <3> QED BY <2>2, <3>1, TailSet DEF Tidy
  <2>3. CASE p = << >>
    <3>1. Tail(<< >>) = << >>
      OBVIOUS
    <3> QED BY <1>1, <2>1, <2>3, <3>1
  <2> QED BY <1>1, <2>1, <2>2, <2>3
<1> HIDE DEF l
<1>3. Given(l) = Given(q) /\ Pend(l) \subseteq Pend(q)
  BY <1>1, <1>2 DEF Given, Pend
<1>4. Tidy(l)
  BY <1>1, <1>2, <1>3 DEF Tidy
<1> QED BY <1>1, <1>3, <1>4 DEF l

-----------------------------------------------------------------------------
(***************************************************************************)
(* The queue manager: what its steps do to the places of a job.            *)
(***************************************************************************)
\* What is loaded is not Off.
LEMMA QmIsOn ==
    ASSUME NEW x, DOMAIN x = QmFields
    PROVE  x # Off
<1>1. "st" \in DOMAIN x /\ "st" \notin DOMAIN Off
  BY DEF QmFields, Off
<1> QED BY <1>1

\* The queues are the same and no job is moved in them; what they know to run may change.
Unmoved ==
    /\ qm # Off /\ qm' # Off /\ qm'.parents = qm.parents /\ DOMAIN qm'.queues = DOMAIN qm.queues
    /\ \A n \in DOMAIN qm.queues :
          LET q == qm.queues[n]
              l == qm'.queues[n]
          IN  l.pending = q.pending /\ l.provisional = q.provisional /\ l.alloced = q.alloced

\* The handshake with the resource module, or a wake-up.
LEMMA WokenEffect ==
    ASSUME QmTyped, update_on_resource_response, ~qmanager_destroy
    PROVE  /\ Unmoved /\ jm' = jm
           /\ \A n \in DOMAIN qm.queues : qm'.queues[n].running = qm.queues[n].running
           /\ qm.st = "resource" => qm'.todo = Running /\ (qm'.st = "jobs" \/ Running = {})
           /\ qm.st = "resource" \/ (qm.st = "ready" /\ qm'.st = "ready")
<1> DEFINE woken == [n \in DOMAIN qm.queues |-> [qm.queues[n] EXCEPT !.sched = TRUE]]
<1>1. /\ qm # Off /\ qm.st \in {"resource", "ready"} /\ jm' = jm
      /\ qm' = [qm EXCEPT !.queues = woken, !.todo = IF qm.st = "resource" THEN Running ELSE @,
                          !.st = IF qm.st = "resource" /\ Running # {} THEN "jobs" ELSE "ready"]
  BY DEF update_on_resource_response
<1>2. ASSUME NEW n \in DOMAIN qm.queues
      PROVE  LET q == qm.queues[n]
                 l == woken[n]
             IN  /\ l.pending = q.pending /\ l.provisional = q.provisional /\ l.alloced = q.alloced
                 /\ l.running = q.running
  <2> DEFINE q == qm.queues[n]
  <2>1. QueueTyped(q) /\ woken[n] = [q EXCEPT !.sched = TRUE]
    BY <1>1, <1>2 DEF QmTyped
  <2> HIDE DEF q, woken
  <2> QED BY <2>1 DEF QueueTyped, QueueFields, q
<1>3. DOMAIN woken = DOMAIN qm.queues
  OBVIOUS
<1> HIDE DEF woken
<1>4. /\ DOMAIN qm' = QmFields /\ qm'.queues = woken /\ qm'.parents = qm.parents
      /\ qm'.todo = IF qm.st = "resource" THEN Running ELSE qm.todo
      /\ qm'.st = IF qm.st = "resource" /\ Running # {} THEN "jobs" ELSE "ready"
  BY <1>1 DEF QmTyped, QmFields
<1>5. qm' # Off
  BY <1>4, QmIsOn
<1>6. Unmoved
  BY <1>1, <1>2, <1>3, <1>4, <1>5 DEF Unmoved
<1> QED BY <1>1, <1>2, <1>4, <1>6

\* Somebody asks whether the queue manager is idle, or is answered.
LEMMA QuietEffect ==
    ASSUME QmTyped, quiescent_request_cb \/ process_pending_quiescent_requests
    PROVE  /\ Unmoved /\ jm' = jm /\ qm'.queues = qm.queues /\ qm'.st = qm.st /\ qm'.todo = qm.todo
<1>1. /\ qm # Off /\ DOMAIN qm' = DOMAIN qm /\ qm'.queues = qm.queues /\ qm'.todo = qm.todo
      /\ qm'.st = qm.st /\ qm'.parents = qm.parents /\ jm' = jm
  BY DEF quiescent_request_cb, process_pending_quiescent_requests, QmTyped, QmFields
<1>2. qm' # Off
  BY <1>1, QmIsOn DEF QmTyped
<1> QED BY <1>1, <1>2 DEF Unmoved

\* A job that ran before the queue manager came.
LEMMA HelloEffect ==
    ASSUME QmTyped, NEW j \in Job, jobmanager_hello_cb(j)
    PROVE  LET n == queue_of(j)
               u == IF n \notin DOMAIN qm.queues THEN Error(rm)
                    ELSE reapi_update_allocate(rm, j, WithFreeRanks(HelloR(j), jm[j].freed))
           IN  /\ Unmoved /\ reqs = << >> /\ reqs' = reqs /\ toQm' = toQm /\ rm' = u.ctx
               /\ jm' = IF u.ok THEN jm ELSE [jm EXCEPT ![j].st = "killed"]
               /\ qm.st = "jobs" /\ j \in qm.todo /\ qm'.todo = qm.todo \ {j}
               /\ qm'.st = IF qm.todo = {j} THEN "ready" ELSE "jobs"
               /\ \A k \in DOMAIN qm.queues : qm.queues[k].running \subseteq qm'.queues[k].running
               /\ u.ok => n \in DOMAIN qm.queues /\ j \in qm'.queues[n].running
<1> DEFINE n == queue_of(j)
           u == IF n \notin DOMAIN qm.queues THEN Error(rm)
                ELSE reapi_update_allocate(rm, j, WithFreeRanks(HelloR(j), jm[j].freed))
           Q == IF u.ok THEN [qm.queues EXCEPT ![n].running = @ \cup {j}] ELSE qm.queues
<1>1. /\ qm # Off /\ qm.st = "jobs" /\ j \in qm.todo /\ reqs = << >> /\ reqs' = reqs /\ toQm' = toQm
      /\ rm' = u.ctx /\ jm' = IF u.ok THEN jm ELSE [jm EXCEPT ![j].st = "killed"]
      /\ qm' = [qm EXCEPT !.todo = @ \ {j}, !.st = IF qm.todo = {j} THEN "ready" ELSE @, !.queues = Q]
  BY DEF jobmanager_hello_cb
<1>2. n \notin DOMAIN qm.queues => ~u.ok
  BY DEF Error
<1> HIDE DEF u, n
<1>3. ASSUME NEW k \in DOMAIN qm.queues
      PROVE  LET q == qm.queues[k]
                 l == Q[k]
             IN  /\ l.pending = q.pending /\ l.provisional = q.provisional /\ l.alloced = q.alloced
                 /\ l.running = IF u.ok /\ k = n THEN q.running \cup {j} ELSE q.running
  <2> DEFINE q == qm.queues[k]
  <2>1. QueueTyped(q) /\ Q[k] = IF u.ok /\ k = n THEN [q EXCEPT !.running = q.running \cup {j}] ELSE q
    BY <1>1, <1>3 DEF QmTyped, QueueTyped, QueueFields
  <2> HIDE DEF q, Q
  <2> QED BY <2>1 DEF QueueTyped, QueueFields, q
<1>4. DOMAIN Q = DOMAIN qm.queues
  OBVIOUS
<1> HIDE DEF Q
<1>5. /\ DOMAIN qm' = QmFields /\ qm'.queues = Q /\ qm'.parents = qm.parents
      /\ qm'.todo = qm.todo \ {j} /\ qm'.st = IF qm.todo = {j} THEN "ready" ELSE "jobs"
  BY <1>1 DEF QmTyped, QmFields
<1>6. qm' # Off
  BY <1>5, QmIsOn
<1>7. Unmoved
  BY <1>1, <1>3, <1>4, <1>5, <1>6 DEF Unmoved
<1>8. \A k \in DOMAIN qm.queues : qm.queues[k].running \subseteq qm'.queues[k].running
  BY <1>3, <1>5
<1>9. u.ok => n \in DOMAIN qm.queues /\ j \in qm'.queues[n].running
  BY <1>2, <1>3, <1>5
<1> QED BY <1>1, <1>5, <1>7, <1>8, <1>9 DEF u, n

\* Ranks of a job are released.
LEMMA FreeEffect ==
    ASSUME QmTyped, NEW j \in Job, NEW ranks, jobmanager_free_cb(j, ranks)
    PROVE  LET rest == jm[j].R.ranks \ jm[j].freed
               final == ranks = rest
               c == IF final THEN reapi_cancel(rm, j) ELSE reapi_cancel_R(rm, j, ranks)
           IN  /\ Unmoved /\ reqs = << >> /\ reqs' = reqs /\ toQm' = toQm
               /\ qm.st = "ready" /\ qm'.st = qm.st /\ qm'.todo = qm.todo
               /\ jm[j].st = "running" /\ ranks # {} /\ ranks \subseteq rest
               /\ jm' = [jm EXCEPT ![j].freed = @ \cup ranks, ![j].st = IF final THEN "gone" ELSE @]
               /\ \/ rm' = rm /\ \A n \in DOMAIN qm.queues : j \notin qm.queues[n].running
                  \/ rm' = c.ctx
               /\ \A n \in DOMAIN qm.queues :
                     /\ qm.queues[n].running \ {j} \subseteq qm'.queues[n].running
                     /\ ~final /\ ~c.full => qm.queues[n].running \subseteq qm'.queues[n].running
<1> DEFINE rest == jm[j].R.ranks \ jm[j].freed
           final == ranks = rest
           c == IF final THEN reapi_cancel(rm, j) ELSE reapi_cancel_R(rm, j, ranks)
           known == {n \in DOMAIN qm.queues : j \in qm.queues[n].running}
           done == c.ok /\ (final \/ c.full)
           Q == [n \in DOMAIN qm.queues |->
                   IF n \notin known \/ ~c.ok THEN qm.queues[n]
                   ELSE [qm.queues[n] EXCEPT !.sched = TRUE, !.running = IF done THEN @ \ {j} ELSE @]]
<1>1. /\ qm # Off /\ qm' = [qm EXCEPT !.queues = Q] /\ qm.st = "ready" /\ reqs = << >> /\ reqs' = reqs
      /\ toQm' = toQm /\ jm[j].st = "running" /\ ranks # {} /\ ranks \subseteq rest
      /\ jm' = [jm EXCEPT ![j].freed = @ \cup ranks, ![j].st = IF final THEN "gone" ELSE @]
      /\ rm' = IF known = {} THEN rm ELSE c.ctx
  BY DEF jobmanager_free_cb
<1>2. known = {} => \A n \in DOMAIN qm.queues : j \notin qm.queues[n].running
  OBVIOUS
<1>3. done => final \/ c.full
  OBVIOUS
<1> HIDE DEF known, done, c, final
<1>4. ASSUME NEW n \in DOMAIN qm.queues
      PROVE  LET q == qm.queues[n]
                 l == Q[n]
             IN  /\ l.pending = q.pending /\ l.provisional = q.provisional /\ l.alloced = q.alloced
                 /\ q.running \ {j} \subseteq l.running /\ (~done => l.running = q.running)
  <2> DEFINE q == qm.queues[n]
  <2>1. /\ QueueTyped(q)
        /\ Q[n] = q \/ Q[n] = [q EXCEPT !.sched = TRUE, !.running = IF done THEN @ \ {j} ELSE @]
    BY <1>1, <1>4 DEF QmTyped
  <2> HIDE DEF q, Q
  <2> QED BY <2>1 DEF QueueTyped, QueueFields, q
<1>5. DOMAIN Q = DOMAIN qm.queues
  OBVIOUS
<1> HIDE DEF Q
<1>6. /\ DOMAIN qm' = QmFields /\ qm'.queues = Q /\ qm'.parents = qm.parents
      /\ qm'.todo = qm.todo /\ qm'.st = qm.st
  BY <1>1 DEF QmTyped, QmFields
<1>7. qm' # Off
  BY <1>6, QmIsOn
<1>8. Unmoved
  BY <1>1, <1>4, <1>5, <1>6, <1>7 DEF Unmoved
<1>9. \A n \in DOMAIN qm.queues :
         /\ qm.queues[n].running \ {j} \subseteq qm'.queues[n].running
         /\ ~final /\ ~c.full => qm.queues[n].running \subseteq qm'.queues[n].running
  BY <1>3, <1>4, <1>6
<1> QED BY <1>1, <1>2, <1>6, <1>8, <1>9 DEF final, c

\* A queue whose jobs stay where they are.
LEMMA SameTidy ==
    ASSUME NEW q, Tidy(q), NEW l, l.pending = q.pending, l.provisional = q.provisional,
           l.alloced = q.alloced, Given(q) \subseteq l.running
    PROVE  Tidy(l) /\ Pend(l) = Pend(q) /\ Given(l) = Given(q)
<1>1. Pend(l) = Pend(q) /\ Given(l) = Given(q)
  BY DEF Pend, Given
<1> QED BY <1>1 DEF Tidy

\* A job that waits for its queue, or for the answer that it has resources.
Waiting(j, n) ==
    /\ jm[j].st \in Notes \cup {"waiting"} /\ jm[j].freed = {}
    /\ queue_of(j) = n

QueuesInv ==
    qm # Off => \A n \in DOMAIN qm.queues :
                   /\ Tidy(qm.queues[n])
                   /\ \A j \in Pend(qm.queues[n]) \cup Given(qm.queues[n]) : Waiting(j, n)

\* A job that has not had resources has released none.
FreshInv == \A j \in Job : jm[j].st \in {"new", "idle", "waiting"} => jm[j].freed = {}

\* The jobs that are still to be taken over run.
TodoInv == (qm # Off /\ qm.st = "jobs") => qm.todo \subseteq Running

\* The jobs of a queue are jobs.
LEMMA QueueJobs ==
    ASSUME NEW q, QueueTyped(q)
    PROVE  Pend(q) \subseteq Job /\ Given(q) \subseteq Job /\ ToSet(q.alloced) \subseteq [j : Job, R : GivenR]
<1>1. /\ q.pending \in Seq(Job) /\ q.provisional \in Seq(Job)
      /\ q.alloced \in Seq([j : Job, R : GivenR])
  BY DEF QueueTyped
<1>2. ToSet(q.pending) \subseteq Job
  BY <1>1, Elements
<1>3. ToSet(q.provisional) \subseteq Job
  BY <1>1, Elements
<1>4. ToSet(q.alloced) \subseteq [j : Job, R : GivenR]
  BY <1>1, Elements
<1>5. Given(q) \subseteq Job
  BY <1>4 DEF Given
<1> QED BY <1>2, <1>3, <1>4, <1>5 DEF Pend

\* A new job waits in its queue.
LEMMA InsertEffect ==
    ASSUME QmTyped, QueuesInv, JmTyped, NEW j \in Job, jobmanager_alloc_cb(j), ~UNCHANGED qm
    PROVE  LET m == queue_of(j)
           IN  /\ qm # Off /\ qm' # Off /\ qm'.parents = qm.parents /\ DOMAIN qm'.queues = DOMAIN qm.queues
               /\ qm'.st = qm.st /\ qm'.todo = qm.todo
               /\ jm[j].st = "idle" /\ jm' = [jm EXCEPT ![j].st = "waiting"]
               /\ \A n \in DOMAIN qm.queues :
                     /\ Tidy(qm'.queues[n])
                     /\ Pend(qm'.queues[n]) \subseteq Pend(qm.queues[n]) \cup (IF n = m THEN {j} ELSE {})
                     /\ qm'.queues[n].alloced = qm.queues[n].alloced
                     /\ qm'.queues[n].running = qm.queues[n].running
<1> DEFINE m == queue_of(j)
           Q == [qm.queues EXCEPT ![m].provisional = Append(@, j), ![m].sched = TRUE]
<1>1. /\ qm # Off /\ jm[j].st = "idle" /\ jm' = [jm EXCEPT ![j].st = "waiting"]
      /\ qm' = [qm EXCEPT !.queues[m].provisional = Append(@, j), !.queues[m].sched = TRUE]
  BY DEF jobmanager_alloc_cb
<1> HIDE DEF m
<1>2. /\ DOMAIN qm' = QmFields /\ qm'.queues = Q /\ qm'.todo = qm.todo /\ qm'.st = qm.st
      /\ qm'.parents = qm.parents
  BY <1>1 DEF QmTyped, QmFields
<1>3. ASSUME NEW n \in DOMAIN qm.queues
      PROVE  /\ Tidy(Q[n])
             /\ Pend(Q[n]) \subseteq Pend(qm.queues[n]) \cup (IF n = m THEN {j} ELSE {})
             /\ Q[n].alloced = qm.queues[n].alloced
             /\ Q[n].running = qm.queues[n].running
  <2> DEFINE q == qm.queues[n]
             l == [q EXCEPT !.provisional = Append(q.provisional, j), !.sched = TRUE]
  <2>1. /\ QueueTyped(q) /\ Tidy(q)
        /\ \A k \in Pend(q) \cup Given(q) : Waiting(k, n)
        /\ Q[n] = IF n = m THEN l ELSE q
    BY <1>1, <1>3 DEF QmTyped, QueueTyped, QueueFields, QueuesInv
  <2>2. j \notin Pend(q) /\ j \notin Given(q)
    <3>1. ~Waiting(j, n)
      BY <1>1 DEF Waiting, Notes
    <3> QED BY <2>1, <3>1
  <2> HIDE DEF q, Q
  <2>3. /\ Tidy(l) /\ Pend(l) = Pend(q) \cup {j}
        /\ l.alloced = q.alloced /\ l.running = q.running
    BY <2>1, <2>2, InsertTidy
  <2> HIDE DEF l
  <2> QED BY <2>1, <2>3 DEF q
<1>4. DOMAIN Q = DOMAIN qm.queues
  OBVIOUS
<1> HIDE DEF Q
<1>5. qm' # Off
  BY <1>2, QmIsOn
<1> QED BY <1>1, <1>2, <1>3, <1>4, <1>5 DEF m

\* Loops start and answers are sent: the jobs with an allocation run.
LEMMA CheckEffect ==
    ASSUME QmTyped, JmTyped, QueuesInv, check_watcher_cb
    PROVE  /\ qm # Off /\ qm' # Off /\ qm'.parents = qm.parents /\ DOMAIN qm'.queues = DOMAIN qm.queues
           /\ qm.st = "ready" /\ qm'.st = qm.st /\ qm'.todo = qm.todo
           /\ \A n \in DOMAIN qm.queues :
                 /\ Tidy(qm'.queues[n]) /\ Pend(qm'.queues[n]) = Pend(qm.queues[n])
                 /\ Given(qm'.queues[n]) = {} /\ ToSet(qm'.queues[n].alloced) = {}
                 /\ qm'.queues[n].running = qm.queues[n].running
           /\ \A j \in Job :
                 \/ \E n \in DOMAIN qm.queues : \E a \in ToSet(qm.queues[n].alloced) :
                       a.j = j /\ jm'[j] = [jm[j] EXCEPT !.st = "running", !.R = a.R]
                 \/ /\ \A n \in DOMAIN qm.queues : j \notin Given(qm.queues[n])
                    /\ jm'[j] = jm[j] \/ \E w \in Notes : jm'[j] = [jm[j] EXCEPT !.st = w]
<1> DEFINE names == DOMAIN qm.queues
           any == \E n \in names : qm.queues[n].sched
           looped == [n \in names |-> IF any THEN run_sched_loop(qm.queues[n]) ELSE qm.queues[n]]
           Q == [n \in names |-> [looped[n] EXCEPT !.alloced = << >>, !.rejected = << >>]]
           given == UNION {ToSet(looped[n].alloced) : n \in DOMAIN looped}
           denied == UNION {ToSet(looped[n].rejected) : n \in DOMAIN looped}
           r(j) == (CHOOSE a \in given : a.j = j).R
           w(j) == (CHOOSE d \in denied : d.j = j).note
           new(j) == IF \E a \in given : a.j = j
                     THEN [jm[j] EXCEPT !.st = "running", !.R = r(j)]
                     ELSE IF \E d \in denied : d.j = j THEN [jm[j] EXCEPT !.st = w(j)]
                     ELSE jm[j]
<1>1. qm # Off /\ qm.st = "ready" /\ qm' = [qm EXCEPT !.queues = Q] /\ jm' = [j \in Job |-> new(j)]
  BY DEF check_watcher_cb, post_sched_loop
<1>2. ASSUME NEW n \in names
      PROVE  /\ Tidy(Q[n]) /\ Pend(Q[n]) = Pend(qm.queues[n])
             /\ Given(Q[n]) = {} /\ ToSet(Q[n].alloced) = {} /\ Q[n].running = qm.queues[n].running
             /\ ToSet(looped[n].alloced) = ToSet(qm.queues[n].alloced)
             /\ ToSet(looped[n].rejected) \subseteq [j : Job \cup {NoJob}, note : Notes]
  <2> DEFINE q == qm.queues[n]
             l == looped[n]
  <2>1. QueueTyped(q) /\ Tidy(q) /\ (l = q \/ l = run_sched_loop(q))
    BY <1>1, <1>2 DEF QmTyped, QueuesInv
  <2>2. Q[n] = [l EXCEPT !.alloced = << >>, !.rejected = << >>]
    BY <1>2
  <2> HIDE DEF q, l, Q
  <2>3. PICK m \in Result : TRUE
    <3>1. [j |-> Nobody, err |-> "", R |-> NoR] \in Result
      BY DEF Result, GivenR
    <3> QED BY <3>1
  <2>4. QueueTyped(l)
    BY <2>1, <2>3, QueueTypedSteps
  <2>5. Tidy(l) /\ Pend(l) = Pend(q) /\ l.alloced = q.alloced /\ l.running = q.running
    BY <2>1, LoopTidy
  <2>6. ToSet(l.rejected) \subseteq [j : Job \cup {NoJob}, note : Notes]
    <3>1. l.rejected \in Seq([j : Job \cup {NoJob}, note : Notes])
      BY <2>4 DEF QueueTyped
    <3> QED BY <3>1, Elements
  <2> DEFINE x == [l EXCEPT !.alloced = << >>, !.rejected = << >>]
  <2>7. /\ Tidy(x) /\ Pend(x) = Pend(l) /\ x.running = l.running
        /\ Given(x) = {} /\ ToSet(x.alloced) = {}
    BY <2>4, <2>5, SentTidy
  <2> HIDE DEF x
  <2> QED BY <2>2, <2>5, <2>6, <2>7 DEF q, l, x
<1>3. DOMAIN Q = names /\ DOMAIN looped = names
  OBVIOUS
<1> HIDE DEF Q, looped
<1>4. given = UNION {ToSet(qm.queues[n].alloced) : n \in names}
  BY <1>2, <1>3
<1>5. denied \subseteq [j : Job \cup {NoJob}, note : Notes]
  BY <1>2, <1>3
<1> HIDE DEF given, denied
<1>6. ASSUME NEW j \in Job
      PROVE  \/ \E n \in DOMAIN qm.queues : \E a \in ToSet(qm.queues[n].alloced) :
                   a.j = j /\ jm'[j] = [jm[j] EXCEPT !.st = "running", !.R = a.R]
             \/ /\ \A n \in DOMAIN qm.queues : j \notin Given(qm.queues[n])
                /\ jm'[j] = jm[j] \/ \E v \in Notes : jm'[j] = [jm[j] EXCEPT !.st = v]
  <2>1. jm'[j] = new(j)
    BY <1>1
  <2>2. CASE \E a \in given : a.j = j
    <3> DEFINE a == CHOOSE x \in given : x.j = j
    <3>1. a \in given /\ a.j = j
      BY <2>2
    <3>2. jm'[j] = [jm[j] EXCEPT !.st = "running", !.R = a.R]
      BY <2>1, <2>2
    <3> HIDE DEF a
    <3>3. PICK n \in names : a \in ToSet(qm.queues[n].alloced)
      BY <1>4, <3>1
    <3> QED BY <3>1, <3>2, <3>3
  <2>3. CASE ~\E a \in given : a.j = j
    <3>1. \A n \in names : j \notin Given(qm.queues[n])
      BY <1>4, <2>3 DEF Given
    <3>2. CASE \E d \in denied : d.j = j
      <4> DEFINE d == CHOOSE x \in denied : x.j = j
      <4>1. d \in denied
        BY <3>2
      <4>2. jm'[j] = [jm[j] EXCEPT !.st = d.note]
        BY <2>1, <2>3, <3>2
      <4> HIDE DEF d
      <4>3. d.note \in Notes
        BY <1>5, <4>1
      <4> QED BY <3>1, <4>2, <4>3
    <3>3. CASE ~\E d \in denied : d.j = j
      <4> HIDE DEF r, w
      <4>1. jm'[j] = jm[j]
        BY <2>1, <2>3, <3>3
      <4> QED BY <3>1, <4>1
    <3> QED BY <3>2, <3>3
  <2> QED BY <2>2, <2>3
<1>7. DOMAIN qm' = QmFields /\ qm'.queues = Q /\ qm'.todo = qm.todo /\ qm'.st = qm.st /\ qm'.parents = qm.parents
  BY <1>1 DEF QmTyped, QmFields
<1>8. qm' # Off
  BY <1>7, QmIsOn
<1>9. \A n \in DOMAIN qm.queues :
         /\ Tidy(qm'.queues[n]) /\ Pend(qm'.queues[n]) = Pend(qm.queues[n])
         /\ Given(qm'.queues[n]) = {} /\ ToSet(qm'.queues[n].alloced) = {}
         /\ qm'.queues[n].running = qm.queues[n].running
  BY <1>2, <1>7
<1> QED BY <1>1, <1>3, <1>6, <1>7, <1>8, <1>9

\* An answer of the resource module: what it gives goes to the job it names, or nowhere.
LEMMA AnswerEffect ==
    ASSUME QmTyped, ToQmTyped, QueuesInv, match_multi_then
    PROVE  /\ qm # Off /\ qm' # Off /\ qm'.parents = qm.parents /\ DOMAIN qm'.queues = DOMAIN qm.queues
           /\ qm.st = "ready" /\ qm'.st = qm.st /\ qm'.todo = qm.todo /\ jm' = jm
           /\ toQm # << >> /\ toQm' = Tail(toQm) /\ Head(toQm) \in MatchAnswer
           /\ \A n \in DOMAIN qm.queues :
                 LET q == qm.queues[n]
                     l == qm'.queues[n]
                     m == Head(toQm).m
                 IN  /\ Tidy(l) /\ Pend(l) \cup Given(l) \subseteq Pend(q) \cup Given(q)
                     /\ q.running \subseteq l.running
                     /\ ToSet(l.alloced) \subseteq
                           ToSet(q.alloced) \cup (IF m.err = "" THEN {[j |-> m.j, R |-> m.R]} ELSE {})
<1> DEFINE msg == Head(toQm)
           q0 == qm.queues[msg.queue]
           r == IF msg.m.err = "" THEN handle_match_success(q0, msg.m) ELSE handle_match_failure(q0, msg.m)
           Q == [qm.queues EXCEPT ![msg.queue] = r]
<1>1. qm # Off /\ qm' = [qm EXCEPT !.queues = Q] /\ qm.st = "ready" /\ jm' = jm /\ toQm' = Tail(toQm)
  BY DEF match_multi_then, QmTyped, QmFields
<1>2. msg \in {EmptyResponse, StreamError} \cup MatchAnswer /\ msg.k = "match" /\ toQm # << >>
  BY Shorter DEF match_multi_then, ToQmTyped
<1>3. msg \in MatchAnswer
  <2> HIDE DEF msg
  <2> QED BY <1>2 DEF EmptyResponse, StreamError
<1>4. msg.m \in Result
  BY <1>3 DEF MatchAnswer
<1> DEFINE m == msg.m
           N == msg.queue
           Fits(q, l) == /\ Tidy(l) /\ Pend(l) \cup Given(l) \subseteq Pend(q) \cup Given(q)
                         /\ q.running \subseteq l.running
                         /\ ToSet(l.alloced) \subseteq
                               ToSet(q.alloced) \cup (IF m.err = "" THEN {[j |-> m.j, R |-> m.R]} ELSE {})
<1>5. N \in DOMAIN qm.queues => Fits(q0, r)
  <2> HIDE DEF msg, m
  <2> SUFFICES ASSUME N \in DOMAIN qm.queues PROVE Fits(q0, r)
    OBVIOUS
  <2>1. QueueTyped(q0) /\ Tidy(q0)
    BY <1>1 DEF QmTyped, QueuesInv
  <2>2. r = IF m.err = "" THEN handle_match_success(q0, m) ELSE handle_match_failure(q0, m)
    BY DEF m
  <2>3. m \in Result
    BY <1>4 DEF m
  <2> HIDE DEF r, q0
  <2>4. CASE m.err = ""
    BY <2>1, <2>2, <2>3, <2>4, SuccessTidy
  <2>5. CASE m.err # ""
    <3>1. /\ Tidy(r) /\ Pend(r) \cup Given(r) \subseteq Pend(q0) \cup Given(q0)
          /\ r.running = q0.running /\ r.alloced = q0.alloced
      BY <2>1, <2>2, <2>5, FailureTidy
    <3> QED BY <2>5, <3>1
  <2> QED BY <2>4, <2>5
<1>6. DOMAIN Q = DOMAIN qm.queues /\ \A n \in DOMAIN qm.queues : Q[n] = IF n = N THEN r ELSE qm.queues[n]
  OBVIOUS
<1> HIDE DEF Q, r, N, m, msg
<1>7. \A n \in DOMAIN qm.queues : Tidy(qm.queues[n])
  BY <1>1 DEF QueuesInv
<1>8. \A n \in DOMAIN qm.queues : Fits(qm.queues[n], Q[n])
  <2> SUFFICES ASSUME NEW n \in DOMAIN qm.queues PROVE Fits(qm.queues[n], Q[n])
    OBVIOUS
  <2>1. CASE n = N
    BY <1>5, <1>6, <2>1 DEF N
  <2>2. CASE n # N
    BY <1>6, <1>7, <2>2
  <2> QED BY <2>1, <2>2
<1>9. DOMAIN qm' = QmFields /\ qm'.queues = Q /\ qm'.todo = qm.todo /\ qm'.st = qm.st /\ qm'.parents = qm.parents
  BY <1>1 DEF QmTyped, QmFields
<1>10. qm' # Off
  BY <1>9, QmIsOn
<1> QED BY <1>1, <1>2, <1>3, <1>6, <1>8, <1>9, <1>10 DEF m, msg

\* The queues stay tidy when no job comes and those that wait go on waiting.
LEMMA QueuesInvFrom ==
    ASSUME QmTyped, QueuesInv, qm # Off, qm'.parents = qm.parents, DOMAIN qm'.queues = DOMAIN qm.queues,
           \A n \in DOMAIN qm.queues :
              /\ Tidy(qm'.queues[n])
              /\ \A j \in Pend(qm'.queues[n]) \cup Given(qm'.queues[n]) :
                    /\ j \in Pend(qm.queues[n]) \cup Given(qm.queues[n])
                    /\ jm'[j].st \in Notes \cup {"waiting"} /\ jm'[j].freed = jm[j].freed
    PROVE  QueuesInv'
<1> SUFFICES ASSUME NEW n \in DOMAIN qm.queues, NEW j \in Pend(qm'.queues[n]) \cup Given(qm'.queues[n])
             PROVE  Waiting(j, n)'
  BY DEF QueuesInv
<1>1. /\ j \in Pend(qm.queues[n]) \cup Given(qm.queues[n])
      /\ jm'[j].st \in Notes \cup {"waiting"} /\ jm'[j].freed = jm[j].freed
  OBVIOUS
<1>2. Waiting(j, n)
  BY <1>1 DEF QueuesInv
<1>3. queue_of(j)' = queue_of(j)
  BY DEF queue_of, resolve_queue_name
<1> QED BY <1>1, <1>2, <1>3 DEF Waiting

\* Queues whose jobs stay where they are, while no job of theirs changes.
LEMMA UnmovedInv ==
    ASSUME QmTyped, QueuesInv, Unmoved,
           \A j \in Job : jm[j].st \in Notes \cup {"waiting"} => jm'[j] = jm[j],
           \A n \in DOMAIN qm.queues : Given(qm.queues[n]) \subseteq qm'.queues[n].running
    PROVE  QueuesInv'
<1>1. ASSUME NEW n \in DOMAIN qm.queues
      PROVE  /\ Tidy(qm'.queues[n])
             /\ \A j \in Pend(qm'.queues[n]) \cup Given(qm'.queues[n]) :
                   /\ j \in Pend(qm.queues[n]) \cup Given(qm.queues[n])
                   /\ jm'[j].st \in Notes \cup {"waiting"} /\ jm'[j].freed = jm[j].freed
  <2> DEFINE q == qm.queues[n]
             l == qm'.queues[n]
  <2>1. /\ Tidy(q) /\ l.pending = q.pending /\ l.provisional = q.provisional /\ l.alloced = q.alloced
        /\ Given(q) \subseteq l.running /\ QueueTyped(q)
    BY <1>1 DEF Unmoved, QueuesInv, QmTyped
  <2>2. \A j \in Pend(q) \cup Given(q) : Waiting(j, n)
    BY <1>1 DEF Unmoved, QueuesInv
  <2> HIDE DEF q, l
  <2>3. Tidy(l) /\ Pend(l) = Pend(q) /\ Given(l) = Given(q)
    BY <2>1, SameTidy
  <2>4. Pend(q) \subseteq Job /\ Given(q) \subseteq Job
    BY <2>1, QueueJobs
  <2>5. \A j \in Pend(q) \cup Given(q) : jm[j].st \in Notes \cup {"waiting"} /\ jm'[j] = jm[j]
    BY <2>2, <2>4 DEF Waiting
  <2> QED BY <2>3, <2>5 DEF q, l
<1> QED BY <1>1, QueuesInvFrom DEF Unmoved

\* A job waits in one place, and has released nothing yet.
LEMMA QueuesStep ==
    ASSUME Typed, QueuesInv, FreshInv, TodoInv, [Next]_vars
    PROVE  QueuesInv' /\ FreshInv'
<1> USE DEF Typed
<1>1. CASE UNCHANGED <<qm, jm>>
  <2>1. QueuesInv'
    BY <1>1 DEF QueuesInv, Waiting, queue_of
  <2> QED BY <1>1, <2>1 DEF FreshInv
<1>2. CASE qmanager_destroy
  <2>1. /\ qm' = Off
        /\ jm' = [j \in Job |-> IF jm[j].st = "waiting" THEN [jm[j] EXCEPT !.st = "idle"] ELSE jm[j]]
    BY <1>2 DEF qmanager_destroy
  <2>2. ASSUME NEW j \in Job, jm'[j].st \in {"new", "idle", "waiting"} PROVE jm'[j].freed = {}
    <3>1. DOMAIN jm[j] = {"st", "R", "freed"}
      BY DEF JmTyped
    <3>2. jm'[j].freed = jm[j].freed /\ jm[j].st \in {"new", "idle", "waiting"}
      BY <2>1, <2>2, <3>1
    <3> QED BY <3>2 DEF FreshInv
  <2> QED BY <2>1, <2>2 DEF QueuesInv, FreshInv
<1>3. ASSUME NEW c, load_qmanager(c) PROVE QueuesInv' /\ FreshInv'
  <2> DEFINE o == qmanager_options(c.conf, c.args)
             Q == [n \in DOMAIN o.queues |-> Queue(o.queues[n])]
  <2>1. /\ jm' = jm
        /\ qm' = IF o.ok THEN [st |-> "resource", parents |-> o.parents, todo |-> {}, quiet |-> 0,
                               queues |-> Q]
                 ELSE Off
    BY <1>3 DEF load_qmanager
  <2>2. \A n \in DOMAIN Q : Tidy(Q[n]) /\ Pend(Q[n]) \cup Given(Q[n]) = {}
    <3> SUFFICES ASSUME NEW n \in DOMAIN Q PROVE Tidy(Q[n]) /\ Pend(Q[n]) \cup Given(Q[n]) = {}
      OBVIOUS
    <3> DEFINE l == Q[n]
    <3>1. l.pending = << >> /\ l.provisional = << >> /\ l.alloced = << >>
      BY DEF Queue
    <3> HIDE DEF l, Q
    <3>2. ToSet(<< >>) = {} /\ Distinct(<< >>)
      BY DEF ToSet, Distinct
    <3>3. Pend(l) = {} /\ Given(l) = {}
      BY <3>1, <3>2 DEF Pend, Given
    <3>4. Tidy(l)
      BY <3>1, <3>2, <3>3 DEF Tidy
    <3> QED BY <3>3, <3>4 DEF l
  <2> HIDE DEF Q, o
  <2>3. qm' # Off => qm'.queues = Q
    BY <2>1
  <2> QED BY <2>1, <2>2, <2>3 DEF QueuesInv, FreshInv
<1>4. CASE update_on_resource_response
  <2>1. CASE ~qmanager_destroy
    <3>1. /\ Unmoved /\ jm' = jm
          /\ \A n \in DOMAIN qm.queues : qm'.queues[n].running = qm.queues[n].running
      BY <1>4, <2>1, WokenEffect
    <3>2. \A n \in DOMAIN qm.queues : Given(qm.queues[n]) \subseteq qm'.queues[n].running
      BY <3>1 DEF QueuesInv, Tidy, Unmoved
    <3> QED BY <3>1, <3>2, UnmovedInv DEF FreshInv
  <2> QED BY <1>2, <2>1
<1>5. CASE quiescent_request_cb \/ process_pending_quiescent_requests
  <2>1. Unmoved /\ jm' = jm /\ qm'.queues = qm.queues
    BY <1>5, QuietEffect
  <2>2. \A n \in DOMAIN qm.queues : Given(qm.queues[n]) \subseteq qm'.queues[n].running
    BY <2>1 DEF QueuesInv, Tidy, Unmoved
  <2> QED BY <2>1, <2>2, UnmovedInv DEF FreshInv
<1>6. ASSUME NEW j \in Job, jobmanager_hello_cb(j) PROVE QueuesInv' /\ FreshInv'
  <2> DEFINE n == queue_of(j)
             u == IF n \notin DOMAIN qm.queues THEN Error(rm)
                  ELSE reapi_update_allocate(rm, j, WithFreeRanks(HelloR(j), jm[j].freed))
  <2>1. /\ Unmoved /\ jm' = IF u.ok THEN jm ELSE [jm EXCEPT ![j].st = "killed"]
        /\ \A k \in DOMAIN qm.queues : qm.queues[k].running \subseteq qm'.queues[k].running
        /\ qm.st = "jobs" /\ j \in qm.todo
    BY <1>6, HelloEffect
  <2> HIDE DEF u, n
  <2>0. jm[j].st = "running"
    BY <2>1 DEF TodoInv, Running, Unmoved
  <2>2. \A k \in DOMAIN qm.queues : Given(qm.queues[k]) \subseteq qm'.queues[k].running
    BY <2>1 DEF QueuesInv, Tidy, Unmoved
  <2>3. \A k \in Job : jm'[k] = jm[k] \/ (k = j /\ jm'[k] = [jm[k] EXCEPT !.st = "killed"])
    BY <2>1 DEF JmTyped
  <2>4. \A k \in Job : jm[k].st \in Notes \cup {"waiting"} => jm'[k] = jm[k]
    BY <2>0, <2>3 DEF Notes
  <2>5. jm'[j] = [jm[j] EXCEPT !.st = "killed"] => jm'[j].st = "killed"
    BY DEF JmTyped
  <2>6. FreshInv'
    BY <2>3, <2>5 DEF FreshInv
  <2> QED BY <2>1, <2>2, <2>4, <2>6, UnmovedInv
<1>7. ASSUME NEW j \in Job, NEW ranks, jobmanager_free_cb(j, ranks) PROVE QueuesInv' /\ FreshInv'
  <2> DEFINE final == ranks = jm[j].R.ranks \ jm[j].freed
  <2>1. /\ Unmoved /\ jm[j].st = "running"
        /\ jm' = [jm EXCEPT ![j].freed = @ \cup ranks, ![j].st = IF final THEN "gone" ELSE @]
        /\ \A k \in DOMAIN qm.queues : qm.queues[k].running \ {j} \subseteq qm'.queues[k].running
    BY <1>7, FreeEffect
  <2> HIDE DEF final
  <2>2. ASSUME NEW k \in DOMAIN qm.queues PROVE Given(qm.queues[k]) \subseteq qm'.queues[k].running
    <3>1. Given(qm.queues[k]) \subseteq qm.queues[k].running
      BY <2>1, <2>2 DEF QueuesInv, Tidy, Unmoved
    <3>2. ~Waiting(j, k)
      BY <2>1 DEF Waiting, Notes
    <3>3. j \notin Given(qm.queues[k])
      BY <2>1, <2>2, <3>2 DEF QueuesInv, Unmoved
    <3> QED BY <2>1, <3>1, <3>3
  <2>3. \A k \in Job : k # j => jm'[k] = jm[k]
    BY <2>1 DEF JmTyped
  <2>4. jm'[j].st \in {"gone", "running"}
    BY <2>1 DEF JmTyped
  <2>5. \A k \in Job : jm[k].st \in Notes \cup {"waiting"} => jm'[k] = jm[k]
    BY <2>1, <2>3 DEF Notes
  <2>6. FreshInv'
    BY <2>3, <2>4 DEF FreshInv
  <2> QED BY <2>1, <2>2, <2>5, <2>6, UnmovedInv
<1>8. ASSUME NEW j \in Job, jobmanager_alloc_cb(j), ~UNCHANGED qm PROVE QueuesInv' /\ FreshInv'
  <2> DEFINE m == queue_of(j)
  <2>1. /\ qm # Off /\ qm'.parents = qm.parents /\ DOMAIN qm'.queues = DOMAIN qm.queues
        /\ jm[j].st = "idle" /\ jm' = [jm EXCEPT ![j].st = "waiting"]
        /\ \A n \in DOMAIN qm.queues :
              /\ Tidy(qm'.queues[n])
              /\ Pend(qm'.queues[n]) \subseteq Pend(qm.queues[n]) \cup (IF n = m THEN {j} ELSE {})
              /\ qm'.queues[n].alloced = qm.queues[n].alloced
    BY <1>8, InsertEffect
  <2>2. \A k \in Job : k # j => jm'[k] = jm[k]
    BY <2>1 DEF JmTyped
  <2>3. jm'[j].st = "waiting" /\ jm'[j].freed = {}
    <3>1. jm'[j].st = "waiting" /\ jm'[j].freed = jm[j].freed
      BY <2>1 DEF JmTyped
    <3>2. jm[j].freed = {}
      BY <2>1 DEF FreshInv
    <3> QED BY <3>1, <3>2
  <2>4. FreshInv'
    BY <2>2, <2>3 DEF FreshInv
  <2>5. m = queue_of(j)' /\ \A k : queue_of(k)' = queue_of(k)
    BY <2>1 DEF queue_of, resolve_queue_name
  <2> HIDE DEF m
  <2>6. ASSUME NEW n \in DOMAIN qm.queues, NEW k \in Pend(qm'.queues[n]) \cup Given(qm'.queues[n])
        PROVE  Waiting(k, n)'
    <3>1. Given(qm'.queues[n]) = Given(qm.queues[n])
      BY <2>1, <2>6 DEF Given
    <3>2. CASE k = j /\ n = m
      BY <2>3, <2>5, <3>2 DEF Waiting
    <3>3. CASE k \in Pend(qm.queues[n]) \cup Given(qm.queues[n])
      <4>1. Waiting(k, n) /\ k \in Job
        BY <2>1, <2>6, <3>3, QueueJobs DEF QueuesInv, QmTyped
      <4>2. k # j
        BY <2>1, <4>1 DEF Waiting, Notes
      <4> QED BY <2>2, <2>5, <4>1, <4>2 DEF Waiting
    <3> QED BY <2>1, <2>6, <3>1, <3>2, <3>3
  <2>7. QueuesInv'
    BY <2>1, <2>6 DEF QueuesInv
  <2> QED BY <2>4, <2>7
<1>9. CASE check_watcher_cb
  <2>1. /\ qm # Off /\ qm'.parents = qm.parents /\ DOMAIN qm'.queues = DOMAIN qm.queues
        /\ \A n \in DOMAIN qm.queues :
              /\ Tidy(qm'.queues[n]) /\ Pend(qm'.queues[n]) = Pend(qm.queues[n])
              /\ Given(qm'.queues[n]) = {}
        /\ \A j \in Job :
              \/ \E n \in DOMAIN qm.queues : \E a \in ToSet(qm.queues[n].alloced) :
                    a.j = j /\ jm'[j] = [jm[j] EXCEPT !.st = "running", !.R = a.R]
              \/ /\ \A n \in DOMAIN qm.queues : j \notin Given(qm.queues[n])
                 /\ jm'[j] = jm[j] \/ \E w \in Notes : jm'[j] = [jm[j] EXCEPT !.st = w]
    BY <1>9, CheckEffect
  <2>2. ASSUME NEW j \in Job
        PROVE  \/ jm'[j].st = "running" /\ \E n \in DOMAIN qm.queues : j \in Given(qm.queues[n])
               \/ jm'[j] = jm[j] \/ (jm'[j].st \in Notes /\ jm'[j].freed = jm[j].freed)
    <3>1. DOMAIN jm[j] = {"st", "R", "freed"}
      BY DEF JmTyped
    <3>2. CASE \E n \in DOMAIN qm.queues : \E a \in ToSet(qm.queues[n].alloced) :
                  a.j = j /\ jm'[j] = [jm[j] EXCEPT !.st = "running", !.R = a.R]
      BY <3>1, <3>2 DEF Given
    <3>3. CASE \E w \in Notes : jm'[j] = [jm[j] EXCEPT !.st = w]
      BY <3>1, <3>3
    <3> QED BY <2>1, <3>2, <3>3
  <2>3. FreshInv'
    BY <2>2 DEF FreshInv, Notes
  <2>4. ASSUME NEW n \in DOMAIN qm.queues, NEW j \in Pend(qm.queues[n])
        PROVE  jm'[j].st \in Notes \cup {"waiting"} /\ jm'[j].freed = jm[j].freed
    <3>1. Waiting(j, n) /\ Tidy(qm.queues[n]) /\ QueueTyped(qm.queues[n])
      BY <2>1, <2>4 DEF QueuesInv, QmTyped
    <3>2. j \in Job
      BY <2>4, <3>1, QueueJobs
    <3>3. ASSUME NEW k \in DOMAIN qm.queues, j \in Given(qm.queues[k]) PROVE FALSE
      <4>1. Waiting(j, k)
        BY <2>1, <3>3 DEF QueuesInv
      <4>2. k = n
        BY <3>1, <4>1 DEF Waiting
      <4> QED BY <2>4, <3>1, <3>3, <4>2 DEF Tidy
    <3>4. jm'[j] = jm[j] \/ (jm'[j].st \in Notes /\ jm'[j].freed = jm[j].freed)
      BY <2>2, <3>2, <3>3
    <3> QED BY <3>1, <3>4 DEF Waiting
  <2>5. QueuesInv'
    BY <2>1, <2>4, QueuesInvFrom
  <2> QED BY <2>3, <2>5
<1>10. CASE match_multi_then
  <2>1. /\ qm # Off /\ qm'.parents = qm.parents /\ DOMAIN qm'.queues = DOMAIN qm.queues /\ jm' = jm
        /\ \A n \in DOMAIN qm.queues :
              /\ Tidy(qm'.queues[n])
              /\ Pend(qm'.queues[n]) \cup Given(qm'.queues[n]) \subseteq Pend(qm.queues[n]) \cup Given(qm.queues[n])
    BY <1>10, AnswerEffect
  <2>2. \A n \in DOMAIN qm.queues : \A j \in Pend(qm.queues[n]) \cup Given(qm.queues[n]) :
            jm[j].st \in Notes \cup {"waiting"}
    BY <2>1 DEF QueuesInv, Waiting
  <2>3. QueuesInv'
    BY <2>1, <2>2, QueuesInvFrom
  <2> QED BY <2>1, <2>3 DEF FreshInv
<1>11. ASSUME NEW j \in Job, NEW st, UNCHANGED qm, jm' = [jm EXCEPT ![j].st = st],
              jm[j].st \in {"new", "idle"}
       PROVE  QueuesInv' /\ FreshInv'
  <2>1. \A k \in Job : k # j => jm'[k] = jm[k]
    BY <1>11 DEF JmTyped
  <2>2. jm'[j].freed = jm[j].freed
    BY <1>11 DEF JmTyped
  <2>3. FreshInv'
    BY <1>11, <2>1, <2>2 DEF FreshInv
  <2>4. CASE qm # Off
    <3>1. ASSUME NEW n \in DOMAIN qm.queues, NEW k \in Pend(qm.queues[n]) \cup Given(qm.queues[n])
          PROVE  jm'[k] = jm[k] /\ jm[k].st \in Notes \cup {"waiting"}
      <4>1. Waiting(k, n) /\ k \in Job
        BY <2>4, <3>1, QueueJobs DEF QueuesInv, QmTyped
      <4>2. k # j
        BY <1>11, <4>1 DEF Waiting, Notes
      <4> QED BY <2>1, <4>1, <4>2 DEF Waiting
    <3>2. \A n \in DOMAIN qm.queues : Tidy(qm'.queues[n])
      BY <1>11, <2>4 DEF QueuesInv
    <3> QED BY <1>11, <2>3, <2>4, <3>1, <3>2, QueuesInvFrom
  <2>5. CASE qm = Off
    BY <1>11, <2>3, <2>5 DEF QueuesInv
  <2> QED BY <2>4, <2>5
<1>12. ASSUME NEW j \in Job, Submit(j) PROVE QueuesInv' /\ FreshInv'
  <2>1. PICK st : jm' = [jm EXCEPT ![j].st = st]
    BY <1>12 DEF Submit
  <2>2. jm[j].st = "new" /\ UNCHANGED qm
    BY <1>12 DEF Submit
  <2> QED BY <1>11, <2>1, <2>2
<1>13. ASSUME NEW j \in Job, jobmanager_alloc_cb(j), UNCHANGED qm PROVE QueuesInv' /\ FreshInv'
  <2>1. PICK st : jm' = [jm EXCEPT ![j].st = st]
    BY <1>13 DEF jobmanager_alloc_cb
  <2>2. jm[j].st = "idle"
    BY <1>13 DEF jobmanager_alloc_cb
  <2> QED BY <1>11, <1>13, <2>1, <2>2
<1>14. CASE CoreNext
  BY <1>14, <1>1 DEF CoreNext, CoreUp, CoreDown, CoreLost, CoreExpiration, Tell
<1>15. CASE ModuleNext
  BY <1>15, <1>1, <1>2, <1>3 DEF ModuleNext, load_resource, load_feasibility, unload_resource,
         unload_feasibility, unload_qmanager, LeaveFz
<1>16. CASE AdminNext
  BY <1>16, <1>1, <1>5 DEF AdminNext, set_status_request_cb, set_property_request_cb,
         remove_property_request_cb, add_subgraph_request_cb, remove_subgraph_request_cb,
         status_request_cb, Edit
<1>17. CASE HandlerNext
  <2>1. CASE update_resource_then \/ notify_request_cb \/ match_multi_request_cb
    BY <2>1, <1>1 DEF update_resource_then, notify_request_cb, match_multi_request_cb
  <2>2. CASE feasibility_notified
    BY <2>2, <1>1 DEF feasibility_notified, LeaveFz
  <2> QED BY <1>17, <2>1, <2>2, <1>4, <1>5, <1>9, <1>10 DEF HandlerNext
<1>18. CASE JobNext
  BY <1>18, <1>6, <1>7, <1>8, <1>12, <1>13 DEF JobNext
<1>19. CASE UNCHANGED vars
  BY <1>19, <1>1 DEF vars
<1> QED BY <1>14, <1>15, <1>16, <1>17, <1>18, <1>19 DEF Next

\* The jobs that are still to be taken over go on running meanwhile.
LEMMA TodoStep ==
    ASSUME Typed, QueuesInv, TodoInv, [Next]_vars
    PROVE  TodoInv'
<1> USE DEF Typed
<1>1. CASE UNCHANGED <<qm, jm>>
  BY <1>1 DEF TodoInv, Running
<1>2. CASE qm' = Off \/ qm'.st = "resource" \/ qm'.st = "ready"
  BY <1>2 DEF TodoInv
<1>3. CASE update_on_resource_response
  <2>1. CASE qmanager_destroy
    BY <1>2, <2>1 DEF qmanager_destroy
  <2>2. CASE ~qmanager_destroy
    <3>1. /\ jm' = jm
          /\ qm.st = "resource" => qm'.todo = Running
          /\ qm.st = "resource" \/ (qm.st = "ready" /\ qm'.st = "ready")
      BY <1>3, <2>2, WokenEffect
    <3>2. Running' = Running
      BY <3>1 DEF Running
    <3> QED BY <1>2, <3>1, <3>2 DEF TodoInv
  <2> QED BY <2>1, <2>2
<1>4. CASE quiescent_request_cb \/ process_pending_quiescent_requests
  <2>1. Unmoved /\ jm' = jm /\ qm'.st = qm.st /\ qm'.todo = qm.todo
    BY <1>4, QuietEffect
  <2> QED BY <2>1 DEF TodoInv, Running, Unmoved
<1>5. ASSUME NEW j \in Job, jobmanager_hello_cb(j) PROVE TodoInv'
  <2> DEFINE n == queue_of(j)
             u == IF n \notin DOMAIN qm.queues THEN Error(rm)
                  ELSE reapi_update_allocate(rm, j, WithFreeRanks(HelloR(j), jm[j].freed))
  <2>1. /\ Unmoved /\ jm' = IF u.ok THEN jm ELSE [jm EXCEPT ![j].st = "killed"]
        /\ qm.st = "jobs" /\ qm'.todo = qm.todo \ {j}
    BY <1>5, HelloEffect
  <2> HIDE DEF u, n
  <2>2. \A k \in Job : k # j => jm'[k] = jm[k]
    BY <2>1 DEF JmTyped
  <2> QED BY <2>1, <2>2 DEF TodoInv, Running, Unmoved
<1>6. ASSUME NEW j \in Job, NEW ranks, jobmanager_free_cb(j, ranks) PROVE TodoInv'
  <2>1. qm.st = "ready" /\ qm'.st = qm.st
    BY <1>6, FreeEffect
  <2> QED BY <1>2, <2>1
<1>7. ASSUME NEW j \in Job, jobmanager_alloc_cb(j) PROVE TodoInv'
  <2>1. qm.st = "ready"
    BY <1>7 DEF jobmanager_alloc_cb
  <2>2. qm'.st = qm.st
    BY <1>7, InsertEffect
  <2> QED BY <1>2, <2>1, <2>2
<1>8. CASE check_watcher_cb
  <2>1. qm.st = "ready" /\ qm'.st = qm.st
    BY <1>8, CheckEffect
  <2> QED BY <1>2, <2>1
<1>9. CASE match_multi_then
  <2>1. qm.st = "ready" /\ qm'.st = qm.st
    BY <1>9, AnswerEffect
  <2> QED BY <1>2, <2>1
<1>10. ASSUME NEW c, load_qmanager(c) PROVE TodoInv'
  <2>1. qm' = Off \/ qm'.st = "resource"
    BY <1>10 DEF load_qmanager
  <2> QED BY <1>2, <2>1
<1>11. ASSUME NEW j \in Job, Submit(j) PROVE TodoInv'
  <2>1. PICK st : jm' = [jm EXCEPT ![j].st = st]
    BY <1>11 DEF Submit
  <2>2. jm[j].st = "new" /\ UNCHANGED qm
    BY <1>11 DEF Submit
  <2>3. \A k \in Job : k # j => jm'[k] = jm[k]
    BY <2>1 DEF JmTyped
  <2> QED BY <2>2, <2>3 DEF TodoInv, Running
<1>12. CASE CoreNext
  BY <1>12, <1>1 DEF CoreNext, CoreUp, CoreDown, CoreLost, CoreExpiration, Tell
<1>13. CASE ModuleNext
  BY <1>13, <1>1, <1>2, <1>10 DEF ModuleNext, load_resource, load_feasibility, unload_resource,
         unload_feasibility, unload_qmanager, LeaveFz, qmanager_destroy
<1>14. CASE AdminNext
  BY <1>14, <1>1, <1>4 DEF AdminNext, set_status_request_cb, set_property_request_cb,
         remove_property_request_cb, add_subgraph_request_cb, remove_subgraph_request_cb,
         status_request_cb, Edit
<1>15. CASE HandlerNext
  <2>1. CASE update_resource_then \/ notify_request_cb \/ match_multi_request_cb
    BY <2>1, <1>1 DEF update_resource_then, notify_request_cb, match_multi_request_cb
  <2>2. CASE feasibility_notified
    BY <2>2, <1>1 DEF feasibility_notified, LeaveFz
  <2> QED BY <1>15, <2>1, <2>2, <1>3, <1>4, <1>8, <1>9 DEF HandlerNext
<1>16. CASE JobNext
  BY <1>16, <1>5, <1>6, <1>7, <1>11 DEF JobNext
<1>17. CASE UNCHANGED vars
  BY <1>17, <1>1 DEF vars
<1> QED BY <1>12, <1>13, <1>14, <1>15, <1>16, <1>17 DEF Next

-----------------------------------------------------------------------------
(***************************************************************************)
(* Promises: a job has resources when it runs, and already when an answer   *)
(* that gives it some is on its way or has not been sent on to the job      *)
(* manager.                                                                 *)
(***************************************************************************)
Success(x) == x.k = "match" /\ x.m.err = ""

Runs(j) == j \in Job /\ jm[j].st = "running"

Answered(j, R) == \E i \in DOMAIN toQm : Success(toQm[i]) /\ toQm[i].m.j = j /\ toQm[i].m.R = R

Alloced(j, R) ==
    qm # Off /\ \E n \in DOMAIN qm.queues : \E a \in ToSet(qm.queues[n].alloced) : a.j = j /\ a.R = R

\* A job has R, without the ranks f that it has released.
Promised(j, R, f) ==
    \/ Runs(j) /\ R = jm[j].R /\ f = jm[j].freed
    \/ f = {} /\ (Answered(j, R) \/ Alloced(j, R))

\* A job the queue manager, if there is one, will still take over.
Greets(j) == qm # Off => (qm.st = "resource" \/ (qm.st = "jobs" /\ j \in qm.todo))

Tracked(j) == \E n \in DOMAIN qm.queues : j \in qm.queues[n].running

NoRequest == \A i \in DOMAIN reqs : reqs[i].k # "match"

\* The resource module came after the job and does not know it yet.
Waits(j) == Runs(j) /\ j \notin DOMAIN rm.jobs /\ NoRequest /\ Greets(j)

\* Core has what is lost no longer.
LostInv == \A i \in DOMAIN acq : acq[i].lost \cap core.ranks = {}

\* A request asks for a job once; one that runs meanwhile is known to the resource module.
RequestsInv ==
    \A i \in DOMAIN reqs : reqs[i].k = "match" =>
       /\ Distinct(reqs[i].jobs)
       /\ rm # Off => \A j \in ToSet(reqs[i].jobs) : Runs(j) => j \in DOMAIN rm.jobs

\* A job gets one answer with resources, and has none yet.
AnswersInv ==
    \A i \in DOMAIN toQm : \A j : Success(toQm[i]) /\ toQm[i].m.j = j =>
       /\ ~Runs(j) /\ \A R : ~Alloced(j, R)
       /\ \A k \in DOMAIN toQm : k # i /\ Success(toQm[k]) => toQm[k].m.j # j

\* A job has one R, and no two jobs have a rank that core still has.
DealsInv ==
    /\ \A j, R, f : Promised(j, R, f) => j \in Job /\ GoodR(R)
    /\ \A j, R, f, S, g : Promised(j, R, f) /\ Promised(j, S, g) => R = S /\ f = g
    /\ \A j, R, f, k, S, g : j # k /\ Promised(j, R, f) /\ Promised(k, S, g)
          => (R.ranks \ f) \cap (S.ranks \ g) \cap core.ranks = {}

\* What a job has is booked for it and nothing else is, unless it still waits for the
\* resource module to know of it: then nobody else has it.
BookedFor(j, R, f) ==
    /\ \A r \in Rank : rm.booked[r] = j => r \in R.ranks \ f
    /\ \A r \in (R.ranks \ f) \cap core.ranks :
          rm.booked[r] = j \/ (Waits(j) /\ rm.booked[r] = Nobody)
    /\ j \in DOMAIN rm.jobs /\ f = {} => rm.jobs[j].R.ranks = R.ranks

BookedInv ==
    rm # Off => /\ \A j, R, f : Promised(j, R, f) => BookedFor(j, R, f)
                /\ \A j, R : Answered(j, R) \/ Alloced(j, R) => j \in DOMAIN rm.jobs

\* A job with a booking runs in a queue that knows it.
TrackedInv ==
    (rm # Off /\ qm # Off) => \A j \in Job :
       Runs(j) /\ (\E r \in Rank : rm.booked[r] = j) => Greets(j) \/ Tracked(j)

Deals == RequestsInv /\ AnswersInv /\ DealsInv /\ BookedInv /\ TrackedInv

-----------------------------------------------------------------------------
(***************************************************************************)
(* Steps that promise nothing.                                             *)
(***************************************************************************)
\* No job starts, and one that goes on running keeps what it has.
JobsKept ==
    \A j : Runs(j)' => Runs(j) /\ jm'[j].R = jm[j].R /\ jm'[j].freed = jm[j].freed

AllocsKept == \A j, R : Alloced(j, R)' => Alloced(j, R)

\* Each answer was there before.
AnswersKept ==
    \E f : \A i \in DOMAIN toQm' :
       toQm'[i].k = "match" => /\ f[i] \in DOMAIN toQm /\ toQm[f[i]] = toQm'[i]
                               /\ \A k \in DOMAIN toQm' : k # i => f[k] # f[i]

RequestsKept ==
    \A i \in DOMAIN reqs' : reqs'[i].k = "match" =>
       \E k \in DOMAIN reqs : reqs[k].k = "match" /\ reqs[k].jobs = reqs'[i].jobs

\* Bookings end only where core has nothing any more.
BooksKept ==
    rm' # Off =>
       /\ rm # Off /\ rm'.jobs = rm.jobs
       /\ \A r \in Rank : rm'.booked[r] = rm.booked[r] \/ (rm'.booked[r] = Nobody /\ r \notin core'.ranks)

GreetsKept == \A j : Runs(j)' /\ Greets(j) => Greets(j)'

TracksKept ==
    \A j : qm' # Off /\ Runs(j)' => Greets(j)' \/ (qm # Off /\ (Tracked(j) => Tracked(j)'))

CoreKept == core'.ranks \subseteq core.ranks

\* Fewer promises.
LEMMA DealsFrom ==
    ASSUME DealsInv, CoreKept, \A j, R, f : Promised(j, R, f)' => Promised(j, R, f)
    PROVE  DealsInv'
<1>1. \A j, R, f : Promised(j, R, f)' => j \in Job /\ GoodR(R)
  BY DEF DealsInv
<1>2. \A j, R, f, S, g : Promised(j, R, f)' /\ Promised(j, S, g)' => R = S /\ f = g
  BY DEF DealsInv
<1>3. ASSUME NEW j, NEW R, NEW f, NEW k, NEW S, NEW g, j # k, Promised(j, R, f)', Promised(k, S, g)'
      PROVE  (R.ranks \ f) \cap (S.ranks \ g) \cap core'.ranks = {}
  <2>1. (R.ranks \ f) \cap (S.ranks \ g) \cap core.ranks = {}
    BY <1>3 DEF DealsInv
  <2> QED BY <2>1 DEF CoreKept
<1> QED BY <1>1, <1>2, <1>3 DEF DealsInv

\* Then no job has two answers either.
LEMMA AnswersFrom ==
    ASSUME AnswersInv, JobsKept, AllocsKept, AnswersKept
    PROVE  AnswersInv' /\ \A j, R : Answered(j, R)' => Answered(j, R)
<1>1. PICK f : \A i \in DOMAIN toQm' :
         toQm'[i].k = "match" => /\ f[i] \in DOMAIN toQm /\ toQm[f[i]] = toQm'[i]
                                 /\ \A k \in DOMAIN toQm' : k # i => f[k] # f[i]
  BY DEF AnswersKept
<1>2. ASSUME NEW j, NEW R, Answered(j, R)' PROVE Answered(j, R)
  <2>1. PICK i \in DOMAIN toQm' : Success(toQm[i])' /\ toQm'[i].m.j = j /\ toQm'[i].m.R = R
    BY <1>2 DEF Answered
  <2>2. f[i] \in DOMAIN toQm /\ toQm[f[i]] = toQm'[i] /\ Success(toQm[f[i]])
    BY <1>1, <2>1 DEF Success
  <2> QED BY <2>1, <2>2 DEF Answered
<1>3. ASSUME NEW i \in DOMAIN toQm', Success(toQm[i])', NEW j, toQm'[i].m.j = j
      PROVE  /\ ~Runs(j)' /\ \A R : ~Alloced(j, R)'
             /\ \A k \in DOMAIN toQm' : k # i /\ Success(toQm[k])' => toQm'[k].m.j # j
  <2>1. f[i] \in DOMAIN toQm /\ Success(toQm[f[i]]) /\ toQm[f[i]].m.j = j
    BY <1>1, <1>3 DEF Success
  <2>2. ~Runs(j) /\ \A R : ~Alloced(j, R)
    BY <2>1 DEF AnswersInv
  <2>3. ~Runs(j)' /\ \A R : ~Alloced(j, R)'
    BY <2>2 DEF JobsKept, AllocsKept
  <2>4. ASSUME NEW k \in DOMAIN toQm', k # i, Success(toQm[k])' PROVE toQm'[k].m.j # j
    <3>1. f[k] \in DOMAIN toQm /\ toQm[f[k]] = toQm'[k] /\ f[k] # f[i] /\ Success(toQm[f[k]])
      BY <1>1, <1>3, <2>4 DEF Success
    <3> QED BY <2>1, <3>1 DEF AnswersInv
  <2> QED BY <2>3, <2>4
<1>4. AnswersInv'
  BY <1>3 DEF AnswersInv
<1> QED BY <1>2, <1>4

\* No promise is new, and who waits for the resource module still does.
PromisesKept == \A j, R, f : Promised(j, R, f)' => Promised(j, R, f)

HoldsKept == \A j, R : (Answered(j, R) \/ Alloced(j, R))' => Answered(j, R) \/ Alloced(j, R)

WaitsKept == \A j, R, f : Promised(j, R, f)' /\ Waits(j) => Waits(j)'

\* Then what is promised stays booked.
LEMMA PromisesStep ==
    ASSUME DealsInv, BookedInv, CoreKept, BooksKept, PromisesKept, HoldsKept, WaitsKept
    PROVE  DealsInv' /\ BookedInv'
<1>1. DealsInv'
  BY DealsFrom DEF PromisesKept
<1>2. ASSUME rm' # Off, NEW j, NEW R, NEW f, Promised(j, R, f)' PROVE BookedFor(j, R, f)'
  <2>1. BookedFor(j, R, f) /\ j \in Job
    BY <1>2 DEF BookedInv, BooksKept, DealsInv, PromisesKept
  <2>2. /\ rm # Off /\ rm'.jobs = rm.jobs
        /\ \A r \in Rank : rm'.booked[r] = rm.booked[r] \/ (rm'.booked[r] = Nobody /\ r \notin core'.ranks)
    BY <1>2 DEF BooksKept
  <2>3. \A r \in Rank : rm'.booked[r] = j => r \in R.ranks \ f
    BY <2>1, <2>2, MatchAssumption DEF BookedFor
  <2>4. R.ranks \subseteq Rank
    BY <1>1, <1>2 DEF DealsInv, GoodR
  <2>5. ASSUME NEW r \in (R.ranks \ f) \cap core'.ranks
        PROVE  rm'.booked[r] = j \/ (Waits(j)' /\ rm'.booked[r] = Nobody)
    <3>1. rm.booked[r] = j \/ (Waits(j) /\ rm.booked[r] = Nobody)
      BY <2>1, <2>5 DEF BookedFor, CoreKept
    <3>2. rm'.booked[r] = rm.booked[r]
      BY <2>2, <2>4, <2>5
    <3> QED BY <1>2, <3>1, <3>2 DEF WaitsKept
  <2>6. j \in DOMAIN rm'.jobs /\ f = {} => rm'.jobs[j].R.ranks = R.ranks
    BY <2>1, <2>2 DEF BookedFor
  <2> QED BY <2>3, <2>5, <2>6 DEF BookedFor
<1>3. rm' # Off => \A j, R : (Answered(j, R) \/ Alloced(j, R))' => j \in DOMAIN rm'.jobs
  BY DEF HoldsKept, BooksKept, BookedInv
<1> QED BY <1>1, <1>2, <1>3 DEF BookedInv

\* Such a step keeps what was promised.
LEMMA QuietStep ==
    ASSUME Deals, JobsKept, AllocsKept, AnswersKept, RequestsKept, BooksKept, GreetsKept, TracksKept,
           CoreKept
    PROVE  Deals'
<1> USE DEF Deals
<1>1. AnswersInv' /\ \A j, R : Answered(j, R)' => Answered(j, R)
  BY AnswersFrom
<1>2. PromisesKept /\ HoldsKept
  BY <1>1 DEF PromisesKept, HoldsKept, Promised, JobsKept, AllocsKept
<1>3. RequestsInv'
  <2> SUFFICES ASSUME NEW i \in DOMAIN reqs', reqs'[i].k = "match"
               PROVE  /\ Distinct(reqs'[i].jobs)
                      /\ rm' # Off => \A j \in ToSet(reqs'[i].jobs) : Runs(j)' => j \in DOMAIN rm'.jobs
    BY DEF RequestsInv
  <2>1. PICK k \in DOMAIN reqs : reqs[k].k = "match" /\ reqs[k].jobs = reqs'[i].jobs
    BY DEF RequestsKept
  <2> QED BY <2>1 DEF RequestsInv, JobsKept, BooksKept
<1>4. NoRequest => NoRequest'
  BY DEF NoRequest, RequestsKept
<1>5. ASSUME rm' # Off PROVE DealsInv' /\ BookedInv'
  <2>1. ASSUME NEW j, NEW R, NEW f, Promised(j, R, f)', Waits(j) PROVE Waits(j)'
    <3>1. rm # Off /\ rm'.jobs = rm.jobs
      BY <1>5 DEF BooksKept
    <3>2. Runs(j)'
      BY <1>2, <2>1, <3>1 DEF Promised, HoldsKept, BookedInv, Waits
    <3> QED BY <1>4, <2>1, <3>1, <3>2 DEF Waits, GreetsKept
  <2>2. WaitsKept
    BY <2>1 DEF WaitsKept
  <2> QED BY <1>2, <2>2, PromisesStep
<1>6. ASSUME rm' = Off PROVE DealsInv' /\ BookedInv'
  BY <1>2, <1>6, DealsFrom DEF PromisesKept, BookedInv
<1>7. TrackedInv'
  <2> SUFFICES ASSUME rm' # Off, qm' # Off, NEW j \in Job, Runs(j)', NEW r \in Rank, rm'.booked[r] = j
               PROVE  Greets(j)' \/ Tracked(j)'
    BY DEF TrackedInv
  <2>1. Runs(j) /\ rm # Off /\ rm.booked[r] = j
    BY MatchAssumption DEF JobsKept, BooksKept
  <2> QED BY <2>1 DEF TrackedInv, GreetsKept, TracksKept
<1>8. DealsInv' /\ BookedInv'
  BY <1>5, <1>6
<1> QED BY <1>1, <1>3, <1>7, <1>8

\* A step without the job manager.
LEMMA SameJm ==
    ASSUME jm' = jm
    PROVE  JobsKept
  BY DEF JobsKept, Runs

\* A step without the queue manager.
LEMMA SameQm ==
    ASSUME qm' = qm
    PROVE  AllocsKept /\ GreetsKept /\ TracksKept
  BY DEF AllocsKept, GreetsKept, TracksKept, Alloced, Greets, Tracked

\* The requests are the same, without the first, none, or with one to subscribe.
LEMMA ReqsKept ==
    ASSUME ReqsTyped, \/ reqs' = reqs
                      \/ reqs' = << >>
                      \/ reqs # << >> /\ reqs' = Tail(reqs)
                      \/ \E who \in {"fz", "qm"} : reqs' = Append(reqs, [k |-> "notify", who |-> who])
    PROVE  RequestsKept
<1> DEFINE T == NotifyRequest \cup MatchRequest
           n == Len(reqs)
<1>0. reqs \in Seq(T)
  BY DEF ReqsTyped
<1> HIDE DEF T
<1>1. CASE reqs' = reqs \/ reqs' = << >>
  BY <1>1 DEF RequestsKept
<1>2. CASE reqs # << >> /\ reqs' = Tail(reqs)
  <2>1. /\ Len(reqs) \in Nat /\ Tail(reqs) \in Seq(T) /\ Len(Tail(reqs)) = Len(reqs) - 1
        /\ \A i \in 1..(Len(reqs) - 1) : Tail(reqs)[i] = reqs[i + 1]
    BY <1>0, <1>2, Shorter
  <2>2. DOMAIN reqs = 1..n /\ DOMAIN reqs' = 1..(n - 1) /\ n \in Nat
    <3> DEFINE t == Tail(reqs)
    <3>1. t \in Seq(T) /\ Len(t) = n - 1
      BY <2>1
    <3> HIDE DEF t
    <3>2. DOMAIN t = 1..Len(t) /\ DOMAIN reqs = 1..n
      BY <1>0, <3>1
    <3>3. DOMAIN t = 1..(n - 1)
      BY <3>1, <3>2
    <3> QED BY <1>2, <2>1, <3>2, <3>3 DEF t
  <2>3. \A i \in 1..(n - 1) : reqs'[i] = reqs[i + 1]
    BY <1>2, <2>1
  <2> HIDE DEF n
  <2>4. \A i \in 1..(n - 1) : i + 1 \in 1..n
    BY <2>2
  <2> QED BY <2>2, <2>3, <2>4 DEF RequestsKept
<1>3. ASSUME NEW who \in {"fz", "qm"}, reqs' = Append(reqs, [k |-> "notify", who |-> who])
      PROVE  RequestsKept
  <2> DEFINE x == [k |-> "notify", who |-> who]
  <2>1. x.k # "match" /\ x \in T
    BY DEF T, NotifyRequest
  <2> HIDE DEF x
  <2>2. /\ n \in Nat /\ DOMAIN reqs = 1..n /\ DOMAIN Append(reqs, x) = 1..(n + 1)
        /\ Append(reqs, x)[n + 1] = x /\ \A i \in 1..n : Append(reqs, x)[i] = reqs[i]
    BY <1>0, <2>1
  <2> HIDE DEF n
  <2>3. \A i \in 1..(n + 1) : i \in 1..n \/ i = n + 1
    BY <2>2
  <2>4. reqs' = Append(reqs, x)
    BY <1>3 DEF x
  <2> QED BY <2>1, <2>2, <2>3, <2>4 DEF RequestsKept
<1> QED BY <1>1, <1>2, <1>3

\* The answers are the same, without the first, none, or followed by responses that are
\* not answers.
LEMMA SameAnswers ==
    ASSUME ToQmTyped, \/ toQm' = toQm
                      \/ toQm' = << >>
                      \/ toQm # << >> /\ toQm' = Tail(toQm)
                      \/ \E s \in Seq({EmptyResponse, StreamError}) : toQm' = toQm \o s
    PROVE  AnswersKept
<1> DEFINE A == {EmptyResponse, StreamError} \cup MatchAnswer
           n == Len(toQm)
<1>0. toQm \in Seq(A)
  BY DEF ToQmTyped
<1> HIDE DEF A
<1>1. CASE toQm' = toQm \/ toQm' = << >>
  <2> DEFINE f == [i \in DOMAIN toQm |-> i]
  <2>1. \A i \in DOMAIN toQm : f[i] = i
    OBVIOUS
  <2> HIDE DEF f
  <2> QED BY <1>1, <2>1 DEF AnswersKept
<1>2. CASE toQm # << >> /\ toQm' = Tail(toQm)
  <2>1. /\ Len(toQm) \in Nat /\ Tail(toQm) \in Seq(A) /\ Len(Tail(toQm)) = Len(toQm) - 1
        /\ \A i \in 1..(Len(toQm) - 1) : Tail(toQm)[i] = toQm[i + 1]
    BY <1>0, <1>2, Shorter
  <2>2. DOMAIN toQm = 1..n /\ DOMAIN toQm' = 1..(n - 1) /\ n \in Nat
    <3> DEFINE t == Tail(toQm)
    <3>1. t \in Seq(A) /\ Len(t) = n - 1
      BY <2>1
    <3> HIDE DEF t
    <3>2. DOMAIN t = 1..Len(t) /\ DOMAIN toQm = 1..n
      BY <1>0, <3>1
    <3>3. DOMAIN t = 1..(n - 1)
      BY <3>1, <3>2
    <3> QED BY <1>2, <2>1, <3>2, <3>3 DEF t
  <2>3. \A i \in 1..(n - 1) : toQm'[i] = toQm[i + 1]
    BY <1>2, <2>1
  <2> HIDE DEF n
  <2> DEFINE f == [i \in 1..(n - 1) |-> i + 1]
  <2>4. \A i \in 1..(n - 1) : f[i] = i + 1 /\ f[i] \in 1..n
    BY <2>2
  <2>5. \A i, k \in 1..(n - 1) : i # k => f[i] # f[k]
    BY <2>2
  <2> HIDE DEF f
  <2>6. \A i \in DOMAIN toQm' : /\ f[i] \in DOMAIN toQm /\ toQm[f[i]] = toQm'[i]
                               /\ \A k \in DOMAIN toQm' : k # i => f[k] # f[i]
    <3> SUFFICES ASSUME NEW i \in 1..(n - 1)
                 PROVE  /\ f[i] \in 1..n /\ toQm[f[i]] = toQm'[i]
                        /\ \A k \in 1..(n - 1) : k # i => f[k] # f[i]
      BY <2>2
    <3>1. f[i] = i + 1 /\ f[i] \in 1..n
      BY <2>4
    <3>2. toQm'[i] = toQm[i + 1]
      BY <2>3
    <3>3. \A k \in 1..(n - 1) : k # i => f[k] # f[i]
      BY <2>5
    <3> QED BY <3>1, <3>2, <3>3
  <2> QED BY <2>6 DEF AnswersKept
<1>3. ASSUME NEW s \in Seq({EmptyResponse, StreamError}), toQm' = toQm \o s
      PROVE  AnswersKept
  <2> DEFINE B == {EmptyResponse, StreamError}
             m == Len(s)
  <2>1. \A x \in B : x.k # "match"
    BY DEF EmptyResponse, StreamError
  <2>2. B \subseteq A
    BY DEF A
  <2> HIDE DEF B
  <2>3. s \in Seq(B) /\ s \in Seq(A)
    <3>1. s \in Seq(B)
      BY <1>3 DEF B
    <3> QED BY <2>2, <3>1
  <2>4. /\ toQm \o s \in Seq(A) /\ Len(toQm \o s) = Len(toQm) + Len(s)
        /\ \A i \in 1..Len(toQm) : (toQm \o s)[i] = toQm[i]
        /\ \A i \in 1..Len(s) : (toQm \o s)[Len(toQm) + i] = s[i]
    BY <1>0, <2>3, InARow
  <2>5. n \in Nat /\ m \in Nat /\ DOMAIN toQm = 1..n /\ DOMAIN toQm' = 1..(n + m)
    BY <1>0, <1>3, <2>3, <2>4
  <2>6. \A i \in 1..m : s[i].k # "match"
    BY <2>1, <2>3
  <2>7. (\A i \in 1..n : toQm'[i] = toQm[i]) /\ (\A i \in 1..m : toQm'[n + i].k # "match")
    BY <1>3, <2>4, <2>6
  <2> HIDE DEF n, m
  <2>8. \A i \in 1..(n + m) : i \in 1..n \/ (i - n \in 1..m /\ n + (i - n) = i)
    BY <2>5
  <2>9. \A i \in 1..(n + m) : toQm'[i].k = "match" => i \in 1..n /\ toQm[i] = toQm'[i]
    BY <2>7, <2>8
  <2> DEFINE f == [i \in DOMAIN toQm' |-> i]
  <2>10. \A i \in DOMAIN toQm' : f[i] = i
    OBVIOUS
  <2> HIDE DEF f
  <2> QED BY <2>5, <2>9, <2>10 DEF AnswersKept
<1> QED BY <1>1, <1>2, <1>3

\* One response more.
LEMMA OneMore ==
    ASSUME ToQmTyped, NEW x \in {EmptyResponse, StreamError}
    PROVE  \E s \in Seq({EmptyResponse, StreamError}) : Append(toQm, x) = toQm \o s
<1> DEFINE A == {EmptyResponse, StreamError} \cup MatchAnswer
           B == {EmptyResponse, StreamError}
<1>1. x \in B /\ x \in A /\ toQm \in Seq(A)
  BY DEF ToQmTyped
<1> HIDE DEF A, B
<1>2. <<x>> \in Seq(B)
  BY <1>1
<1>3. Append(toQm, x) = toQm \o <<x>>
  BY <1>1
<1> QED BY <1>2, <1>3 DEF B

\* What the resource module says to its subscribers promises nothing.
LEMMA Responded ==
    ASSUME ToQmTyped, NEW subs, NEW msg, Respond(subs, msg)
    PROVE  AnswersKept
<1>1. toQm' = toQm \/ \E x \in {EmptyResponse, StreamError} : toQm' = Append(toQm, x)
  BY DEF Respond, Notified
<1> QED BY <1>1, OneMore, SameAnswers

\* The resource module forgets none of its bookings.
LEMMA SameBooks ==
    ASSUME RmSound, \/ rm' = rm \/ rm' = Off
                    \/ rm # Off /\ \E F : Only(rm, rm', F) /\ "booked" \notin F /\ "jobs" \notin F
    PROVE  BooksKept
<1>1. CASE rm' = rm \/ rm' = Off
  BY <1>1 DEF BooksKept
<1>2. ASSUME rm # Off, NEW F, Only(rm, rm', F), "booked" \notin F, "jobs" \notin F PROVE BooksKept
  BY <1>2 DEF BooksKept, Only, CtxFields
<1> QED BY <1>1, <1>2

\* A module that leaves takes no booking along.
LEMMA Disconnected ==
    ASSUME RmSound, NEW who, rm' = disconnect_request_cb(who)
    PROVE  BooksKept
<1>1. CASE rm = Off
  BY <1>1, SameBooks DEF disconnect_request_cb
<1>2. CASE rm # Off
  <2>1. Only(rm, rm', {"notify_msgs"})
    BY <1>2 DEF disconnect_request_cb, RmSound, Sound, Only, CtxFields
  <2>2. "booked" \notin {"notify_msgs"} /\ "jobs" \notin {"notify_msgs"}
    OBVIOUS
  <2> QED BY <1>2, <2>1, <2>2, SameBooks
<1> QED BY <1>1, <1>2

-----------------------------------------------------------------------------
\* What core still has is not reported as lost, whoever else moves.
LEMMA LostStep ==
    ASSUME CoreTyped, AcqTyped, LostInv, [Next]_vars
    PROVE  LostInv' /\ CoreKept
<1>1. CASE core' = core /\ acq' = acq
  BY <1>1 DEF LostInv, CoreKept
<1>2. CASE core' = core /\ acq' = << >>
  BY <1>2 DEF LostInv, CoreKept
<1>3. ASSUME core' = core, acq # << >>, acq' = Tail(acq) PROVE LostInv' /\ CoreKept
  <2> DEFINE n == Len(acq)
             t == Tail(acq)
  <2>1. t \in Seq(Update) /\ n \in Nat /\ Len(t) = n - 1 /\ \A i \in 1..(n - 1) : t[i] = acq[i + 1]
    BY <1>3, Shorter DEF AcqTyped
  <2>2. DOMAIN acq = 1..n
    BY DEF AcqTyped
  <2> HIDE DEF t, n
  <2>3. DOMAIN t = 1..Len(t)
    BY <2>1
  <2>4. \A i \in DOMAIN t : i + 1 \in DOMAIN acq /\ t[i] = acq[i + 1]
    BY <2>1, <2>2, <2>3
  <2> QED BY <1>3, <2>4 DEF LostInv, CoreKept, t
<1>4. ASSUME NEW c, NEW m, Tell(c, m), c.ranks \subseteq core.ranks, m.lost \cap c.ranks = {}
      PROVE  LostInv' /\ CoreKept
  <2>1. core' = c /\ (acq' = acq \/ acq' = Append(acq, m))
    BY <1>4 DEF Tell
  <2>2. \A i \in DOMAIN acq : acq[i].lost \cap c.ranks = {}
    BY <1>4 DEF LostInv
  <2>3. CASE acq' = acq
    BY <1>4, <2>1, <2>2, <2>3 DEF LostInv, CoreKept
  <2>4. CASE acq' = Append(acq, m)
    <3> DEFINE S == Update \cup {m}
    <3>1. acq \in Seq(S) /\ m \in S
      BY DEF AcqTyped
    <3> HIDE DEF S
    <3>2. DOMAIN Append(acq, m) = 1..(Len(acq) + 1) /\ DOMAIN acq = 1..Len(acq) /\ Len(acq) \in Nat
      BY <3>1
    <3>3. Append(acq, m)[Len(acq) + 1] = m /\ \A i \in 1..Len(acq) : Append(acq, m)[i] = acq[i]
      BY <3>1
    <3> DEFINE n == Len(acq)
               t == Append(acq, m)
    <3>4. DOMAIN t = 1..(n + 1) /\ DOMAIN acq = 1..n /\ n \in Nat /\ t[n + 1] = m /\ \A i \in 1..n : t[i] = acq[i]
      BY <3>2, <3>3
    <3> HIDE DEF n, t
    <3>5. \A i \in DOMAIN t : i = n + 1 \/ i \in 1..n
      BY <3>4
    <3>6. \A i \in DOMAIN t : t[i].lost \cap c.ranks = {}
      BY <1>4, <2>2, <3>4, <3>5
    <3> QED BY <1>4, <2>1, <2>4, <3>6 DEF LostInv, CoreKept, t
  <2> QED BY <2>1, <2>3, <2>4
<1>5. CASE CoreNext
  <2>1. DOMAIN core = {"ranks", "up", "exp"}
    BY DEF CoreTyped
  <2>2. ASSUME NEW r, CoreUp(r) \/ CoreDown(r) PROVE LostInv' /\ CoreKept
    <3>1. PICK c, m : Tell(c, m) /\ c.ranks = core.ranks /\ m.lost = {}
      BY <2>1, <2>2 DEF CoreUp, CoreDown, Nothing
    <3> QED BY <1>4, <3>1
  <2>3. ASSUME NEW r, CoreLost(r) PROVE LostInv' /\ CoreKept
    <3> DEFINE c == [core EXCEPT !.ranks = @ \ {r}, !.up = @ \ {r}]
               m == [Nothing EXCEPT !.down = {r}, !.lost = {r}]
    <3>1. Tell(c, m)
      BY <2>3 DEF CoreLost
    <3>2. c.ranks = core.ranks \ {r} /\ m.lost = {r}
      BY <2>1 DEF Nothing
    <3> HIDE DEF c, m
    <3> QED BY <1>4, <3>1, <3>2
  <2>4. ASSUME NEW e, CoreExpiration(e) PROVE LostInv' /\ CoreKept
    <3>1. PICK c, m : Tell(c, m) /\ c.ranks = core.ranks /\ m.lost = {}
      BY <2>1, <2>4 DEF CoreExpiration, Nothing
    <3> QED BY <1>4, <3>1
  <2> QED BY <1>5, <2>2, <2>3, <2>4 DEF CoreNext
<1>6. CASE qmanager_destroy \/ LeaveFz
  BY <1>6, <1>1 DEF qmanager_destroy, LeaveFz
<1>7. CASE ModuleNext
  BY <1>7, <1>1, <1>2, <1>6 DEF ModuleNext, load_resource, load_feasibility, load_qmanager,
         unload_resource, unload_feasibility, unload_qmanager
<1>8. CASE AdminNext
  BY <1>8, <1>1 DEF AdminNext, set_status_request_cb, set_property_request_cb,
         remove_property_request_cb, add_subgraph_request_cb, remove_subgraph_request_cb,
         status_request_cb, quiescent_request_cb, Edit
<1>9. CASE HandlerNext
  <2>1. CASE update_resource_then
    BY <2>1, <1>3 DEF update_resource_then
  <2>2. CASE notify_request_cb \/ match_multi_request_cb
    BY <2>2, <1>1 DEF notify_request_cb, match_multi_request_cb
  <2>3. CASE feasibility_notified \/ update_on_resource_response
    BY <2>3, <1>1, <1>6 DEF feasibility_notified, update_on_resource_response
  <2>4. CASE check_watcher_cb \/ match_multi_then \/ process_pending_quiescent_requests
    BY <2>4, <1>1 DEF check_watcher_cb, match_multi_then, process_pending_quiescent_requests
  <2> QED BY <1>9, <2>1, <2>2, <2>3, <2>4 DEF HandlerNext
<1>10. CASE JobNext
  BY <1>10, <1>1 DEF JobNext, Submit, jobmanager_alloc_cb, jobmanager_hello_cb, jobmanager_free_cb
<1>11. CASE UNCHANGED vars
  BY <1>11, <1>1 DEF vars
<1> QED BY <1>5, <1>7, <1>8, <1>9, <1>10, <1>11 DEF Next

-----------------------------------------------------------------------------
\* Steps of neither the queue manager nor the job manager that promise nothing.
LEMMA StillStep ==
    ASSUME Deals, CoreKept, qm' = qm, jm' = jm, AnswersKept, RequestsKept, BooksKept
    PROVE  Deals'
  BY QuietStep, SameJm, SameQm

\* Core, the feasibility module and the end of the resource module.
LEMMA OutsideStep ==
    ASSUME Typed, Deals, CoreKept,
           \/ CoreNext \/ LeaveFz \/ feasibility_notified \/ unload_resource
           \/ \E c : load_feasibility(c)
    PROVE  Deals'
<1> USE DEF Typed
<1>1. CASE CoreNext
  <2>1. qm' = qm /\ jm' = jm /\ toQm' = toQm /\ reqs' = reqs /\ rm' = rm
    BY <1>1 DEF CoreNext, CoreUp, CoreDown, CoreLost, CoreExpiration, Tell
  <2> QED BY <2>1, StillStep, SameAnswers, ReqsKept, SameBooks
<1>2. CASE LeaveFz
  <2>1. qm' = qm /\ jm' = jm /\ toQm' = toQm /\ reqs' = reqs /\ rm' = disconnect_request_cb("fz")
    BY <1>2 DEF LeaveFz
  <2>2. BooksKept
    BY <2>1, Disconnected
  <2> QED BY <2>1, <2>2, StillStep, SameAnswers, ReqsKept
<1>3. CASE feasibility_notified
  <2>1. CASE ~LeaveFz
    <3>1. qm' = qm /\ jm' = jm /\ toQm' = toQm /\ reqs' = reqs /\ rm' = rm
      BY <1>3, <2>1 DEF feasibility_notified
    <3> QED BY <3>1, StillStep, SameAnswers, ReqsKept, SameBooks
  <2> QED BY <1>2, <2>1
<1>4. CASE unload_resource
  <2>1. /\ qm' = qm /\ jm' = jm /\ reqs' = << >> /\ rm' = Off
        /\ toQm' = toQm \/ toQm' = Append(toQm, StreamError)
    BY <1>4 DEF unload_resource
  <2>2. AnswersKept
    BY <2>1, SameAnswers, OneMore
  <2> QED BY <2>1, <2>2, StillStep, ReqsKept, SameBooks
<1>5. ASSUME NEW c, load_feasibility(c) PROVE Deals'
  <2>1. /\ qm' = qm /\ jm' = jm /\ rm' = rm /\ toQm' = toQm
        /\ reqs' = reqs \/ reqs' = Append(reqs, [k |-> "notify", who |-> "fz"])
    BY <1>5 DEF load_feasibility
  <2> QED BY <2>1, StillStep, SameAnswers, ReqsKept, SameBooks
<1> QED BY <1>1, <1>2, <1>3, <1>4, <1>5

\* An administrator frees and books nothing.
LEMMA AdminStep ==
    ASSUME Typed, Deals, CoreKept, AdminNext, ~quiescent_request_cb
    PROVE  Deals'
<1> USE DEF Typed
<1>1. ASSUME NEW F, rm # Off, Only(rm, rm', F), "booked" \notin F, "jobs" \notin F,
             qm' = qm, jm' = jm, reqs' = reqs, AnswersKept
      PROVE  Deals'
  <2>1. BooksKept
    BY <1>1, SameBooks
  <2> QED BY <1>1, <2>1, StillStep, ReqsKept
<1>2. ASSUME NEW r, NEW up \in BOOLEAN, set_status_request_cb(r, up) PROVE Deals'
  <2> DEFINE c == mark_now(rm, {r}, up)
             F == {"up", "nodes_up", "down_updated"}
             subs == IF up THEN rm.notify_msgs ELSE {}
  <2>1. rm # Off /\ rm' = c /\ qm' = qm /\ jm' = jm /\ reqs' = reqs /\ Respond(subs, EmptyResponse)
    BY <1>2 DEF set_status_request_cb, Edit
  <2>2. Only(rm, c, F)
    BY <2>1, MarkNow DEF RmSound, Sound
  <2> HIDE DEF c, subs
  <2>3. AnswersKept
    BY <2>1, Responded
  <2>4. "booked" \notin F /\ "jobs" \notin F
    OBVIOUS
  <2> QED BY <1>1, <2>1, <2>2, <2>3, <2>4
<1>3. ASSUME NEW r, set_property_request_cb(r) \/ remove_property_request_cb(r) PROVE Deals'
  <2> DEFINE F == {"props"}
  <2>1. /\ rm # Off /\ qm' = qm /\ jm' = jm /\ reqs' = reqs /\ toQm' = toQm
        /\ \E z : rm' = [rm EXCEPT !.props = z]
    BY <1>3 DEF set_property_request_cb, remove_property_request_cb, Edit
  <2>2. Only(rm, rm', F)
    BY <2>1 DEF RmSound, Sound, Only, CtxFields
  <2>3. "booked" \notin F /\ "jobs" \notin F
    OBVIOUS
  <2> QED BY <1>1, <2>1, <2>2, <2>3, SameAnswers
<1>4. ASSUME NEW x, NEW F, rm # Off, Only(rm, x, F), "booked" \notin F, "jobs" \notin F,
             rm' = InitTraverser(x).ctx, qm' = qm, jm' = jm, reqs' = reqs, toQm' = toQm
      PROVE  Deals'
  <2>1. rm' = IF x.root THEN [x EXCEPT !.initialized = TRUE] ELSE x
    BY <1>4 DEF InitTraverser, Done, Error
  <2>2. Only(rm, rm', F \cup {"initialized"})
    BY <1>4, <2>1 DEF Only, CtxFields
  <2> QED BY <1>1, <1>4, <2>2, SameAnswers
<1>5. ASSUME NEW r \in Rank, add_subgraph_request_cb(r) PROVE Deals'
  <2> DEFINE x == [rm EXCEPT !.ranks = @ \cup {r}, !.up = @ \cup {r}]
             F == {"ranks", "up"}
  <2>1. /\ rm # Off /\ rm' = InitTraverser(x).ctx /\ qm' = qm /\ jm' = jm /\ reqs' = reqs /\ toQm' = toQm
    BY <1>5 DEF add_subgraph_request_cb, Edit, run_add_subgraph
  <2>2. Only(rm, x, F)
    BY <2>1 DEF RmSound, Sound, Only, CtxFields
  <2>3. "booked" \notin F /\ "jobs" \notin F
    OBVIOUS
  <2> HIDE DEF x, F
  <2> QED BY <1>4, <2>1, <2>2, <2>3
<1>6. ASSUME NEW r \in Rank, remove_subgraph_request_cb(r) PROVE Deals'
  <2> DEFINE x == [rm EXCEPT !.ranks = @ \ {r}, !.up = @ \ {r}, !.props = @ \ {r}]
             F == {"ranks", "up", "props"}
  <2>1. /\ rm # Off /\ rm' = InitTraverser(x).ctx /\ qm' = qm /\ jm' = jm /\ reqs' = reqs /\ toQm' = toQm
    BY <1>6 DEF remove_subgraph_request_cb, Edit, run_remove_subgraph
  <2>2. Only(rm, x, F)
    BY <2>1 DEF RmSound, Sound, Only, CtxFields
  <2>3. "booked" \notin F /\ "jobs" \notin F
    OBVIOUS
  <2> HIDE DEF x, F
  <2> QED BY <1>4, <2>1, <2>2, <2>3
<1>7. CASE status_request_cb
  <2> DEFINE all == StatusAll(rm)
             down == StatusDown(rm)
             F == {"r_alloc", "r_all", "updated", "r_down", "down_updated"}
  <2>1. /\ rm # Off /\ qm' = qm /\ jm' = jm /\ reqs' = reqs /\ toQm' = toQm
        /\ \E z : rm' = [rm EXCEPT !.r_alloc = z, !.r_all = all, !.updated = FALSE,
                                   !.r_down = down, !.down_updated = FALSE]
    BY <1>7 DEF status_request_cb
  <2> HIDE DEF all, down
  <2>2. Only(rm, rm', F)
    BY <2>1 DEF RmSound, Sound, Only, CtxFields
  <2>3. "booked" \notin F /\ "jobs" \notin F
    OBVIOUS
  <2> QED BY <1>1, <2>1, <2>2, <2>3, SameAnswers
<1> QED BY <1>2, <1>3, <1>5, <1>6, <1>7 DEF AdminNext

\* What core reports takes away only what core no longer has.
LEMMA FollowStep ==
    ASSUME Typed, LostInv, Deals, CoreKept, update_resource_then
    PROVE  Deals'
<1> USE DEF Typed
<1> DEFINE m == Head(acq)
           u == update_resource(rm, m)
           subs == IF u.ok THEN rm.notify_msgs ELSE {}
<1>1. /\ rm # Off /\ acq # << >> /\ rm' = u.ctx /\ Respond(subs, Payload(m))
      /\ qm' = qm /\ jm' = jm /\ reqs' = reqs /\ core' = core
  BY DEF update_resource_then
<1>2. m \in Update /\ m = acq[1]
  BY <1>1, Shorter DEF AcqTyped
<1>3. 1 \in DOMAIN acq
  <2> DEFINE n == Len(acq)
  <2>1. n \in Nat /\ n # 0 /\ DOMAIN acq = 1..n
    BY <1>1 DEF AcqTyped
  <2> HIDE DEF n
  <2> QED BY <2>1
<1>4. m.lost \cap core.ranks = {}
  BY <1>2, <1>3 DEF LostInv
<1>5. AnswersKept
  <2> DEFINE p == Payload(m)
  <2> HIDE DEF subs, p
  <2> QED BY <1>1, Responded DEF p
<1>6. m.res = NoR
  BY <1>2 DEF Update
<1>7. /\ Only(rm, u.ctx, {"up", "nodes_up", "down_updated", "booked", "ranks", "props", "end",
                          "notify_lost", "notify_expiration"})
      /\ u.ctx.booked = IF m.lost = {} THEN rm.booked
                        ELSE [r \in Rank |-> IF r \in m.lost THEN Nobody ELSE rm.booked[r]]
  <2> HIDE DEF m
  <2> QED BY <1>1, <1>6, Follow DEF RmSound, Sound
<1> HIDE DEF u, m, subs
<1>8. rm'.jobs = rm.jobs
  BY <1>1, <1>7 DEF Only, CtxFields
<1>9. \A r \in Rank : rm'.booked[r] = rm.booked[r] \/ (rm'.booked[r] = Nobody /\ r \in m.lost)
  BY <1>1, <1>7
<1>10. BooksKept
  BY <1>1, <1>4, <1>8, <1>9 DEF BooksKept
<1> QED BY <1>1, <1>5, <1>10, StillStep, ReqsKept

\* A subscriber is told how things are.
LEMMA NotifyStep ==
    ASSUME Typed, Deals, CoreKept, notify_request_cb
    PROVE  Deals'
<1> USE DEF Typed
<1> DEFINE old == [Nothing EXCEPT !.res = rm.notify_resources]
           now == [Nothing EXCEPT !.up = rm.up, !.down = rm.ranks \ rm.up,
                                  !.lost = rm.notify_lost, !.exp = rm.notify_expiration]
           out == IF IsSet(rm.opts, "load-file") THEN <<StreamError>>
                  ELSE <<Payload(old), Payload(now)>>
           f == [i \in DOMAIN out |-> IF out[i] = StreamError THEN StreamError ELSE Notified]
           B == {EmptyResponse, StreamError}
<1>1. /\ rm # Off /\ qm' = qm /\ jm' = jm /\ reqs # << >> /\ reqs' = Tail(reqs)
      /\ toQm' = toQm \/ toQm' = toQm \o f
  BY DEF notify_request_cb
<1>2. BooksKept
  <2>1. CASE rm' = rm
    BY <2>1, SameBooks
  <2>2. CASE rm' # rm
    <3> DEFINE who == Head(reqs).who
    <3>1. rm' = [rm EXCEPT !.notify_msgs = @ \cup {who}]
      BY <2>2 DEF notify_request_cb
    <3> HIDE DEF who
    <3>2. Only(rm, rm', {"notify_msgs"})
      BY <1>1, <3>1 DEF RmSound, Sound, Only, CtxFields
    <3>3. "booked" \notin {"notify_msgs"} /\ "jobs" \notin {"notify_msgs"}
      OBVIOUS
    <3> QED BY <1>1, <3>2, <3>3, SameBooks
  <2> QED BY <2>1, <2>2
<1>3. PICK N : out \in Seq(N)
  <2> DEFINE N == {StreamError, Payload(old), Payload(now)}
  <2> HIDE DEF old, now
  <2> DEFINE a == Payload(old)
             b == Payload(now)
             e == StreamError
  <2>a. out = (IF IsSet(rm.opts, "load-file") THEN <<e>> ELSE <<a, b>>) /\ N = {e, a, b}
    OBVIOUS
  <2> HIDE DEF a, b, e, out, N
  <2>b. <<e>> \in Seq(N) /\ <<a, b>> \in Seq(N)
    BY <2>a
  <2>1. out \in Seq(N)
    BY <2>a, <2>b
  <2> QED BY <2>1
<1> HIDE DEF B, out
<1>4. \A i \in DOMAIN out : f[i] \in B
  BY DEF B, Notified
<1>5. DOMAIN f = DOMAIN out /\ f = [i \in DOMAIN out |-> f[i]]
  OBVIOUS
<1> HIDE DEF f
<1>6. f \in Seq(B)
  BY <1>3, <1>4, <1>5, SameLength
<1>7. AnswersKept
  BY <1>1, <1>6, SameAnswers DEF B
<1> QED BY <1>1, <1>2, <1>7, StillStep, ReqsKept

\* The queue manager comes, meets the resource module, is asked whether it is idle,
\* or leaves.
LEMMA ManagerStep ==
    ASSUME Typed, Deals, CoreKept,
           \/ qmanager_destroy \/ update_on_resource_response
           \/ quiescent_request_cb \/ process_pending_quiescent_requests
           \/ \E c : load_qmanager(c)
    PROVE  Deals'
<1> USE DEF Typed
<1>1. CASE qmanager_destroy
  <2>1. /\ qm' = Off /\ toQm' = << >> /\ rm' = disconnect_request_cb("qm")
        /\ jm' = [j \in Job |-> IF jm[j].st = "waiting" THEN [jm[j] EXCEPT !.st = "idle"] ELSE jm[j]]
        /\ reqs' = [i \in DOMAIN reqs |-> IF reqs[i].k = "match" THEN [reqs[i] EXCEPT !.alive = FALSE]
                                          ELSE reqs[i]]
    BY <1>1 DEF qmanager_destroy
  <2>2. JobsKept
    <3> SUFFICES ASSUME NEW j \in Job, jm'[j].st = "running" PROVE jm'[j] = jm[j]
      BY DEF JobsKept, Runs
    <3>1. DOMAIN jm[j] = {"st", "R", "freed"}
      BY DEF JmTyped
    <3> QED BY <2>1, <3>1
  <2>3. AllocsKept /\ GreetsKept /\ TracksKept
    BY <2>1 DEF AllocsKept, GreetsKept, TracksKept, Alloced, Greets
  <2>4. RequestsKept
    <3> SUFFICES ASSUME NEW i \in DOMAIN reqs', reqs'[i].k = "match"
                 PROVE  reqs[i].k = "match" /\ reqs[i].jobs = reqs'[i].jobs /\ i \in DOMAIN reqs
      BY DEF RequestsKept
    <3>1. i \in DOMAIN reqs
      BY <2>1
    <3> DEFINE T == NotifyRequest \cup MatchRequest
    <3>2. reqs \in Seq(T)
      BY DEF ReqsTyped
    <3> HIDE DEF T
    <3>3. reqs[i] \in T
      BY <3>1, <3>2
    <3>4. reqs'[i] = IF reqs[i].k = "match" THEN [reqs[i] EXCEPT !.alive = FALSE] ELSE reqs[i]
      BY <2>1, <3>1
    <3> DEFINE x == reqs[i]
    <3> HIDE DEF x
    <3>5. x.k = "match" => [x EXCEPT !.alive = FALSE].jobs = x.jobs
      BY <3>3 DEF x, T, NotifyRequest, MatchRequest
    <3> QED BY <3>1, <3>4, <3>5 DEF x
  <2>5. AnswersKept /\ BooksKept
    BY <2>1, SameAnswers, Disconnected
  <2> QED BY <2>2, <2>3, <2>4, <2>5, QuietStep
<1>2. ASSUME Unmoved, rm' = rm, jm' = jm, reqs' = reqs, AnswersKept, GreetsKept,
             \A n \in DOMAIN qm.queues : qm'.queues[n].running = qm.queues[n].running
      PROVE  Deals'
  <2>1. AllocsKept
    BY <1>2 DEF AllocsKept, Alloced, Unmoved
  <2>2. TracksKept
    BY <1>2 DEF TracksKept, Tracked, Unmoved
  <2> QED BY <1>2, <2>1, <2>2, QuietStep, SameJm, ReqsKept, SameBooks
<1>3. CASE update_on_resource_response
  <2>1. CASE ~qmanager_destroy
    <3>1. /\ Unmoved /\ jm' = jm
          /\ \A n \in DOMAIN qm.queues : qm'.queues[n].running = qm.queues[n].running
          /\ qm.st = "resource" => qm'.todo = Running /\ (qm'.st = "jobs" \/ Running = {})
          /\ qm.st = "resource" \/ (qm.st = "ready" /\ qm'.st = "ready")
      BY <1>3, <2>1, WokenEffect
    <3>2. toQm # << >> /\ toQm' = Tail(toQm) /\ rm' = rm /\ reqs' = reqs
      BY <1>3, <2>1 DEF update_on_resource_response
    <3>3. AnswersKept
      BY <3>2, SameAnswers
    <3>4. GreetsKept
      BY <3>1 DEF GreetsKept, Greets, Runs, Running, Unmoved
    <3> QED BY <1>2, <3>1, <3>2, <3>3, <3>4
  <2> QED BY <1>1, <2>1
<1>4. CASE quiescent_request_cb \/ process_pending_quiescent_requests
  <2>1. Unmoved /\ jm' = jm /\ qm'.queues = qm.queues /\ qm'.st = qm.st /\ qm'.todo = qm.todo
    BY <1>4, QuietEffect
  <2>2. toQm' = toQm /\ rm' = rm /\ reqs' = reqs
    BY <1>4 DEF quiescent_request_cb, process_pending_quiescent_requests
  <2>3. GreetsKept
    BY <2>1 DEF GreetsKept, Greets, Unmoved
  <2> QED BY <1>2, <2>1, <2>2, <2>3, SameAnswers
<1>5. ASSUME NEW c, load_qmanager(c) PROVE Deals'
  <2> DEFINE o == qmanager_options(c.conf, c.args)
             Q == [n \in DOMAIN o.queues |-> Queue(o.queues[n])]
  <2>1. /\ jm' = jm /\ rm' = rm /\ toQm' = toQm
        /\ reqs' = reqs \/ reqs' = Append(reqs, [k |-> "notify", who |-> "qm"])
        /\ qm' = IF o.ok THEN [st |-> "resource", parents |-> o.parents, todo |-> {}, quiet |-> 0,
                               queues |-> Q]
                 ELSE Off
    BY <1>5 DEF load_qmanager
  <2>2. \A n \in DOMAIN Q : Q[n].alloced = << >>
    BY DEF Queue
  <2> HIDE DEF Q, o
  <2>3. qm' # Off => qm'.queues = Q /\ qm'.st = "resource"
    BY <2>1
  <2>4. GreetsKept /\ TracksKept
    BY <2>3 DEF GreetsKept, TracksKept, Greets
  <2>5. ToSet(<< >>) = {}
    BY DEF ToSet
  <2>6. AllocsKept
    BY <2>2, <2>3, <2>5 DEF AllocsKept, Alloced
  <2> QED BY <2>1, <2>4, <2>6, QuietStep, SameJm, SameAnswers, ReqsKept, SameBooks
<1> QED BY <1>1, <1>3, <1>4, <1>5

\* A job is submitted, or its queue hears of it.
LEMMA RequestStep ==
    ASSUME Typed, QueuesInv, Deals, CoreKept, NEW j \in Job, Submit(j) \/ jobmanager_alloc_cb(j)
    PROVE  Deals'
<1> USE DEF Typed
<1>1. rm' = rm /\ reqs' = reqs /\ toQm' = toQm
  BY DEF Submit, jobmanager_alloc_cb
<1>2. AnswersKept /\ RequestsKept /\ BooksKept
  BY <1>1, SameAnswers, ReqsKept, SameBooks
<1>3. /\ jm[j].st # "running"
      /\ \E w \in {"infeasible", "idle", "denied", "waiting"} : jm' = [jm EXCEPT ![j].st = w]
  BY DEF Submit, jobmanager_alloc_cb
<1>4. JobsKept
  <2>1. \A k \in Job : k # j => jm'[k] = jm[k]
    BY <1>3 DEF JmTyped
  <2>2. jm'[j].st # "running"
    BY <1>3 DEF JmTyped
  <2> QED BY <2>1, <2>2 DEF JobsKept, Runs
<1>5. CASE qm' = qm
  BY <1>2, <1>4, <1>5, QuietStep, SameQm
<1>6. CASE qm' # qm
  <2>1. jobmanager_alloc_cb(j)
    BY <1>6 DEF Submit
  <2>2. /\ qm # Off /\ qm' # Off /\ DOMAIN qm'.queues = DOMAIN qm.queues
        /\ qm'.st = qm.st /\ qm'.todo = qm.todo
        /\ \A n \in DOMAIN qm.queues : /\ qm'.queues[n].alloced = qm.queues[n].alloced
                                       /\ qm'.queues[n].running = qm.queues[n].running
    BY <1>6, <2>1, InsertEffect
  <2>3. AllocsKept
    BY <2>2 DEF AllocsKept, Alloced
  <2>4. GreetsKept /\ TracksKept
    BY <2>2 DEF GreetsKept, TracksKept, Greets, Tracked
  <2> QED BY <1>2, <1>4, <2>3, <2>4, QuietStep
<1> QED BY <1>5, <1>6

-----------------------------------------------------------------------------
\* A resource module that was just loaded holds nothing; running jobs wait for it to
\* hear of them.
LEMMA LoadStep ==
    ASSUME Typed, Deals, CoreKept, NEW c, load_resource(c)
    PROVE  Deals'
<1> USE DEF Typed, Deals
<1>1. /\ qm = Off /\ qm' = Off /\ jm' = jm /\ reqs' = << >> /\ toQm' = << >>
      /\ \E o : LET i == init_resource_graph(resource_ctx_t(o, TRUE), Acquired)
                IN  rm' = Off \/ (i.ok /\ rm' = i.ctx)
  BY DEF load_resource
<1>2. ASSUME rm' # Off PROVE DOMAIN rm'.jobs = {} /\ \A r \in Rank : rm'.booked[r] = Nobody
  <2>1. PICK o : /\ init_resource_graph(resource_ctx_t(o, TRUE), Acquired).ok
                 /\ rm' = init_resource_graph(resource_ctx_t(o, TRUE), Acquired).ctx
    BY <1>1, <1>2
  <2> QED BY <2>1, LoadedKept
<1>3. \A j, R : ~Answered(j, R)' /\ ~Alloced(j, R)'
  BY <1>1 DEF Answered, Alloced
<1>4. PromisesKept
  BY <1>1, <1>3 DEF PromisesKept, Promised, Runs
<1>5. DealsInv'
  BY <1>4, DealsFrom DEF PromisesKept
<1>6. RequestsInv' /\ AnswersInv' /\ TrackedInv'
  BY <1>1 DEF RequestsInv, AnswersInv, TrackedInv
<1>7. ASSUME rm' # Off, NEW j, NEW R, NEW f, Promised(j, R, f)' PROVE BookedFor(j, R, f)'
  <2>1. Runs(j)' /\ j \in Job
    BY <1>3, <1>7 DEF Promised, Runs
  <2>2. Waits(j)'
    BY <1>1, <1>2, <1>7, <2>1 DEF Waits, NoRequest, Greets
  <2>3. R.ranks \subseteq Rank
    BY <1>5, <1>7 DEF DealsInv, GoodR
  <2> QED BY <1>2, <1>7, <2>1, <2>2, <2>3, MatchAssumption DEF BookedFor
<1>8. BookedInv'
  BY <1>3, <1>7 DEF BookedInv
<1> QED BY <1>5, <1>6, <1>8

\* An answer is taken: what it gives waits to be sent on.
LEMMA AnswerStep ==
    ASSUME Typed, QueuesInv, Deals, CoreKept, match_multi_then
    PROVE  Deals'
<1> USE DEF Typed, Deals
<1> DEFINE m == Head(toQm).m
<1>1. /\ qm # Off /\ qm' # Off /\ DOMAIN qm'.queues = DOMAIN qm.queues
      /\ qm.st = "ready" /\ qm'.st = qm.st /\ qm'.todo = qm.todo /\ jm' = jm
      /\ toQm # << >> /\ toQm' = Tail(toQm) /\ Head(toQm) \in MatchAnswer
      /\ \A n \in DOMAIN qm.queues :
            /\ qm.queues[n].running \subseteq qm'.queues[n].running
            /\ ToSet(qm'.queues[n].alloced) \subseteq
                  ToSet(qm.queues[n].alloced) \cup (IF m.err = "" THEN {[j |-> m.j, R |-> m.R]} ELSE {})
  BY AnswerEffect
<1>2. rm' = rm /\ reqs' = reqs
  BY DEF match_multi_then
<1>3. Head(toQm) = toQm[1] /\ 1 \in DOMAIN toQm /\ \A i \in DOMAIN toQm' :
         i \in Nat /\ i + 1 \in DOMAIN toQm /\ i + 1 # 1 /\ toQm'[i] = toQm[i + 1]
  <2> DEFINE A == {EmptyResponse, StreamError} \cup MatchAnswer
             n == Len(toQm)
             t == Tail(toQm)
  <2>1. toQm \in Seq(A)
    BY DEF ToQmTyped
  <2> HIDE DEF A
  <2>2. t \in Seq(A) /\ n \in Nat /\ Len(t) = n - 1 /\ Head(toQm) = toQm[1]
        /\ \A i \in 1..(n - 1) : t[i] = toQm[i + 1]
    BY <1>1, <2>1, Shorter
  <2>3. DOMAIN toQm = 1..n /\ n # 0
    <3>1. toQm # << >>
      BY <1>1
    <3> QED BY <2>1, <3>1
  <2> HIDE DEF t, n
  <2>4. DOMAIN t = 1..Len(t)
    BY <2>2
  <2>5. 1 \in 1..n /\ \A i \in 1..(n - 1) : i \in Nat /\ i + 1 \in 1..n /\ i + 1 # 1
    BY <2>2, <2>3
  <2> QED BY <1>1, <2>2, <2>3, <2>4, <2>5 DEF t
<1>4. ASSUME NEW j, NEW R, Answered(j, R)' PROVE Answered(j, R)
  BY <1>3, <1>4 DEF Answered, Success
<1>5. ASSUME NEW j, NEW R, Alloced(j, R)'
      PROVE  Alloced(j, R) \/ (Success(toQm[1]) /\ m.j = j /\ m.R = R /\ Answered(j, R))
  <2>1. PICK n \in DOMAIN qm.queues : \E a \in ToSet(qm'.queues[n].alloced) : a.j = j /\ a.R = R
    BY <1>1, <1>5 DEF Alloced
  <2>2. PICK a \in ToSet(qm'.queues[n].alloced) : a.j = j /\ a.R = R
    BY <2>1
  <2>3. CASE a \in ToSet(qm.queues[n].alloced)
    BY <1>1, <2>1, <2>2, <2>3 DEF Alloced
  <2>4. CASE m.err = "" /\ a = [j |-> m.j, R |-> m.R]
    <3>1. m.j = j /\ m.R = R
      BY <2>2, <2>4
    <3>2. Success(toQm[1])
      BY <1>1, <1>3, <2>4 DEF Success, MatchAnswer
    <3> QED BY <1>3, <3>1, <3>2 DEF Answered
  <2> QED BY <1>1, <2>1, <2>2, <2>3, <2>4
<1>6. PromisesKept /\ HoldsKept
  BY <1>1, <1>4, <1>5 DEF PromisesKept, HoldsKept, Promised, Runs
<1>7. \A j : ~Waits(j) /\ ~Greets(j)
  BY <1>1 DEF Waits, Greets
<1>8. DealsInv' /\ BookedInv'
  BY <1>2, <1>6, <1>7, PromisesStep, SameBooks DEF WaitsKept
<1>9. AnswersInv'
  <2> SUFFICES ASSUME NEW i \in DOMAIN toQm', NEW j, Success(toQm[i])', toQm'[i].m.j = j
               PROVE  /\ ~Runs(j)' /\ \A R : ~Alloced(j, R)'
                      /\ \A k \in DOMAIN toQm' : k # i /\ Success(toQm[k])' => toQm'[k].m.j # j
    BY DEF AnswersInv
  <2>1. i + 1 \in DOMAIN toQm /\ i + 1 # 1 /\ toQm'[i] = toQm[i + 1] /\ Success(toQm[i + 1])
    BY <1>3 DEF Success
  <2>2. /\ ~Runs(j) /\ \A R : ~Alloced(j, R)
        /\ \A k \in DOMAIN toQm : k # i + 1 /\ Success(toQm[k]) => toQm[k].m.j # j
    BY <2>1 DEF AnswersInv
  <2>3. ~Runs(j)'
    BY <1>1, <2>2 DEF Runs
  <2>4. \A R : ~Alloced(j, R)'
    BY <1>3, <1>5, <2>1, <2>2
  <2>5. ASSUME NEW k \in DOMAIN toQm', k # i, Success(toQm[k])' PROVE toQm'[k].m.j # j
    <3>1. k + 1 \in DOMAIN toQm /\ toQm'[k] = toQm[k + 1] /\ Success(toQm[k + 1])
      BY <1>3, <2>5 DEF Success
    <3>2. k + 1 # i + 1
      <4>1. i \in Int /\ k \in Int
        BY <1>3
      <4> QED BY <2>5, <4>1
    <3> QED BY <2>2, <3>1, <3>2
  <2> QED BY <2>3, <2>4, <2>5
<1>10. RequestsInv'
  BY <1>1, <1>2 DEF RequestsInv, Runs
<1>11. TrackedInv'
  BY <1>1, <1>2, <1>7 DEF TrackedInv, Runs, Tracked
<1> QED BY <1>8, <1>9, <1>10, <1>11

\* A loop that starts, or does not, keeps a queue in its types.
LEMMA QueueTypedLoop ==
    ASSUME QmTyped, qm # Off
    PROVE  \A n \in DOMAIN qm.queues :
              QueueTyped(run_sched_loop(qm.queues[n])) /\ QueueTyped(qm.queues[n])
<1> SUFFICES ASSUME NEW n \in DOMAIN qm.queues
             PROVE  QueueTyped(run_sched_loop(qm.queues[n])) /\ QueueTyped(qm.queues[n])
  OBVIOUS
<1>1. QueueTyped(qm.queues[n])
  BY DEF QmTyped
<1>2. PICK m : m \in Result
  <2>1. [j |-> Nobody, err |-> "", R |-> NoR] \in Result
    BY DEF Result, GivenR
  <2> QED BY <2>1
<1> QED BY <1>1, <1>2, QueueTypedSteps

\* The new requests of check_watcher_cb ask for the first jobs of a queue.
LEMMA CheckRequests ==
    ASSUME QmTyped, ReqsTyped, QueuesInv', check_watcher_cb
    PROVE  \A i \in DOMAIN reqs' : reqs'[i].k = "match" =>
              \/ i \in DOMAIN reqs /\ reqs'[i] = reqs[i]
              \/ \E n \in DOMAIN qm.queues : /\ Distinct(reqs'[i].jobs)
                                             /\ ToSet(reqs'[i].jobs) \subseteq Pend(qm'.queues[n])
<1> DEFINE names == DOMAIN qm.queues
           any == \E n \in names : qm.queues[n].sched
           looped == [n \in names |-> IF any THEN run_sched_loop(qm.queues[n]) ELSE qm.queues[n]]
           new == {n \in names : looped[n].active /\ ~qm.queues[n].active}
           started == SetToSeq(new)
           f == [i \in DOMAIN started |-> [k |-> "match", queue |-> started[i], alive |-> TRUE,
                                           jobs |-> pack_jobs(looped[started[i]])]]
<1>1. /\ qm # Off /\ (reqs' = reqs \/ reqs' = reqs \o f)
      /\ qm' = [qm EXCEPT !.queues = [n \in names |-> [looped[n] EXCEPT !.alloced = << >>,
                                                                        !.rejected = << >>]]]
  BY DEF check_watcher_cb
<1>2. new \subseteq names /\ IsFiniteSet(new)
  <2>1. IsFiniteSet(names) /\ new \subseteq names
    BY <1>1 DEF QmTyped
  <2> HIDE DEF new, names
  <2> QED BY <2>1, FS_Subset
<1>3. \A n \in names : QueueTyped(looped[n])
  BY <1>1, QueueTypedLoop
<1> HIDE DEF new, looped
<1>4. started \in Seq(new)
  BY <1>2, Enumerated
<1> HIDE DEF started
<1>5. ASSUME NEW n \in names
      PROVE  LET s == pack_jobs(looped[n])
             IN  s \in Seq(Job) /\ Distinct(s) /\ ToSet(s) \subseteq Pend(qm'.queues[n])
  <2> DEFINE q == looped[n]
             s == q.pending
  <2>1. QueueTyped(q)
    BY <1>3, <1>5
  <2>2. qm'.queues[n].pending = s /\ n \in DOMAIN qm'.queues /\ qm' # Off
    <3>1. DOMAIN qm = QmFields
      BY <1>1 DEF QmTyped
    <3> DEFINE Q == [x \in names |-> [looped[x] EXCEPT !.alloced = << >>, !.rejected = << >>]]
    <3>2. Q[n].pending = s /\ n \in DOMAIN Q
      BY <1>5, <2>1 DEF QueueTyped, QueueFields
    <3> HIDE DEF Q
    <3>3. DOMAIN qm' = QmFields /\ qm'.queues = Q
      BY <1>1, <3>1 DEF QmFields, Q
    <3> QED BY <3>2, <3>3, QmIsOn
  <2>3. Distinct(s) /\ ToSet(s) \subseteq Pend(qm'.queues[n])
    BY <2>2 DEF QueuesInv, Tidy, Pend
  <2> DEFINE d == q.par.queue_depth
             k == Lesser(Len(s), d)
  <2>4. s \in Seq(Job) /\ d \in Nat
    BY <2>1 DEF QueueTyped
  <2>5. Len(s) \in Nat
    BY <2>4
  <2> HIDE DEF s, d
  <2>6. k \in Nat /\ k <= Len(s)
    <3> DEFINE l == Len(s)
    <3> HIDE DEF l
    <3>1. l \in Nat
      BY <2>5 DEF l
    <3>2. Lesser(l, d) \in Nat /\ Lesser(l, d) <= l
      BY <2>4, <3>1 DEF Lesser
    <3> QED BY <3>2 DEF l
  <2> HIDE DEF k
  <2>7. ToSet(SubSeq(s, 1, k)) \subseteq ToSet(s) /\ Distinct(SubSeq(s, 1, k))
    BY <2>3, <2>4, <2>6, PrefixSet
  <2>8. SubSeq(s, 1, k) \in Seq(Job)
    BY <2>4, <2>6
  <2>9. pack_jobs(looped[n]) = SubSeq(s, 1, k)
    BY DEF pack_jobs, s, k, d
  <2> QED BY <2>3, <2>7, <2>8, <2>9
<1>6. \A i \in DOMAIN started : started[i] \in names
  BY <1>2, <1>4
<1> DEFINE P(y) == \E n \in names : Distinct(y.jobs) /\ ToSet(y.jobs) \subseteq Pend(qm'.queues[n])
<1>7. \A i \in DOMAIN f : P(f[i])
  BY <1>5, <1>6
<1>8. DOMAIN f = DOMAIN started
  OBVIOUS
<1> HIDE DEF P, f
<1>9. CASE reqs' = reqs
  BY <1>9
<1>10. CASE reqs' = reqs \o f
  <2>1. ASSUME NEW i \in DOMAIN (reqs \o f)
        PROVE  (i \in DOMAIN reqs /\ (reqs \o f)[i] = reqs[i]) \/ \E x \in DOMAIN f : (reqs \o f)[i] = f[x]
    <3> DEFINE T == NotifyRequest \cup MatchRequest
               S == T \cup {f[x] : x \in DOMAIN f}
    <3>1. reqs \in Seq(T) /\ T \subseteq S
      BY DEF ReqsTyped
    <3>2. \A x \in DOMAIN f : f[x] \in S
      OBVIOUS
    <3> HIDE DEF S, T
    <3>3. reqs \in Seq(S)
      BY <3>1
    <3>4. f \in Seq(S)
      <4>1. f = [x \in DOMAIN started |-> f[x]]
        BY DEF f
      <4> QED BY <1>4, <1>8, <3>2, <4>1, SameLength
    <3> QED BY <2>1, <3>3, <3>4, InEither
  <2> QED BY <1>7, <1>10, <2>1 DEF P
<1> QED BY <1>1, <1>9, <1>10 DEF P

\* What waits to be sent on is sent: jobs run with what they were given.
LEMMA CheckStep ==
    ASSUME Typed, QueuesInv, QueuesInv', Deals, CoreKept, check_watcher_cb
    PROVE  Deals'
<1> USE DEF Typed, Deals
<1>1. /\ qm # Off /\ qm' # Off /\ DOMAIN qm'.queues = DOMAIN qm.queues
      /\ qm.st = "ready" /\ qm'.st = qm.st /\ qm'.todo = qm.todo
      /\ \A n \in DOMAIN qm.queues : /\ ToSet(qm'.queues[n].alloced) = {}
                                     /\ qm'.queues[n].running = qm.queues[n].running
      /\ \A j \in Job :
            \/ \E n \in DOMAIN qm.queues : \E a \in ToSet(qm.queues[n].alloced) :
                  a.j = j /\ jm'[j] = [jm[j] EXCEPT !.st = "running", !.R = a.R]
            \/ /\ \A n \in DOMAIN qm.queues : j \notin Given(qm.queues[n])
               /\ jm'[j] = jm[j] \/ \E w \in Notes : jm'[j] = [jm[j] EXCEPT !.st = w]
  BY CheckEffect
<1>2. rm' = rm /\ toQm' = toQm
  BY DEF check_watcher_cb
<1>3. ASSUME NEW j, Runs(j)'
      PROVE  \/ Runs(j) /\ jm'[j] = jm[j]
             \/ /\ Alloced(j, jm'[j].R) /\ jm'[j].freed = {}
                /\ \E n \in DOMAIN qm.queues : j \in Given(qm.queues[n])
  <2>1. j \in Job /\ jm'[j].st = "running" /\ DOMAIN jm[j] = {"st", "R", "freed"}
    BY <1>3 DEF Runs, JmTyped
  <2>2. ASSUME NEW n \in DOMAIN qm.queues, NEW a \in ToSet(qm.queues[n].alloced), a.j = j,
               jm'[j] = [jm[j] EXCEPT !.st = "running", !.R = a.R]
        PROVE  Alloced(j, jm'[j].R) /\ jm'[j].freed = {} /\ j \in Given(qm.queues[n])
    <3>1. j \in Given(qm.queues[n])
      BY <2>2 DEF Given
    <3>2. jm[j].freed = {}
      BY <1>1, <2>2, <3>1 DEF QueuesInv, Waiting
    <3>3. jm'[j].R = a.R /\ jm'[j].freed = {}
      BY <2>1, <2>2, <3>2
    <3> QED BY <1>1, <2>2, <3>1, <3>3 DEF Alloced
  <2>3. ASSUME NEW w \in Notes, jm'[j] = [jm[j] EXCEPT !.st = w] PROVE FALSE
    BY <2>1, <2>3 DEF Notes
  <2>4. CASE jm'[j] = jm[j]
    BY <2>1, <2>4 DEF Runs
  <2> QED BY <1>1, <2>1, <2>2, <2>3, <2>4
<1>4. \A j, R : ~Alloced(j, R)' /\ (Answered(j, R)' => Answered(j, R))
  BY <1>1, <1>2 DEF Alloced, Answered, Success
<1>5. PromisesKept
  <2> SUFFICES ASSUME NEW j, NEW R, NEW f, Promised(j, R, f)' PROVE Promised(j, R, f)
    BY DEF PromisesKept
  <2>1. CASE f = {} /\ Answered(j, R)'
    BY <1>4, <2>1 DEF Promised
  <2>2. CASE Runs(j)' /\ R = jm'[j].R /\ f = jm'[j].freed
    BY <1>3, <2>2 DEF Promised
  <2> QED BY <1>4, <2>1, <2>2 DEF Promised
<1>6. HoldsKept
  BY <1>4 DEF HoldsKept
<1>7. \A j : ~Waits(j) /\ ~Greets(j)
  BY <1>1 DEF Waits, Greets
<1>8. DealsInv' /\ BookedInv'
  BY <1>2, <1>5, <1>6, <1>7, PromisesStep, SameBooks DEF WaitsKept
<1>9. AnswersInv'
  <2> SUFFICES ASSUME NEW i \in DOMAIN toQm', NEW j, Success(toQm[i])', toQm'[i].m.j = j
               PROVE  /\ ~Runs(j)' /\ \A R : ~Alloced(j, R)'
                      /\ \A k \in DOMAIN toQm' : k # i /\ Success(toQm[k])' => toQm'[k].m.j # j
    BY DEF AnswersInv
  <2>1. i \in DOMAIN toQm /\ Success(toQm[i]) /\ toQm[i].m.j = j
    BY <1>2 DEF Success
  <2>2. /\ ~Runs(j) /\ \A R : ~Alloced(j, R)
        /\ \A k \in DOMAIN toQm : k # i /\ Success(toQm[k]) => toQm[k].m.j # j
    BY <2>1 DEF AnswersInv
  <2> QED BY <1>2, <1>3, <1>4, <2>2 DEF Success
<1>10. TrackedInv'
  <2> SUFFICES ASSUME rm' # Off, NEW j \in Job, Runs(j)', NEW r \in Rank, rm'.booked[r] = j
               PROVE  Tracked(j)'
    BY DEF TrackedInv
  <2>1. CASE Runs(j)
    BY <1>1, <1>2, <1>7, <2>1 DEF TrackedInv, Tracked
  <2>2. ASSUME NEW n \in DOMAIN qm.queues, j \in Given(qm.queues[n]) PROVE Tracked(j)'
    BY <1>1, <2>2 DEF QueuesInv, Tidy, Tracked
  <2> QED BY <1>3, <2>1, <2>2
<1>11. ASSUME NEW i \in DOMAIN reqs', reqs'[i].k = "match"
       PROVE  \/ i \in DOMAIN reqs /\ reqs'[i] = reqs[i]
              \/ \E n \in DOMAIN qm.queues : /\ Distinct(reqs'[i].jobs)
                                             /\ ToSet(reqs'[i].jobs) \subseteq Pend(qm'.queues[n])
  BY <1>11, CheckRequests
<1>12. RequestsInv'
  <2> SUFFICES ASSUME NEW i \in DOMAIN reqs', reqs'[i].k = "match"
               PROVE  /\ Distinct(reqs'[i].jobs)
                      /\ rm' # Off => \A j \in ToSet(reqs'[i].jobs) : Runs(j)' => j \in DOMAIN rm'.jobs
    BY DEF RequestsInv
  <2>1. CASE i \in DOMAIN reqs /\ reqs'[i] = reqs[i]
    <3>1. /\ Distinct(reqs[i].jobs)
          /\ rm # Off => \A j \in ToSet(reqs[i].jobs) : Runs(j) => j \in DOMAIN rm.jobs
      BY <2>1 DEF RequestsInv
    <3>2. rm # Off => \A j, R : Alloced(j, R) => j \in DOMAIN rm.jobs
      BY DEF BookedInv
    <3> QED BY <1>2, <1>3, <2>1, <3>1, <3>2
  <2>2. ASSUME NEW n \in DOMAIN qm.queues, Distinct(reqs'[i].jobs),
               ToSet(reqs'[i].jobs) \subseteq Pend(qm'.queues[n])
        PROVE  /\ Distinct(reqs'[i].jobs) /\ \A j \in ToSet(reqs'[i].jobs) : ~Runs(j)'
    <3>1. \A j \in Pend(qm'.queues[n]) : Waiting(j, n)'
      BY <1>1, <2>2 DEF QueuesInv
    <3>2. \A j : Waiting(j, n)' => ~Runs(j)'
      BY DEF Waiting, Runs, Notes
    <3> QED BY <2>2, <3>1, <3>2
  <2> QED BY <1>11, <2>1, <2>2
<1> QED BY <1>8, <1>9, <1>10, <1>12

\* A running job is promised nothing else.
LEMMA RunsOnly ==
    ASSUME QueuesInv, AnswersInv, NEW j, Runs(j)
    PROVE  \A R : ~Answered(j, R) /\ ~Alloced(j, R)
<1>1. \A R : ~Answered(j, R)
  BY DEF Answered, AnswersInv
<1>2. ASSUME NEW R, Alloced(j, R) PROVE FALSE
  <2>1. PICK n \in DOMAIN qm.queues : j \in Given(qm.queues[n])
    BY <1>2 DEF Alloced, Given
  <2>2. Waiting(j, n)
    BY <1>2, <2>1 DEF QueuesInv, Alloced
  <2> QED BY <2>2 DEF Waiting, Runs, Notes
<1> QED BY <1>1, <1>2

\* The answers are still good when no job has started.
LEMMA AnswersSame ==
    ASSUME AnswersInv, toQm' = toQm, \A j : Runs(j)' => Runs(j), \A j, R : Alloced(j, R)' => Alloced(j, R)
    PROVE  AnswersInv'
<1> SUFFICES ASSUME NEW i \in DOMAIN toQm', NEW j, Success(toQm[i])', toQm'[i].m.j = j
             PROVE  /\ ~Runs(j)' /\ \A R : ~Alloced(j, R)'
                    /\ \A k \in DOMAIN toQm' : k # i /\ Success(toQm[k])' => toQm'[k].m.j # j
  BY DEF AnswersInv
<1>1. i \in DOMAIN toQm /\ Success(toQm[i]) /\ toQm[i].m.j = j
  BY DEF Success
<1>2. /\ ~Runs(j) /\ \A R : ~Alloced(j, R)
      /\ \A k \in DOMAIN toQm : k # i /\ Success(toQm[k]) => toQm[k].m.j # j
  BY <1>1 DEF AnswersInv
<1> QED BY <1>2 DEF Success

\* A job releases some or the last of its ranks.
LEMMA FreeStep ==
    ASSUME Typed, QueuesInv, Deals, CoreKept, NEW j \in Job, NEW ranks, jobmanager_free_cb(j, ranks)
    PROVE  Deals'
<1> USE DEF Typed, Deals
<1> DEFINE rest == jm[j].R.ranks \ jm[j].freed
           final == ranks = rest
           c == IF final THEN reapi_cancel(rm, j) ELSE reapi_cancel_R(rm, j, ranks)
<1>1. /\ Unmoved /\ reqs' = << >> /\ toQm' = toQm
      /\ qm.st = "ready" /\ qm'.st = qm.st
      /\ jm[j].st = "running" /\ ranks # {}
      /\ jm' = [jm EXCEPT ![j].freed = @ \cup ranks, ![j].st = IF final THEN "gone" ELSE @]
      /\ \/ rm' = rm /\ \A n \in DOMAIN qm.queues : j \notin qm.queues[n].running
         \/ rm' = c.ctx
      /\ \A n \in DOMAIN qm.queues :
            /\ qm.queues[n].running \ {j} \subseteq qm'.queues[n].running
            /\ ~final /\ ~c.full => qm.queues[n].running \subseteq qm'.queues[n].running
  BY FreeEffect
<1>2. final \in BOOLEAN
  OBVIOUS
<1> HIDE DEF rest
<1>3. rm # Off =>
         /\ SameJobs(rm, c.ctx, {j})
         /\ c.ctx.booked = Without(rm, j, IF final THEN Rank ELSE ranks)
         /\ c.full => \A r \in Rank : c.ctx.booked[r] # j
  <2> HIDE DEF final
  <2> SUFFICES ASSUME rm # Off
               PROVE  /\ SameJobs(rm, c.ctx, {j})
                      /\ c.ctx.booked = Without(rm, j, IF final THEN Rank ELSE ranks)
                      /\ c.full => \A r \in Rank : c.ctx.booked[r] # j
    OBVIOUS
  <2>1. Sound(rm)
    BY DEF RmSound
  <2> QED BY <1>2, <2>1, ReleaseEffect
<1>4. rm = Off => c.ctx = Off
  BY DEF reapi_cancel, reapi_cancel_R
<1> HIDE DEF c, final
<1>5. qm # Off /\ qm' # Off /\ Runs(j) /\ DOMAIN qm'.queues = DOMAIN qm.queues
  BY <1>1 DEF Runs, Unmoved
<1>6. \A k \in Job : k # j => jm'[k] = jm[k]
  BY <1>1 DEF JmTyped
<1>7. jm'[j].R = jm[j].R /\ jm'[j].freed = jm[j].freed \cup ranks /\ (jm'[j].st = "running" => ~final)
  BY <1>1 DEF JmTyped
<1>8. \A k, R : (Alloced(k, R)' <=> Alloced(k, R)) /\ (Answered(k, R)' <=> Answered(k, R))
  BY <1>1, <1>5 DEF Alloced, Answered, Success, Unmoved
<1>9. \A R : ~Answered(j, R) /\ ~Alloced(j, R)
  BY <1>5, RunsOnly
<1>10. \A k : Runs(k)' => Runs(k)
  BY <1>5, <1>6 DEF Runs
<1>11. ASSUME NEW k, NEW R, NEW f, Promised(k, R, f)'
       PROVE  \/ k # j /\ Promised(k, R, f)
              \/ k = j /\ f = jm[j].freed \cup ranks /\ Promised(j, R, jm[j].freed) /\ ~final
  <2>1. CASE k = j
    <3>1. Runs(j)' /\ R = jm'[j].R /\ f = jm'[j].freed
      BY <1>8, <1>9, <1>11, <2>1 DEF Promised
    <3> QED BY <1>5, <1>7, <2>1, <3>1 DEF Promised, Runs
  <2>2. CASE k # j
    BY <1>6, <1>8, <1>11, <2>2 DEF Promised, Runs
  <2> QED BY <2>1, <2>2
<1>12. DealsInv'
  <2>1. \A k, R, f : Promised(k, R, f)' => k \in Job /\ GoodR(R)
    BY <1>11 DEF DealsInv
  <2>2. ASSUME NEW k, NEW R, NEW f, NEW S, NEW g, Promised(k, R, f)', Promised(k, S, g)'
        PROVE  R = S /\ f = g
    <3>1. CASE k # j
      <4>1. Promised(k, R, f) /\ Promised(k, S, g)
        BY <1>11, <2>2, <3>1
      <4> QED BY <4>1 DEF DealsInv
    <3>2. CASE k = j
      <4>1. /\ Promised(j, R, jm[j].freed) /\ Promised(j, S, jm[j].freed)
            /\ f = jm[j].freed \cup ranks /\ g = jm[j].freed \cup ranks
        BY <1>11, <2>2, <3>2
      <4> QED BY <4>1 DEF DealsInv
    <3> QED BY <3>1, <3>2
  <2>3. ASSUME NEW k, NEW R, NEW f, Promised(k, R, f)'
        PROVE  \E e : Promised(k, R, e) /\ e \subseteq f
    BY <1>11, <2>3
  <2>4. ASSUME NEW k, NEW R, NEW f, NEW l, NEW S, NEW g, k # l, Promised(k, R, f)', Promised(l, S, g)'
        PROVE  (R.ranks \ f) \cap (S.ranks \ g) \cap core'.ranks = {}
    <3>1. PICK d : Promised(k, R, d) /\ d \subseteq f
      BY <2>3, <2>4
    <3>2. PICK e : Promised(l, S, e) /\ e \subseteq g
      BY <2>3, <2>4
    <3>3. (R.ranks \ d) \cap (S.ranks \ e) \cap core.ranks = {}
      BY <2>4, <3>1, <3>2 DEF DealsInv
    <3> QED BY <3>1, <3>2, <3>3 DEF CoreKept
  <2> QED BY <2>1, <2>2, <2>4 DEF DealsInv
<1>13. RequestsInv'
  BY <1>1 DEF RequestsInv
<1>14. AnswersInv'
  BY <1>1, <1>8, <1>10, AnswersSame
<1>15. \A k : ~Waits(k) /\ ~Greets(k)
  BY <1>1, <1>5 DEF Waits, Greets
<1>16. CASE rm' = Off
  BY <1>12, <1>13, <1>14, <1>16 DEF BookedInv, TrackedInv
<1>17. CASE rm' # Off
  <2>1. rm # Off
    BY <1>1, <1>4, <1>17
  <2>2. SameJobs(rm, rm', {j})
    BY <1>1, <1>3, <2>1 DEF SameJobs
  <2>3. \A r \in Rank : \A k : k # j /\ k # Nobody => (rm'.booked[r] = k <=> rm.booked[r] = k)
    BY <1>1, <1>3, <2>1 DEF Without
  <2>4. ASSUME ~final, NEW r \in Rank
        PROVE  rm'.booked[r] = j <=> (rm.booked[r] = j /\ r \notin ranks)
    <3>1. CASE rm' = rm /\ \A n \in DOMAIN qm.queues : j \notin qm.queues[n].running
      <4>1. ~Tracked(j)
        BY <3>1 DEF Tracked
      <4>2. rm.booked[r] # j
        BY <1>5, <1>15, <2>1, <2>4, <4>1 DEF TrackedInv
      <4> QED BY <3>1, <4>2
    <3>2. CASE rm' = c.ctx
      BY <1>3, <2>1, <2>4, <3>2, MatchAssumption DEF Without
    <3> QED BY <1>1, <3>1, <3>2
  <2>5. \A k, R, f : Promised(k, R, f) => BookedFor(k, R, f)
    BY <2>1 DEF BookedInv
  <2>6. ASSUME NEW k, NEW R, NEW f, Promised(k, R, f)' PROVE BookedFor(k, R, f)'
    <3>1. R.ranks \subseteq Rank /\ k \in Job /\ k # Nobody
      BY <1>12, <2>6, MatchAssumption DEF DealsInv, GoodR
    <3>2. CASE k # j /\ Promised(k, R, f)
      <4>1. /\ \A r \in Rank : rm.booked[r] = k => r \in R.ranks \ f
            /\ \A r \in (R.ranks \ f) \cap core.ranks : rm.booked[r] = k
            /\ k \in DOMAIN rm.jobs /\ f = {} => rm.jobs[k].R.ranks = R.ranks
        BY <1>15, <2>5, <3>2 DEF BookedFor
      <4>2. \A r \in Rank : rm'.booked[r] = k => r \in R.ranks \ f
        BY <2>3, <3>1, <3>2, <4>1
      <4>3. \A r \in (R.ranks \ f) \cap core'.ranks : rm'.booked[r] = k
        BY <2>3, <3>1, <3>2, <4>1 DEF CoreKept
      <4>4. k \in DOMAIN rm'.jobs /\ f = {} => rm'.jobs[k].R.ranks = R.ranks
        BY <2>2, <3>1, <3>2, <4>1 DEF SameJobs
      <4> QED BY <4>2, <4>3, <4>4 DEF BookedFor
    <3>3. CASE k = j /\ f = jm[j].freed \cup ranks /\ Promised(j, R, jm[j].freed) /\ ~final
      <4> DEFINE e == jm[j].freed
      <4>1. /\ \A r \in Rank : rm.booked[r] = j => r \in R.ranks \ e
            /\ \A r \in (R.ranks \ e) \cap core.ranks : rm.booked[r] = j
        BY <1>15, <2>5, <3>3 DEF BookedFor
      <4> HIDE DEF e
      <4>2. f = e \cup ranks /\ k = j
        BY <3>3 DEF e
      <4>3. \A r \in Rank : rm'.booked[r] = j => r \in R.ranks \ f
        BY <2>4, <3>3, <4>1, <4>2
      <4>4. \A r \in (R.ranks \ f) \cap core'.ranks : rm'.booked[r] = j
        BY <2>4, <3>1, <3>3, <4>1, <4>2 DEF CoreKept
      <4>5. f # {}
        BY <1>1, <4>2
      <4> QED BY <4>2, <4>3, <4>4, <4>5 DEF BookedFor
    <3> QED BY <1>11, <2>6, <3>2, <3>3
  <2>7. \A k, R : (Answered(k, R) \/ Alloced(k, R))' => k \in DOMAIN rm'.jobs
    <3> SUFFICES ASSUME NEW k, NEW R, Answered(k, R) \/ Alloced(k, R) PROVE k \in DOMAIN rm'.jobs
      BY <1>8
    <3>1. Promised(k, R, {}) /\ k \in DOMAIN rm.jobs /\ k # j
      BY <1>9, <2>1 DEF BookedInv, Promised
    <3>2. k \in Job
      BY <3>1 DEF DealsInv
    <3> QED BY <2>2, <3>1, <3>2 DEF SameJobs
  <2>8. BookedInv'
    BY <2>6, <2>7 DEF BookedInv
  <2>9. TrackedInv'
    <3> SUFFICES ASSUME NEW k \in Job, Runs(k)', NEW r \in Rank, rm'.booked[r] = k PROVE Tracked(k)'
      BY DEF TrackedInv
    <3>1. CASE k # j
      <4>1. Tracked(k)
        BY <1>5, <1>10, <1>15, <2>1, <2>3, <3>1, MatchAssumption DEF TrackedInv
      <4> QED BY <1>1, <1>5, <3>1, <4>1 DEF Tracked
    <3>2. CASE k = j
      <4>1. ~final
        BY <1>7, <3>2 DEF Runs
      <4>2. rm.booked[r] = j
        BY <2>4, <3>2, <4>1
      <4>3. Tracked(j)
        BY <1>5, <1>15, <2>1, <4>2 DEF TrackedInv
      <4>4. rm' = c.ctx
        BY <1>1, <4>3 DEF Tracked
      <4>5. ~c.full
        BY <1>3, <2>1, <3>2, <4>4
      <4> QED BY <1>1, <1>5, <3>2, <4>1, <4>3, <4>5 DEF Tracked
    <3> QED BY <3>1, <3>2
  <2> QED BY <1>12, <1>13, <1>14, <2>8, <2>9
<1> QED BY <1>16, <1>17

\* What parse_R makes of an R without times.
LEMMA Parsed ==
    ASSUME NEW S, S.writer \in {"none", "jgf", "jgf_shorthand"}, S.start = 0, S.end = 0
    PROVE  parse_R(S).ok /\ parse_R(S).ranks = IF S.writer = "none" THEN S.ranks ELSE S.key \ S.free
<1> DEFINE good == /\ S.writer \in {"none", "jgf", "jgf_shorthand"} /\ S.start >= 0
                   /\ (S.end = 0 \/ S.start <= S.end)
           got == IF S.writer = "none" THEN S.ranks ELSE S.key \ S.free
<1>1. good
  OBVIOUS
<1>2. parse_R(S) = [ok |-> good, ranks |-> got]
  BY DEF parse_R
<1> HIDE DEF good, got
<1>3. [ok |-> good, ranks |-> got].ok = good /\ [ok |-> good, ranks |-> got].ranks = got
  BY Zenon
<1> QED BY <1>1, <1>2, <1>3 DEF got

\* The R that hello gives, as update_request_cb reads it: what the job has not released.
LEMMA HelloRanks ==
    ASSUME NEW j, GoodR(jm[j].R)
    PROVE  LET S == WithFreeRanks(HelloR(j), jm[j].freed)
               mine == jm[j].R.ranks \ jm[j].freed
           IN  parse_R(S).ok /\ parse_R(S).ranks = mine /\ S.ranks = mine
<1> DEFINE R == jm[j].R
           f == jm[j].freed
           H == [R EXCEPT !.ranks = @ \ f]
           S == WithFreeRanks(HelloR(j), f)
<1>1. R \in [ranks : SUBSET Rank, start : {0}, end : {0}, writer : {"none", "jgf", "jgf_shorthand"},
             key : SUBSET Rank, free : SUBSET Rank] /\ (R.writer # "none" => R.key = R.ranks)
  BY DEF GoodR
<1>2. S = IF H.writer = "none" THEN H ELSE [H EXCEPT !.free = f]
  BY DEF WithFreeRanks, HelloR
<1> HIDE DEF R, f, S
<1>3. /\ H.ranks = R.ranks \ f /\ H.writer = R.writer /\ H.key = R.key /\ H.start = 0 /\ H.end = 0
      /\ DOMAIN H = {"ranks", "start", "end", "writer", "key", "free"}
  BY <1>1
<1> HIDE DEF H
<1>4. CASE R.writer = "none"
  <2>1. S = H
    BY <1>2, <1>3, <1>4
  <2>2. S.ranks = R.ranks \ f /\ S.writer = "none" /\ S.start = 0 /\ S.end = 0
    BY <1>3, <1>4, <2>1
  <2> DEFINE w == S.writer
  <2>3. w \in {"none", "jgf", "jgf_shorthand"} /\ w = "none"
    BY <2>2
  <2> HIDE DEF w
  <2>4. S.writer \in {"none", "jgf", "jgf_shorthand"} /\ S.start = 0 /\ S.end = 0
    BY <2>2, <2>3 DEF w
  <2>5. parse_R(S).ok /\ parse_R(S).ranks = IF w = "none" THEN S.ranks ELSE S.key \ S.free
    BY <2>4, Parsed DEF w
  <2>6. parse_R(S).ranks = S.ranks
    BY <2>3, <2>5
  <2> QED BY <2>2, <2>5, <2>6 DEF R, f, S
<1>5. CASE R.writer # "none"
  <2>1. S = [H EXCEPT !.free = f]
    BY <1>2, <1>3, <1>5
  <2>2. /\ S.ranks = H.ranks /\ S.writer = H.writer /\ S.key = H.key /\ S.start = 0 /\ S.end = 0
        /\ S.free = f
    BY <1>3, <2>1
  <2>3. R.writer \in {"jgf", "jgf_shorthand"} /\ R.key = R.ranks
    BY <1>1, <1>5
  <2>4. parse_R(S).ok /\ parse_R(S).ranks = R.ranks \ f
    BY <1>3, <2>2, <2>3, Parsed
  <2> QED BY <1>3, <2>2, <2>4 DEF R, f, S
<1> QED BY <1>4, <1>5

\* What hello does with a job that runs: a job that cannot be taken over is killed and
\* nothing else changes; one that is known keeps what it holds, and for one that is not
\* everything it has not released is booked.
LEMMA Greeting ==
    ASSUME Typed, TodoInv, DealsInv, NEW j \in Job, jobmanager_hello_cb(j)
    PROVE  LET mine == jm[j].R.ranks \ jm[j].freed
           IN  /\ Runs(j) /\ GoodR(jm[j].R)
               /\ \/ /\ jm' = [jm EXCEPT ![j].st = "killed"] /\ rm' = rm
                     /\ \/ rm = Off
                        \/ queue_of(j) \notin DOMAIN qm.queues
                        \/ j \in DOMAIN rm.jobs /\ mine # rm.jobs[j].R.ranks
                        \/ /\ j \notin DOMAIN rm.jobs
                           /\ ~(mine \subseteq rm.ranks /\ \A r \in mine : rm.booked[r] = Nobody)
                  \/ /\ jm' = jm /\ Tracked(j)' /\ rm # Off
                     /\ \/ j \in DOMAIN rm.jobs /\ rm' = rm
                        \/ /\ j \notin DOMAIN rm.jobs
                           /\ \E R : R.ranks = mine /\ Taken(rm, rm', j, R, mine)
<1> USE DEF Typed
<1> DEFINE n == queue_of(j)
           S == WithFreeRanks(HelloR(j), jm[j].freed)
           mine == jm[j].R.ranks \ jm[j].freed
           u == IF n \notin DOMAIN qm.queues THEN Error(rm) ELSE reapi_update_allocate(rm, j, S)
<1>1. /\ Unmoved /\ rm' = u.ctx /\ jm' = IF u.ok THEN jm ELSE [jm EXCEPT ![j].st = "killed"]
      /\ qm.st = "jobs" /\ j \in qm.todo
      /\ u.ok => n \in DOMAIN qm.queues /\ j \in qm'.queues[n].running
  BY HelloEffect
<1>2. Runs(j)
  BY <1>1 DEF TodoInv, Running, Unmoved, Runs
<1>3. GoodR(jm[j].R)
  <2>1. Promised(j, jm[j].R, jm[j].freed)
    BY <1>2 DEF Promised
  <2> QED BY <2>1 DEF DealsInv
<1>4. parse_R(S).ok /\ parse_R(S).ranks = mine /\ S.ranks = mine
  BY <1>3, HelloRanks
<1> HIDE DEF S, mine, n
<1>5. u.ok => Tracked(j)'
  BY <1>1 DEF Tracked, Unmoved
<1>6. CASE n \notin DOMAIN qm.queues \/ rm = Off
  <2>1. u.ctx = rm /\ ~u.ok
    BY <1>6 DEF Error, reapi_update_allocate
  <2> QED BY <1>1, <1>2, <1>3, <1>6, <2>1 DEF n
<1>7. CASE n \in DOMAIN qm.queues /\ rm # Off
  <2> DEFINE v == update_request_cb(rm, j, S)
             free == mine \subseteq rm.ranks /\ \A r \in mine : rm.booked[r] = Nobody
             E == Emit(rm, mine)
  <2>1. u = v
    BY <1>7 DEF reapi_update_allocate
  <2>2. Sound(rm)
    BY <1>7 DEF RmSound
  <2>3. /\ j \in DOMAIN rm.jobs => v.ctx = rm /\ (v.ok <=> mine = rm.jobs[j].R.ranks)
        /\ j \notin DOMAIN rm.jobs /\ ~free => v.ctx = rm /\ ~v.ok
        /\ j \notin DOMAIN rm.jobs /\ free => v.ok /\ Taken(rm, v.ctx, j, E, mine) /\ E.ranks = mine
    BY <1>4, <2>2, UpdateEffect
  <2> HIDE DEF v, u, E
  <2>4. CASE ~v.ok
    BY <1>1, <1>2, <1>3, <2>1, <2>3, <2>4 DEF mine
  <2>5. CASE v.ok
    <3>1. jm' = jm /\ Tracked(j)' /\ rm' = v.ctx
      BY <1>1, <1>5, <2>1, <2>5
    <3>2. CASE j \in DOMAIN rm.jobs
      BY <1>2, <1>3, <1>7, <2>3, <3>1, <3>2
    <3>3. CASE j \notin DOMAIN rm.jobs
      <4>1. E.ranks = mine /\ Taken(rm, rm', j, E, mine)
        BY <2>3, <2>5, <3>1, <3>3
      <4> QED BY <1>2, <1>3, <1>7, <3>1, <3>3, <4>1 DEF mine
    <3> QED BY <3>2, <3>3
  <2> QED BY <2>4, <2>5
<1> QED BY <1>6, <1>7

\* A job that was there before the queue manager is taken over.
LEMMA HelloStep ==
    ASSUME Typed, QueuesInv, TodoInv, Deals, CoreKept, NEW j \in Job, jobmanager_hello_cb(j)
    PROVE  Deals'
<1> USE DEF Typed, Deals
<1> DEFINE mine == jm[j].R.ranks \ jm[j].freed
<1>1. /\ Unmoved /\ reqs = << >> /\ reqs' = reqs /\ toQm' = toQm
      /\ qm.st = "jobs" /\ j \in qm.todo /\ qm'.todo = qm.todo \ {j}
      /\ qm'.st = IF qm.todo = {j} THEN "ready" ELSE "jobs"
      /\ \A k \in DOMAIN qm.queues : qm.queues[k].running \subseteq qm'.queues[k].running
  BY HelloEffect
<1>2. qm # Off /\ qm' # Off /\ DOMAIN qm'.queues = DOMAIN qm.queues /\ Runs(j)
  BY <1>1, Greeting DEF Unmoved
<1>3. \A k, R : (Alloced(k, R)' <=> Alloced(k, R)) /\ (Answered(k, R)' <=> Answered(k, R))
  BY <1>1, <1>2 DEF Alloced, Answered, Success, Unmoved
<1>4. \A k : k # j /\ Greets(k) => Greets(k)'
  BY <1>1, <1>2 DEF Greets
<1>5. \A k : Tracked(k) => Tracked(k)'
  BY <1>1, <1>2 DEF Tracked
<1>6. NoRequest /\ NoRequest' /\ RequestsInv'
  BY <1>1 DEF NoRequest, RequestsInv
<1>7. CASE jm' = [jm EXCEPT ![j].st = "killed"] /\ rm' = rm
  <2>1. \A k \in Job : k # j => jm'[k] = jm[k]
    BY <1>7 DEF JmTyped
  <2>2. jm'[j].st # "running"
    BY <1>7 DEF JmTyped
  <2>3. JobsKept
    BY <2>1, <2>2 DEF JobsKept, Runs
  <2>4. GreetsKept /\ TracksKept
    BY <1>2, <1>4, <1>5, <2>2 DEF GreetsKept, TracksKept, Runs
  <2>5. AllocsKept
    BY <1>3 DEF AllocsKept
  <2> QED BY <1>1, <1>7, <2>3, <2>4, <2>5, QuietStep, SameAnswers, ReqsKept, SameBooks
<1>8. ASSUME jm' = jm, Tracked(j)', rm # Off,
             \/ j \in DOMAIN rm.jobs /\ rm' = rm
             \/ j \notin DOMAIN rm.jobs /\ \E R : R.ranks = mine /\ Taken(rm, rm', j, R, mine)
      PROVE  Deals'
  <2>1. \A k : Runs(k)' <=> Runs(k)
    BY <1>8 DEF Runs
  <2>2. \A k, R, f : Promised(k, R, f)' <=> Promised(k, R, f)
    BY <1>3, <1>8, <2>1 DEF Promised
  <2>3. AnswersInv'
    BY <1>1, <1>3, <2>1, AnswersSame
  <2>4. DealsInv'
    BY <2>2, DealsFrom
  <2>5. \A k, R, f : Promised(k, R, f) => BookedFor(k, R, f)
    BY <1>8 DEF BookedInv
  <2>6. Promised(j, jm[j].R, jm[j].freed)
    BY <1>2 DEF Promised
  <2>7. ASSUME NEW k \in Job, k # j
        PROVE  /\ k \in DOMAIN rm'.jobs <=> k \in DOMAIN rm.jobs
               /\ k \in DOMAIN rm.jobs => rm'.jobs[k] = rm.jobs[k]
               /\ \A r \in Rank : rm'.booked[r] = k <=> rm.booked[r] = k
    <3>1. CASE rm' = rm
      BY <3>1
    <3>2. ASSUME NEW R, Taken(rm, rm', j, R, mine) PROVE
               /\ k \in DOMAIN rm'.jobs <=> k \in DOMAIN rm.jobs
               /\ k \in DOMAIN rm.jobs => rm'.jobs[k] = rm.jobs[k]
               /\ \A r \in Rank : rm'.booked[r] = k <=> rm.booked[r] = k
      <4> HIDE DEF mine
      <4>1. /\ \A r \in mine : rm.booked[r] = Nobody
            /\ rm'.booked = [r \in Rank |-> IF r \in mine THEN j ELSE rm.booked[r]]
            /\ SameJobs(rm, rm', {j})
        BY <3>2 DEF Taken
      <4>2. \A r \in Rank : rm'.booked[r] = k <=> rm.booked[r] = k
        BY <2>7, <4>1, MatchAssumption
      <4> QED BY <2>7, <4>1, <4>2 DEF SameJobs
    <3> QED BY <1>8, <3>1, <3>2
  <2>8. ASSUME NEW k, NEW R, NEW f, Promised(k, R, f) PROVE BookedFor(k, R, f)'
    <3>1. k \in Job /\ R.ranks \subseteq Rank
      BY <2>8 DEF DealsInv, GoodR
    <3>2. /\ \A r \in Rank : rm.booked[r] = k => r \in R.ranks \ f
          /\ \A r \in (R.ranks \ f) \cap core.ranks :
                rm.booked[r] = k \/ (Waits(k) /\ rm.booked[r] = Nobody)
          /\ k \in DOMAIN rm.jobs /\ f = {} => rm.jobs[k].R.ranks = R.ranks
      BY <2>5, <2>8 DEF BookedFor
    <3>3. CASE k # j
      <4>1. \A r \in Rank : rm'.booked[r] = k => r \in R.ranks \ f
        BY <2>7, <3>1, <3>2, <3>3
      <4>2. k \in DOMAIN rm'.jobs /\ f = {} => rm'.jobs[k].R.ranks = R.ranks
        BY <2>7, <3>1, <3>2, <3>3
      <4>3. Waits(k) => Waits(k)'
        BY <1>4, <1>6, <2>1, <2>7, <3>1, <3>3 DEF Waits
      <4>4. ASSUME NEW r \in (R.ranks \ f) \cap core.ranks
            PROVE  rm'.booked[r] = k \/ (Waits(k)' /\ rm'.booked[r] = Nobody)
        <5>1. CASE rm.booked[r] = k
          BY <2>7, <3>1, <3>3, <4>4, <5>1
        <5>2. CASE Waits(k) /\ rm.booked[r] = Nobody
          <6>1. r \notin mine
            BY <2>6, <2>8, <3>3, <4>4 DEF DealsInv
          <6>2. rm'.booked[r] = Nobody
            <7> HIDE DEF mine
            <7>1. rm' = rm \/ rm'.booked = [s \in Rank |-> IF s \in mine THEN j ELSE rm.booked[s]]
              BY <1>8 DEF Taken
            <7>2. r \in Rank
              BY <3>1, <4>4
            <7> QED BY <5>2, <6>1, <7>1, <7>2
          <6> QED BY <4>3, <5>2, <6>2
        <5> QED BY <3>2, <4>4, <5>1, <5>2
      <4> QED BY <4>1, <4>2, <4>4 DEF BookedFor, CoreKept
    <3>4. CASE k = j
      <4>1. R = jm[j].R /\ f = jm[j].freed
        BY <2>6, <2>8, <3>4 DEF DealsInv
      <4>2. mine = R.ranks \ f
        BY <4>1
      <4>3. CASE j \in DOMAIN rm.jobs /\ rm' = rm
        <5>1. ~Waits(j)
          BY <4>3 DEF Waits
        <5> QED BY <3>2, <3>4, <4>3, <5>1 DEF BookedFor, CoreKept
      <4>4. ASSUME j \notin DOMAIN rm.jobs, NEW E, E.ranks = mine, Taken(rm, rm', j, E, mine)
            PROVE  BookedFor(k, R, f)'
        <5> HIDE DEF mine
        <5>1. /\ rm'.booked = [r \in Rank |-> IF r \in mine THEN j ELSE rm.booked[r]]
              /\ rm'.jobs[j].R = E
          BY <4>4 DEF Taken
        <5>2. \A r \in Rank : rm.booked[r] # j
          BY <1>8, <4>4, MatchAssumption DEF RmSound, Sound
        <5>3. \A r \in Rank : rm'.booked[r] = j <=> r \in mine
          BY <5>1, <5>2
        <5>4. f = {} => rm'.jobs[j].R.ranks = R.ranks
          BY <4>2, <4>4, <5>1
        <5> QED BY <3>1, <3>4, <4>2, <5>3, <5>4 DEF BookedFor
      <4> QED BY <1>8, <4>3, <4>4
    <3> QED BY <3>3, <3>4
  <2>9. ASSUME NEW k, NEW R, Answered(k, R) \/ Alloced(k, R) PROVE k \in DOMAIN rm'.jobs
    <3>1. Promised(k, R, {}) /\ k \in DOMAIN rm.jobs
      BY <1>8, <2>9 DEF BookedInv, Promised
    <3>2. k \in Job /\ k # j
      BY <1>2, <2>9, <3>1, RunsOnly DEF DealsInv
    <3> QED BY <2>7, <3>1, <3>2
  <2>10. BookedInv'
    BY <1>3, <2>2, <2>8, <2>9 DEF BookedInv
  <2>11. TrackedInv'
    <3> SUFFICES ASSUME NEW k \in Job, Runs(k)', NEW r \in Rank, rm'.booked[r] = k
                 PROVE  Greets(k)' \/ Tracked(k)'
      BY DEF TrackedInv
    <3>1. CASE k = j
      BY <1>8, <3>1
    <3>2. CASE k # j
      BY <1>2, <1>4, <1>5, <1>8, <2>1, <2>7, <3>2 DEF TrackedInv
    <3> QED BY <3>1, <3>2
  <2> QED BY <1>6, <2>3, <2>4, <2>10, <2>11
<1> QED BY <1>7, <1>8, Greeting

-----------------------------------------------------------------------------
\* The answers out give R to the job j.
Deal(out, j, R) == \E i \in Successes(out) : out[i].j = j /\ out[i].R = R

\* What a request for several jobs gives: to jobs that had nothing, what nobody had.
Dealt(out) ==
    /\ \A j, R : Deal(out, j, R) => Gave(rm, rm', j, R) /\ \A S, f : ~Promised(j, S, f)
    /\ \A j, R, S : Deal(out, j, R) /\ Deal(out, j, S) => R = S
    /\ \A r \in Rank : rm'.booked[r] # rm.booked[r] => \E j, R : Deal(out, j, R) /\ r \in R.ranks
    /\ SameJobs(rm, rm', {j \in Job : \E R : Deal(out, j, R)})

\* The request is gone, so nobody waited for the resource module; jobs, queues and core
\* are the same, and the new answers are among out.
LEMMA DealtInv ==
    ASSUME NEW out, Dealt(out), rm # Off, rm' # Off, DealsInv, BookedInv, TrackedInv,
           qm' = qm, jm' = jm, core' = core, \A j : ~Waits(j),
           \A j, R : Answered(j, R)' => Answered(j, R) \/ Deal(out, j, R)
    PROVE  DealsInv' /\ BookedInv' /\ TrackedInv'
<1>1. \A j : Runs(j)' <=> Runs(j)
  BY DEF Runs
<1>2. \A j, R : Alloced(j, R)' <=> Alloced(j, R)
  BY DEF Alloced
<1>3. \A j, R, f : Promised(j, R, f)' => Promised(j, R, f) \/ (f = {} /\ Deal(out, j, R))
  BY <1>1, <1>2 DEF Promised
<1>4. \A j, R : Deal(out, j, R) => /\ Gave(rm, rm', j, R) /\ j \in Job /\ j # Nobody /\ GoodR(R)
                                   /\ R.ranks \subseteq Rank /\ \A S, f : ~Promised(j, S, f)
  BY MatchAssumption DEF Dealt, Gave, GoodR
<1>5. ASSUME NEW j, NEW R, NEW f, Promised(j, R, f)
      PROVE  /\ j \in Job /\ j # Nobody /\ R.ranks \subseteq Rank
             /\ \A r \in Rank : rm.booked[r] = j => r \in R.ranks \ f
             /\ \A r \in (R.ranks \ f) \cap core.ranks : rm.booked[r] = j
             /\ j \in DOMAIN rm.jobs /\ f = {} => rm.jobs[j].R.ranks = R.ranks
             /\ \A S : ~Deal(out, j, S)
  BY <1>4, <1>5, MatchAssumption DEF DealsInv, BookedInv, BookedFor, GoodR
<1>6. ASSUME NEW j, NEW R, NEW f, Promised(j, R, f), NEW r \in Rank
      PROVE  rm'.booked[r] = j <=> rm.booked[r] = j
  <2>1. CASE rm'.booked[r] = rm.booked[r]
    BY <2>1
  <2>2. CASE rm'.booked[r] # rm.booked[r]
    <3>1. PICK k, S : Deal(out, k, S) /\ r \in S.ranks
      BY <2>2 DEF Dealt
    <3>2. rm'.booked[r] = k /\ rm.booked[r] = Nobody
      BY <1>4, <3>1 DEF Gave
    <3> QED BY <1>5, <1>6, <3>1, <3>2
  <2> QED BY <2>1, <2>2
<1>7. ASSUME NEW j, NEW R, NEW f, Promised(j, R, f)
      PROVE  /\ j \in DOMAIN rm'.jobs <=> j \in DOMAIN rm.jobs
             /\ j \in DOMAIN rm.jobs => rm'.jobs[j] = rm.jobs[j]
  BY <1>5, <1>7 DEF Dealt, SameJobs
<1>8. DealsInv'
  <2>1. \A j, R, f : Promised(j, R, f)' => j \in Job /\ GoodR(R)
    BY <1>3, <1>4 DEF DealsInv
  <2>2. ASSUME NEW j, NEW R, NEW f, NEW S, NEW g, Promised(j, R, f)', Promised(j, S, g)'
        PROVE  R = S /\ f = g
    <3>1. CASE Promised(j, R, f)
      <4>1. Promised(j, S, g)
        BY <1>3, <1>4, <2>2, <3>1
      <4> QED BY <3>1, <4>1 DEF DealsInv
    <3>2. CASE f = {} /\ Deal(out, j, R)
      <4>1. g = {} /\ Deal(out, j, S)
        BY <1>3, <1>4, <2>2, <3>2
      <4> QED BY <3>2, <4>1 DEF Dealt
    <3> QED BY <1>3, <2>2, <3>1, <3>2
  <2>3. ASSUME NEW j, NEW R, NEW f, NEW k, NEW S, NEW g, j # k, Promised(j, R, f),
               g = {} /\ Deal(out, k, S)
        PROVE  (R.ranks \ f) \cap (S.ranks \ g) \cap core.ranks = {}
    <3> SUFFICES ASSUME NEW r \in (R.ranks \ f) \cap (S.ranks \ g) \cap core.ranks PROVE FALSE
      OBVIOUS
    <3>1. rm.booked[r] = j /\ j # Nobody
      BY <1>5, <2>3
    <3>2. rm.booked[r] = Nobody
      BY <1>4, <2>3 DEF Gave
    <3> QED BY <3>1, <3>2
  <2>4. ASSUME NEW j, NEW R, NEW k, NEW S, j # k, Deal(out, j, R), Deal(out, k, S)
        PROVE  R.ranks \cap S.ranks = {}
    <3> SUFFICES ASSUME NEW r \in R.ranks \cap S.ranks PROVE FALSE
      OBVIOUS
    <3>1. rm'.booked[r] = j /\ rm'.booked[r] = k
      BY <1>4, <2>4 DEF Gave
    <3> QED BY <2>4, <3>1
  <2>5. ASSUME NEW j, NEW R, NEW f, NEW k, NEW S, NEW g, j # k, Promised(j, R, f)', Promised(k, S, g)'
        PROVE  (R.ranks \ f) \cap (S.ranks \ g) \cap core.ranks = {}
    <3>1. CASE Promised(j, R, f) /\ Promised(k, S, g)
      BY <2>5, <3>1 DEF DealsInv
    <3>2. CASE Promised(j, R, f) /\ g = {} /\ Deal(out, k, S)
      BY <2>3, <2>5, <3>2
    <3>3. CASE Promised(k, S, g) /\ f = {} /\ Deal(out, j, R)
      <4>1. (S.ranks \ g) \cap (R.ranks \ f) \cap core.ranks = {}
        BY <2>3, <2>5, <3>3
      <4> QED BY <4>1
    <3>4. CASE Deal(out, j, R) /\ Deal(out, k, S)
      <4>1. R.ranks \cap S.ranks = {}
        BY <2>4, <2>5, <3>4
      <4> QED BY <4>1
    <3> QED BY <1>3, <2>5, <3>1, <3>2, <3>3, <3>4
  <2> QED BY <2>1, <2>2, <2>5 DEF DealsInv
<1>9. ASSUME NEW j, NEW R, NEW f, Promised(j, R, f)' PROVE BookedFor(j, R, f)'
  <2>1. CASE Promised(j, R, f)
    <3>1. \A r \in Rank : rm'.booked[r] = j => r \in R.ranks \ f
      BY <1>5, <1>6, <2>1
    <3>2. \A r \in (R.ranks \ f) \cap core.ranks : rm'.booked[r] = j
      BY <1>5, <1>6, <2>1
    <3>3. j \in DOMAIN rm'.jobs /\ f = {} => rm'.jobs[j].R.ranks = R.ranks
      BY <1>5, <1>7, <2>1
    <3> QED BY <3>1, <3>2, <3>3 DEF BookedFor
  <2>2. CASE f = {} /\ Deal(out, j, R)
    <3>1. Gave(rm, rm', j, R) /\ R.ranks \subseteq Rank
      BY <1>4, <2>2
    <3> QED BY <2>2, <3>1 DEF BookedFor, Gave
  <2> QED BY <1>3, <1>9, <2>1, <2>2
<1>10. ASSUME NEW j, NEW R, (Answered(j, R) \/ Alloced(j, R))' PROVE j \in DOMAIN rm'.jobs
  <2>1. CASE Answered(j, R) \/ Alloced(j, R)
    <3>1. Promised(j, R, {}) /\ j \in DOMAIN rm.jobs
      BY <2>1 DEF Promised, BookedInv
    <3> QED BY <1>7, <3>1
  <2>2. CASE Deal(out, j, R)
    BY <1>4, <2>2 DEF Gave
  <2> QED BY <1>2, <1>10, <2>1, <2>2
<1>11. BookedInv'
  BY <1>9, <1>10 DEF BookedInv
<1>12. TrackedInv'
  <2> SUFFICES ASSUME qm # Off, NEW j \in Job, Runs(j), NEW r \in Rank, rm'.booked[r] = j
               PROVE  Greets(j) \/ Tracked(j)
    BY <1>1 DEF TrackedInv, Greets, Tracked
  <2>1. Promised(j, jm[j].R, jm[j].freed)
    BY DEF Promised
  <2>2. rm.booked[r] = j
    BY <1>6, <2>1
  <2> QED BY <2>2 DEF TrackedInv
<1> QED BY <1>8, <1>11, <1>12

\* Who gets something was asked for.
LEMMA SuccessJobs ==
    ASSUME NEW jobs \in Seq(Job), NEW ctx, NEW c, NEW out, Matched(ctx, jobs, c, out)
    PROVE  \A i \in Successes(out) : i \in DOMAIN jobs /\ out[i].j = jobs[i]
<1> DEFINE n == Len(jobs)
<1>1. n \in Nat /\ DOMAIN jobs = 1..n
  OBVIOUS
<1>2. ASSUME NEW i \in Successes(out) PROVE i \in 1..n /\ out[i].j = jobs[i]
  <2>1. i \in 1..Len(out) /\ Len(out) \in Nat /\ i <= n /\ out[i].j = jobs[i]
    BY <1>2 DEF Successes, Matched
  <2> DEFINE m == Len(out)
  <2> HIDE DEF m, n
  <2>2. i \in 1..m /\ m \in Nat /\ i <= n
    BY <2>1 DEF m, n
  <2> QED BY <1>1, <2>1, <2>2
<1> QED BY <1>1, <1>2

\* A context is not Off.
LEMMA RmIsOn ==
    ASSUME NEW c, DOMAIN c = CtxFields
    PROVE  c # Off
<1>1. DOMAIN Off = {"loaded"}
  BY DEF Off
<1> QED BY <1>1 DEF CtxFields

\* The answers of match_multi for a request give what they should.
LEMMA RequestDealt ==
    ASSUME RmSound, rm # Off, DealsInv, BookedInv, NEW jobs \in Seq(Job), Distinct(jobs),
           \A j \in ToSet(jobs) : Runs(j) => j \in DOMAIN rm.jobs,
           NEW out, Matched(rm, jobs, rm', out)
    PROVE  Dealt(out)
<1>1. /\ \A i \in Successes(out) : Gave(rm, rm', out[i].j, out[i].R)
      /\ \A r \in Rank : rm'.booked[r] # rm.booked[r] => \E i \in Successes(out) : r \in out[i].R.ranks
      /\ SameJobs(rm, rm', {out[i].j : i \in Successes(out)})
  BY DEF Matched, Accounted
<1>2. \A i \in Successes(out) : i \in DOMAIN jobs /\ out[i].j = jobs[i]
  BY SuccessJobs
<1>3. ASSUME NEW j, NEW R, Deal(out, j, R)
      PROVE  Gave(rm, rm', j, R) /\ \A S, f : ~Promised(j, S, f)
  <2>1. PICK i \in Successes(out) : out[i].j = j /\ out[i].R = R
    BY <1>3 DEF Deal
  <2>2. Gave(rm, rm', j, R)
    BY <1>1, <2>1
  <2>3. j \in ToSet(jobs) /\ j \notin DOMAIN rm.jobs
    BY <1>2, <2>1, <2>2 DEF ToSet, Gave
  <2>4. ~Runs(j) /\ \A S : ~Answered(j, S) /\ ~Alloced(j, S)
    BY <2>3 DEF BookedInv
  <2> QED BY <2>2, <2>4 DEF Promised
<1>4. ASSUME NEW j, NEW R, NEW S, Deal(out, j, R), Deal(out, j, S) PROVE R = S
  <2>1. PICK i \in Successes(out) : out[i].j = j /\ out[i].R = R
    BY <1>4 DEF Deal
  <2>2. PICK k \in Successes(out) : out[k].j = j /\ out[k].R = S
    BY <1>4 DEF Deal
  <2>3. i = k
    BY <1>2, <2>1, <2>2 DEF Distinct
  <2> QED BY <2>1, <2>2, <2>3
<1>5. \A r \in Rank : rm'.booked[r] # rm.booked[r] => \E j, R : Deal(out, j, R) /\ r \in R.ranks
  BY <1>1 DEF Deal
<1>6. {out[i].j : i \in Successes(out)} = {j \in Job : \E R : Deal(out, j, R)}
  <2>1. \A i \in Successes(out) : out[i].j \in Job
    BY <1>1 DEF Gave
  <2> QED BY <2>1 DEF Deal
<1>7. SameJobs(rm, rm', {j \in Job : \E R : Deal(out, j, R)})
  BY <1>1, <1>6
<1> QED BY <1>3, <1>4, <1>5, <1>7 DEF Dealt

\* The answers to a request go behind those that are on their way.
LEMMA DealtAnswers ==
    ASSUME ToQmTyped, AnswersInv, NEW out \in Seq(Result), NEW n, Dealt(out), qm' = qm, jm' = jm,
           \A i, k \in Successes(out) : i # k => out[i].j # out[k].j,
           \/ toQm' = toQm
           \/ toQm' = toQm \o [i \in DOMAIN out |-> [k |-> "match", queue |-> n, m |-> out[i]]]
    PROVE  AnswersInv' /\ \A j, R : Answered(j, R)' => Answered(j, R) \/ Deal(out, j, R)
<1> DEFINE f == [i \in DOMAIN out |-> [k |-> "match", queue |-> n, m |-> out[i]]]
           A == {EmptyResponse, StreamError} \cup MatchAnswer
           S == A \cup {f[i] : i \in DOMAIN out}
           a == Len(toQm)
           b == Len(out)
<1>1. \A j : Runs(j)' <=> Runs(j)
  BY DEF Runs
<1>2. \A j, R : Alloced(j, R)' <=> Alloced(j, R)
  BY DEF Alloced
<1>3. CASE toQm' = toQm
  <2>1. \A j, R : Answered(j, R)' => Answered(j, R)
    BY <1>3 DEF Answered, Success
  <2> QED BY <1>1, <1>2, <1>3, <2>1, AnswersSame
<1>4. ASSUME toQm' = toQm \o f
      PROVE  AnswersInv' /\ \A j, R : Answered(j, R)' => Answered(j, R) \/ Deal(out, j, R)
  <2>1. \A i \in DOMAIN out : f[i].m = out[i]
    OBVIOUS
  <2>2. DOMAIN f = DOMAIN out /\ f = [i \in DOMAIN out |-> f[i]] /\ \A i \in DOMAIN out : f[i] \in S
    OBVIOUS
  <2>3. toQm \in Seq(S)
    <3>1. toQm \in Seq(A) /\ A \subseteq S
      BY DEF ToQmTyped
    <3> HIDE DEF A, S
    <3> QED BY <3>1
  <2> HIDE DEF f, A, S
  <2>4. f \in Seq(S) /\ Len(f) = b
    BY <2>2, SameLength
  <2>5. /\ toQm \o f \in Seq(S) /\ Len(toQm \o f) = a + Len(f)
        /\ \A i \in 1..a : (toQm \o f)[i] = toQm[i]
        /\ \A i \in 1..Len(f) : (toQm \o f)[a + i] = f[i]
    <3>1. f \in Seq(S)
      BY <2>4
    <3> HIDE DEF a, b
    <3>2. /\ toQm \o f \in Seq(S) /\ Len(toQm \o f) = Len(toQm) + Len(f)
          /\ \A i \in 1..Len(toQm) : (toQm \o f)[i] = toQm[i]
          /\ \A i \in 1..Len(f) : (toQm \o f)[Len(toQm) + i] = f[i]
      BY <2>3, <3>1, InARow
    <3> QED BY <3>2 DEF a
  <2>6. a \in Nat /\ DOMAIN toQm = 1..a
    BY <2>3
  <2>7. b \in Nat /\ DOMAIN out = 1..b
    OBVIOUS
  <2> DEFINE t == toQm \o f
  <2>8. t \in Seq(S) /\ Len(t) = a + b
    BY <2>4, <2>5
  <2>9. (\A i \in 1..a : t[i] = toQm[i]) /\ (\A i \in 1..b : t[a + i] = f[i])
    BY <2>4, <2>5
  <2> HIDE DEF a, b, t
  <2>10. DOMAIN t = 1..(a + b)
    <3>1. DOMAIN t = 1..Len(t)
      BY <2>8
    <3> QED BY <2>8, <3>1
  <2>11. \A i \in 1..(a + b) : i \in 1..a \/ (i - a \in 1..b /\ a + (i - a) = i /\ i \notin 1..a)
    BY <2>6, <2>7
  <2>12. toQm' = t
    BY <1>4 DEF t
  <2>13. ASSUME NEW i \in DOMAIN t, Success(t[i])
         PROVE  \/ i \in DOMAIN toQm /\ t[i] = toQm[i]
                \/ i \notin DOMAIN toQm /\ i - a \in Successes(out) /\ t[i].m = out[i - a]
    <3>1. CASE i \in 1..a
      BY <2>6, <2>9, <3>1
    <3>2. CASE i - a \in 1..b /\ a + (i - a) = i /\ i \notin 1..a
      <4>1. t[i] = f[i - a]
        BY <2>9, <3>2
      <4>2. t[i].m = out[i - a]
        BY <2>1, <2>7, <3>2, <4>1
      <4>3. i - a \in Successes(out)
        BY <2>13, <3>2, <4>2 DEF Successes, Success, b
      <4> QED BY <2>6, <3>2, <4>2, <4>3
    <3> QED BY <2>10, <2>11, <2>13, <3>1, <3>2
  <2>14. ASSUME NEW j, NEW R, Answered(j, R)' PROVE Answered(j, R) \/ Deal(out, j, R)
    <3>1. PICK i \in DOMAIN t : Success(t[i]) /\ t[i].m.j = j /\ t[i].m.R = R
      BY <2>12, <2>14 DEF Answered, Success
    <3> QED BY <2>13, <3>1 DEF Answered, Deal
  <2>15. ASSUME NEW i \in DOMAIN t, NEW j, Success(t[i]), t[i].m.j = j
         PROVE  /\ ~Runs(j) /\ \A R : ~Alloced(j, R)
                /\ \A k \in DOMAIN t : k # i /\ Success(t[k]) => t[k].m.j # j
    <3>0. \A R : Deal(out, j, R) => \A Q, g : ~Promised(j, Q, g)
      BY DEF Dealt
    <3>1. CASE i \in DOMAIN toQm /\ t[i] = toQm[i]
      <4>1. /\ ~Runs(j) /\ \A R : ~Alloced(j, R)
            /\ \A k \in DOMAIN toQm : k # i /\ Success(toQm[k]) => toQm[k].m.j # j
        BY <2>15, <3>1 DEF AnswersInv
      <4>2. Promised(j, t[i].m.R, {})
        BY <2>15, <3>1 DEF Promised, Answered
      <4>3. \A k \in Successes(out) : out[k].j # j
        BY <3>0, <4>2 DEF Deal
      <4>4. ASSUME NEW k \in DOMAIN t, k # i, Success(t[k]) PROVE t[k].m.j # j
        BY <2>13, <4>1, <4>3, <4>4
      <4> QED BY <4>1, <4>4
    <3>2. CASE i \notin DOMAIN toQm /\ i - a \in Successes(out) /\ t[i].m = out[i - a]
      <4>1. Deal(out, j, t[i].m.R)
        BY <2>15, <3>2 DEF Deal
      <4>2. \A Q, g : ~Promised(j, Q, g)
        BY <3>0, <4>1
      <4>3. ~Runs(j) /\ \A R : ~Alloced(j, R) /\ ~Answered(j, R)
        BY <4>2 DEF Promised
      <4>4. ASSUME NEW k \in DOMAIN t, k # i, Success(t[k]) PROVE t[k].m.j # j
        <5>1. CASE k \in DOMAIN toQm /\ t[k] = toQm[k]
          BY <4>3, <4>4, <5>1 DEF Answered
        <5>2. CASE k - a \in Successes(out) /\ t[k].m = out[k - a]
          <6>1. k - a # i - a
            <7>1. k \in Int /\ i \in Int /\ a \in Int
              BY <2>6, <2>7, <2>10, <2>15, <4>4
            <7> QED BY <4>4, <7>1
          <6> QED BY <2>15, <3>2, <5>2, <6>1
        <5> QED BY <2>13, <4>4, <5>1, <5>2
      <4> QED BY <4>3, <4>4
    <3> QED BY <2>13, <2>15, <3>1, <3>2
  <2>16. AnswersInv'
    <3> SUFFICES ASSUME NEW i \in DOMAIN toQm', NEW j, Success(toQm[i])', toQm'[i].m.j = j
                 PROVE  /\ ~Runs(j)' /\ \A R : ~Alloced(j, R)'
                        /\ \A k \in DOMAIN toQm' : k # i /\ Success(toQm[k])' => toQm'[k].m.j # j
      BY DEF AnswersInv
    <3>1. i \in DOMAIN t /\ Success(t[i]) /\ t[i].m.j = j
      BY <2>12 DEF Success
    <3>2. /\ ~Runs(j) /\ \A R : ~Alloced(j, R)
          /\ \A k \in DOMAIN t : k # i /\ Success(t[k]) => t[k].m.j # j
      BY <2>15, <3>1
    <3> QED BY <1>1, <1>2, <2>12, <3>2 DEF Success
  <2> QED BY <2>14, <2>16
<1> QED BY <1>3, <1>4

\* A request for several jobs is answered.
LEMMA MatchStep ==
    ASSUME Typed, Deals, CoreKept, match_multi_request_cb
    PROVE  Deals'
<1> USE DEF Typed, Deals
<1> DEFINE x == Head(reqs)
           s == x.jobs
           n == x.queue
           r == match_multi(rm, s)
           out == r.out
           f == [i \in DOMAIN out |-> [k |-> "match", queue |-> n, m |-> out[i]]]
<1>1. /\ rm # Off /\ reqs # << >> /\ x.k = "match" /\ rm' = r.ctx /\ (toQm' = toQm \/ toQm' = toQm \o f)
      /\ reqs' = Tail(reqs) /\ qm' = qm /\ jm' = jm /\ core' = core
  BY DEF match_multi_request_cb
<1>2. x \in NotifyRequest \cup MatchRequest /\ x = reqs[1] /\ 1 \in DOMAIN reqs
  <2> DEFINE T == NotifyRequest \cup MatchRequest
             l == Len(reqs)
  <2>1. reqs \in Seq(T)
    BY DEF ReqsTyped
  <2> HIDE DEF T
  <2>2. x \in T /\ x = reqs[1]
    BY <1>1, <2>1, Shorter
  <2>3. l \in Nat /\ DOMAIN reqs = 1..l /\ l # 0
    <3>1. reqs # << >>
      BY <1>1
    <3> QED BY <2>1, <3>1
  <2> HIDE DEF l
  <2>4. 1 \in DOMAIN reqs
    BY <2>3
  <2> QED BY <2>2, <2>4 DEF T
<1>3. /\ Distinct(s) /\ \A j \in ToSet(s) : Runs(j) => j \in DOMAIN rm.jobs
      /\ \A j : ~Waits(j)
  BY <1>1, <1>2 DEF RequestsInv, Waits, NoRequest
<1>4. RequestsKept
  BY <1>1, ReqsKept
<1> HIDE DEF x
<1>5. s \in Seq(Job)
  BY <1>1, <1>2 DEF NotifyRequest, MatchRequest
<1> HIDE DEF s, n
<1>6. out \in Seq(Result) /\ Matched(rm, s, rm', out)
  BY <1>1, <1>5, MatchesEffect DEF RmSound
<1>7. rm' # Off
  BY <1>6, RmIsOn DEF Matched, Accounted, Sound
<1> HIDE DEF out, r
<1>8. Dealt(out)
  BY <1>1, <1>3, <1>5, <1>6, RequestDealt
<1>9. \A i, k \in Successes(out) : i # k => out[i].j # out[k].j
  <2>1. \A i \in Successes(out) : i \in DOMAIN s /\ out[i].j = s[i]
    BY <1>5, <1>6, SuccessJobs
  <2> QED BY <1>3, <2>1 DEF Distinct
<1>10. AnswersInv' /\ \A j, R : Answered(j, R)' => Answered(j, R) \/ Deal(out, j, R)
  BY <1>1, <1>6, <1>8, <1>9, DealtAnswers
<1>11. DealsInv' /\ BookedInv' /\ TrackedInv'
  BY <1>1, <1>3, <1>7, <1>8, <1>10, DealtInv
<1>12. RequestsInv'
  <2> SUFFICES ASSUME NEW i \in DOMAIN reqs', reqs'[i].k = "match"
               PROVE  /\ Distinct(reqs'[i].jobs)
                      /\ \A j \in ToSet(reqs'[i].jobs) : Runs(j)' => j \in DOMAIN rm'.jobs
    BY DEF RequestsInv
  <2>1. PICK k \in DOMAIN reqs : reqs[k].k = "match" /\ reqs[k].jobs = reqs'[i].jobs
    BY <1>4 DEF RequestsKept
  <2>2. /\ Distinct(reqs[k].jobs)
        /\ \A j \in ToSet(reqs[k].jobs) : Runs(j) => j \in DOMAIN rm.jobs
    BY <1>1, <2>1 DEF RequestsInv
  <2>3. ASSUME NEW j, Runs(j), j \in DOMAIN rm.jobs PROVE j \in DOMAIN rm'.jobs
    <3>1. Promised(j, jm[j].R, jm[j].freed) /\ j \in Job
      BY <2>3 DEF Promised, Runs
    <3>2. \A R : ~Deal(out, j, R)
      BY <1>8, <3>1 DEF Dealt
    <3> QED BY <1>8, <2>3, <3>1, <3>2 DEF Dealt, SameJobs
  <2>4. \A j : Runs(j)' => Runs(j)
    BY <1>1 DEF Runs
  <2> QED BY <2>1, <2>2, <2>3, <2>4
<1> QED BY <1>10, <1>11, <1>12

-----------------------------------------------------------------------------
\* Every step keeps what was promised.
LEMMA DealsStep ==
    ASSUME Typed, QueuesInv, QueuesInv', TodoInv, LostInv, Deals, CoreKept, [Next]_vars
    PROVE  Deals'
<1>1. CASE CoreNext
  BY <1>1, OutsideStep
<1>2. CASE ModuleNext
  <2>1. ASSUME NEW c, load_resource(c) PROVE Deals'
    BY <2>1, LoadStep
  <2>2. ASSUME NEW c, load_feasibility(c) PROVE Deals'
    BY <2>2, OutsideStep
  <2>3. ASSUME NEW c, load_qmanager(c) PROVE Deals'
    BY <2>3, ManagerStep
  <2>4. CASE unload_resource
    BY <2>4, OutsideStep
  <2>5. CASE unload_feasibility
    BY <2>5, OutsideStep DEF unload_feasibility
  <2>6. CASE unload_qmanager
    BY <2>6, ManagerStep DEF unload_qmanager
  <2> QED BY <1>2, <2>1, <2>2, <2>3, <2>4, <2>5, <2>6 DEF ModuleNext
<1>3. CASE AdminNext
  BY <1>3, AdminStep, ManagerStep
<1>4. CASE HandlerNext
  <2>1. CASE update_resource_then
    BY <2>1, FollowStep
  <2>2. CASE notify_request_cb
    BY <2>2, NotifyStep
  <2>3. CASE match_multi_request_cb
    BY <2>3, MatchStep
  <2>4. CASE feasibility_notified
    BY <2>4, OutsideStep
  <2>5. CASE update_on_resource_response \/ process_pending_quiescent_requests
    BY <2>5, ManagerStep
  <2>6. CASE check_watcher_cb
    BY <2>6, CheckStep
  <2>7. CASE match_multi_then
    BY <2>7, AnswerStep
  <2> QED BY <1>4, <2>1, <2>2, <2>3, <2>4, <2>5, <2>6, <2>7 DEF HandlerNext
<1>5. CASE JobNext
  <2>1. ASSUME NEW j \in Job, Submit(j) \/ jobmanager_alloc_cb(j) PROVE Deals'
    BY <2>1, RequestStep
  <2>2. ASSUME NEW j \in Job, jobmanager_hello_cb(j) PROVE Deals'
    BY <2>2, HelloStep
  <2>3. ASSUME NEW j \in Job, NEW ranks, jobmanager_free_cb(j, ranks) PROVE Deals'
    BY <2>3, FreeStep
  <2> QED BY <1>5, <2>1, <2>2, <2>3 DEF JobNext
<1>6. CASE UNCHANGED vars
  <2>1. qm' = qm /\ jm' = jm /\ toQm' = toQm /\ reqs' = reqs /\ rm' = rm
    BY <1>6 DEF vars
  <2> QED BY <2>1, StillStep, SameAnswers, ReqsKept, SameBooks DEF Typed
<1> QED BY <1>1, <1>2, <1>3, <1>4, <1>5, <1>6 DEF Next

\* What is true of the queues, the promises and the bookings in every state.
JobsInv == QueuesInv /\ FreshInv /\ TodoInv /\ LostInv /\ Deals

\* It is inductive, with the types.
LEMMA JobsInvAlways == Spec => [](Typed /\ JobsInv)
<1>1. Init => JobsInv
  <2> SUFFICES ASSUME Init PROVE JobsInv
    OBVIOUS
  <2>1. /\ acq = << >> /\ reqs = << >> /\ toQm = << >> /\ rm = Off /\ qm = Off
        /\ jm = [j \in Job |-> [st |-> "new", R |-> NoR, freed |-> {}]]
    BY DEF Init
  <2>2. QueuesInv /\ FreshInv /\ TodoInv
    BY <2>1 DEF QueuesInv, FreshInv, TodoInv
  <2>3. LostInv /\ RequestsInv /\ AnswersInv /\ BookedInv /\ TrackedInv
    BY <2>1 DEF LostInv, RequestsInv, AnswersInv, BookedInv, TrackedInv
  <2>4. \A j, R, f : ~Promised(j, R, f)
    BY <2>1 DEF Promised, Runs, Answered, Alloced
  <2>5. DealsInv
    BY <2>4 DEF DealsInv
  <2> QED BY <2>2, <2>3, <2>5 DEF JobsInv, Deals
<1>2. Typed /\ JobsInv /\ [Next]_vars => JobsInv'
  <2> SUFFICES ASSUME Typed, QueuesInv, FreshInv, TodoInv, LostInv, Deals, [Next]_vars
               PROVE  QueuesInv' /\ FreshInv' /\ TodoInv' /\ LostInv' /\ Deals'
    BY DEF JobsInv
  <2>1. QueuesInv' /\ FreshInv'
    BY QueuesStep
  <2>2. TodoInv'
    BY TodoStep
  <2>3. LostInv' /\ CoreKept
    BY LostStep DEF Typed
  <2>4. Deals'
    BY <2>1, <2>3, DealsStep
  <2> QED BY <2>1, <2>2, <2>3, <2>4
<1> QED BY <1>1, <1>2, TypedAlways, PTL DEF Spec

\* Over every interleaving of matches, releases, reloads of the modules and losses of
\* nodes a running job has booked what it has not released, as far as the instance still
\* has it, and nothing else (match_multi_request_cb, jobmanager_free_cb,
\* jobmanager_hello_cb, partial_cancel, shrink_resources).
THEOREM JobsKeepTheirResources == Spec => []JobsKeepResources
<1>1. Typed /\ JobsInv => JobsKeepResources
  <2> SUFFICES ASSUME Typed, Deals, qm # Off, qm.st = "ready", rm # Off, NEW j \in Running
               PROVE  LET mine == jm[j].R.ranks \ jm[j].freed
                      IN  /\ Held(rm, j) \subseteq mine
                          /\ mine \cap rm.ranks \cap core.ranks \subseteq Held(rm, j)
    BY DEF JobsKeepResources, JobsInv
  <2>1. Promised(j, jm[j].R, jm[j].freed)
    BY DEF Running, Promised, Runs
  <2>2. BookedFor(j, jm[j].R, jm[j].freed) /\ ~Waits(j)
    BY <2>1 DEF Deals, BookedInv, Waits, Greets
  <2>3. rm.ranks \subseteq Rank
    BY DEF Typed, RmSound, Sound
  <2> QED BY <2>2, <2>3 DEF BookedFor, Held
<1> QED BY <1>1, JobsInvAlways, PTL

\* Only hello kills a job.
LEMMA OnlyHelloKills ==
    ASSUME Typed, QueuesInv, [Next]_vars, NEW j \in Job, jm[j].st # "killed", jm'[j].st = "killed"
    PROVE  jobmanager_hello_cb(j)
<1>1. jm \in [Job -> [st : States, R : GivenR, freed : SUBSET Rank]]
  BY DEF Typed, JmTyped
<1>2. jm' # jm
  OBVIOUS
<1>3. ~qmanager_destroy
  BY <1>1 DEF qmanager_destroy
<1>4. ASSUME NEW k \in Job, Submit(k) \/ jobmanager_alloc_cb(k) PROVE FALSE
  <2>1. CASE k = j
    <3>1. PICK s \in States : jm' = [jm EXCEPT ![k].st = s] /\ s # "killed"
      BY <1>4 DEF Submit, jobmanager_alloc_cb, States, Notes
    <3> QED BY <1>1, <2>1, <3>1
  <2>2. CASE k # j
    <3>1. PICK s : jm' = [jm EXCEPT ![k].st = s]
      BY <1>4 DEF Submit, jobmanager_alloc_cb
    <3> QED BY <1>1, <2>2, <3>1
  <2> QED BY <2>1, <2>2
<1>5. ASSUME NEW k \in Job, NEW ranks, jobmanager_free_cb(k, ranks) PROVE FALSE
  <2>1. PICK f, s : jm' = [jm EXCEPT ![k].freed = f, ![k].st = s] /\ (s = "gone" \/ s = jm[k].st)
    BY <1>1, <1>5 DEF jobmanager_free_cb
  <2>2. jm'[j].st = jm[j].st \/ jm'[j].st = "gone"
    BY <1>1, <2>1
  <2> QED BY <2>2
<1>6. ASSUME NEW k \in Job, jobmanager_hello_cb(k) PROVE k = j
  <2>1. jm' = jm \/ jm' = [jm EXCEPT ![k].st = "killed"]
    BY <1>6 DEF jobmanager_hello_cb
  <2> QED BY <1>1, <1>2, <2>1
<1>7. ~check_watcher_cb
  <2> SUFFICES ASSUME check_watcher_cb PROVE FALSE
    OBVIOUS
  <2>1. \/ \E R : jm'[j] = [jm[j] EXCEPT !.st = "running", !.R = R]
        \/ jm'[j] = jm[j]
        \/ \E w \in Notes : jm'[j] = [jm[j] EXCEPT !.st = w]
    BY CheckEffect DEF Typed
  <2>2. jm[j] \in [st : States, R : GivenR, freed : SUBSET Rank]
    BY <1>1
  <2> QED BY <2>1, <2>2 DEF Notes
<1>8. ~CoreNext
  BY <1>2 DEF CoreNext, CoreUp, CoreDown, CoreLost, CoreExpiration, Tell
<1>9. ~ModuleNext
  BY <1>2, <1>3 DEF ModuleNext, load_resource, load_feasibility, load_qmanager, unload_resource,
         unload_feasibility, unload_qmanager, LeaveFz
<1>10. ~AdminNext
  BY <1>2 DEF AdminNext, set_status_request_cb, set_property_request_cb, remove_property_request_cb,
         add_subgraph_request_cb, remove_subgraph_request_cb, status_request_cb, quiescent_request_cb, Edit
<1>11. ~HandlerNext
  <2>1. ~(update_resource_then \/ notify_request_cb \/ match_multi_request_cb)
    BY <1>2 DEF update_resource_then, notify_request_cb, match_multi_request_cb
  <2>2. ~(feasibility_notified \/ update_on_resource_response)
    BY <1>2, <1>3 DEF feasibility_notified, LeaveFz, update_on_resource_response
  <2>3. ~(match_multi_then \/ process_pending_quiescent_requests)
    BY <1>2 DEF match_multi_then, process_pending_quiescent_requests
  <2> QED BY <1>7, <2>1, <2>2, <2>3 DEF HandlerNext
<1>12. JobNext
  BY <1>2, <1>8, <1>9, <1>10, <1>11 DEF Next, vars
<1> QED BY <1>4, <1>5, <1>6, <1>12 DEF JobNext

\* A reload of the modules kills a running job only for a reason: the resource module is
\* not there, the instance or the graph has lost a node of the job, its queue is gone, or
\* a part was released of which the resource module still has the whole
\* (jobmanager_hello_cb, update_request_cb).
THEOREM RestartsKillForAReason == Spec => RestartsKeepJobs
<1> DEFINE Reason(j) == (jm[j].st # "killed" /\ jm'[j].st = "killed")
              => \/ rm = Off
                 \/ ~(jm[j].R.ranks \ jm[j].freed \subseteq rm.ranks \cap core.ranks)
                 \/ queue_of(j) \notin DOMAIN qm.queues
                 \/ jm[j].freed # {} /\ is_existent_jobid(rm, j)
<1>1. Typed /\ JobsInv /\ [Next]_vars => [\A j \in Job : Reason(j)]_vars
  <2> SUFFICES ASSUME Typed, QueuesInv, TodoInv, Deals, [Next]_vars, NEW j \in Job,
                      jm[j].st # "killed", jm'[j].st = "killed", rm # Off,
                      jm[j].R.ranks \ jm[j].freed \subseteq rm.ranks \cap core.ranks,
                      queue_of(j) \in DOMAIN qm.queues
               PROVE  jm[j].freed # {} /\ j \in DOMAIN rm.jobs
    BY DEF JobsInv, is_existent_jobid
  <2> DEFINE mine == jm[j].R.ranks \ jm[j].freed
  <2>1. jobmanager_hello_cb(j)
    BY OnlyHelloKills
  <2>2. /\ Runs(j)
        /\ \/ j \in DOMAIN rm.jobs /\ mine # rm.jobs[j].R.ranks
           \/ /\ j \notin DOMAIN rm.jobs
              /\ ~(mine \subseteq rm.ranks /\ \A r \in mine : rm.booked[r] = Nobody)
    BY <2>1, Greeting DEF Deals
  <2>3. BookedFor(j, jm[j].R, jm[j].freed)
    BY <2>2 DEF Deals, BookedInv, Promised
  <2>4. CASE j \in DOMAIN rm.jobs
    BY <2>2, <2>3, <2>4 DEF BookedFor
  <2>5. CASE j \notin DOMAIN rm.jobs
    <3>1. PICK r \in mine : rm.booked[r] # Nobody
      BY <2>2, <2>5
    <3>2. rm.booked[r] = j
      BY <2>3, <3>1 DEF BookedFor
    <3> QED BY <2>5, <3>1, <3>2 DEF Typed, RmSound, Sound
  <2> QED BY <2>4, <2>5
<1> HIDE DEF Reason
<1>2. Spec => [][\A j \in Job : Reason(j)]_vars
  BY <1>1, JobsInvAlways, PTL DEF Spec
<1> QED BY <1>2 DEF Reason, RestartsKeepJobs

-----------------------------------------------------------------------------
(***************************************************************************)
(* A job that does not fit.                                                *)
(***************************************************************************)
\* The ranks a job could have now.
FreeFor(ctx, j) == {r \in Suits(ctx, j) \cap ctx.up : ctx.booked[r] = Nobody}

Lacks(ctx, j) == ~(Cardinality(FreeFor(ctx, j)) >= Need[j])

\* A job that lacks ranks is not matched.
LEMMA LacksRefused ==
    ASSUME NEW ctx, NEW j, Lacks(ctx, j)
    PROVE  traverser_run(ctx, j, "allocate").err # ""
  BY DEF Lacks, FreeFor, traverser_run

\* Only a job that lacks ranks is told to wait.
LEMMA BusyLacks ==
    ASSUME NEW ctx, NEW j, traverser_run(ctx, j, "allocate_with_satisfiability").err = "EBUSY"
    PROVE  Lacks(ctx, j)
  BY DEF Lacks, FreeFor, traverser_run

\* Nothing is free in d that was not in c.
FreesNothing(c, d) == \A j \in Job : FreeFor(d, j) \subseteq FreeFor(c, j)

\* Then whoever lacked ranks still does.
LEMMA LacksKept ==
    ASSUME NEW c, NEW d, c.ranks \subseteq Rank, FreesNothing(c, d), NEW j \in Job, Lacks(c, j)
    PROVE  Lacks(d, j)
<1> DEFINE F == FreeFor(c, j)
           G == FreeFor(d, j)
<1>1. F \subseteq Rank /\ G \subseteq F
  BY DEF FreeFor, Suits, FreesNothing
<1>2. IsFiniteSet(F)
  BY <1>1, FS_Subset, MatchAssumption
<1>3. Cardinality(F) \in Nat /\ Cardinality(G) \in Nat /\ Cardinality(G) <= Cardinality(F)
  BY <1>1, <1>2, FS_Subset, FS_CardinalityType
<1>4. Need[j] \in Nat
  BY MatchAssumption
<1>5. ~(Cardinality(F) >= Need[j])
  BY DEF Lacks
<1> HIDE DEF F, G
<1>6. ~(Cardinality(G) >= Need[j])
  BY <1>3, <1>4, <1>5
<1> QED BY <1>6 DEF Lacks, G

\* Fewer ranks, fewer of them up or with the property, and more of them booked.
LEMMA FewerFree ==
    ASSUME NEW c, NEW d, d.ranks \subseteq c.ranks, d.up \subseteq c.up, d.props \subseteq c.props,
           \A r \in d.ranks : d.booked[r] = Nobody => c.booked[r] = Nobody
    PROVE  FreesNothing(c, d)
  BY DEF FreesNothing, FreeFor, Suits

-----------------------------------------------------------------------------
(***************************************************************************)
(* The answers of match_multi.                                             *)
(***************************************************************************)
\* An accumulator that is over ends with an error; who is told to wait lacks ranks.
Ended(a) ==
    a.over => LET x == a.out[Len(a.out)]
              IN  /\ Len(a.out) > 0 /\ x.err # ""
                  /\ x.err = "EBUSY" => Lacks(a.ctx, x.j)

\* One more job.
LEMMA EndedStep ==
    ASSUME NEW a, DOMAIN a = {"ctx", "out", "over"}, a.over \in BOOLEAN, a.out \in Seq(Result),
           Sound(a.ctx), Ended(a), NEW j \in Job
    PROVE  Ended(match_one(a, j))
<1> DEFINE c == a.ctx
           out == a.out
           n == Len(out)
           b == match_one(a, j)
           m == run_match(c, j, "allocate_with_satisfiability")
           t == traverser_run(c, j, "allocate_with_satisfiability")
           last(err) == [j |-> j, err |-> err, R |-> NoR]
<1>1. m.err = t.err /\ (m.err # "" => m.ctx = c)
  BY DEF run_match
<1>2. \/ b = a
      \/ b.over /\ b.out = Append(out, last("EINVAL"))
      \/ /\ m.err # "" /\ b.over /\ b.out = Append(out, last(m.err))
         /\ b.ctx = IF m.err = "EBUSY" THEN Forget(c, j) ELSE c
      \/ ~b.over
  BY <1>1 DEF match_one
<1> HIDE DEF b, m
<1>3. ASSUME NEW err, b.out = Append(out, last(err))
      PROVE  Len(b.out) > 0 /\ b.out[Len(b.out)].err = err /\ b.out[Len(b.out)].j = j
  <2>1. Len(b.out) > 0 /\ b.out[Len(b.out)] = last(err)
    BY <1>3
  <2> QED BY <2>1
<1>4. CASE b = a
  BY <1>4 DEF b
<1> HIDE DEF last
<1>5. CASE b.over /\ b.out = Append(out, last("EINVAL"))
  <2>1. Len(b.out) > 0 /\ b.out[Len(b.out)].err = "EINVAL"
    BY <1>3, <1>5
  <2> QED BY <1>5, <2>1 DEF Ended, b
<1>6. CASE /\ m.err # "" /\ b.over /\ b.out = Append(out, last(m.err))
           /\ b.ctx = IF m.err = "EBUSY" THEN Forget(c, j) ELSE c
  <2>1. ASSUME m.err = "EBUSY" PROVE Lacks(b.ctx, j)
    <3>1. Lacks(c, j)
      BY <1>1, <2>1, BusyLacks
    <3> DEFINE d == Forget(c, j)
    <3>2. d.ranks = c.ranks /\ d.up = c.up /\ d.props = c.props /\ d.booked = c.booked
      BY DEF Forget, Sound, CtxFields
    <3> HIDE DEF d
    <3>3. FreeFor(d, j) = FreeFor(c, j)
      BY <3>2 DEF FreeFor, Suits
    <3> QED BY <1>6, <2>1, <3>1, <3>3 DEF Lacks, d
  <2>2. Len(b.out) > 0 /\ b.out[Len(b.out)].err = m.err /\ b.out[Len(b.out)].j = j
    BY <1>3, <1>6
  <2> QED BY <1>6, <2>1, <2>2 DEF Ended, b
<1>7. CASE ~b.over
  BY <1>7 DEF Ended, b
<1> QED BY <1>2, <1>4, <1>5, <1>6, <1>7

\* A match without an error.
Fine(m) == m.err = ""

LEMMA FineErr ==
    ASSUME NEW m, Fine(m)
    PROVE  m.err # "ENODATA" /\ m.err # "EBUSY"
  BY DEF Fine

\* What the queue manager hears of the jobs it asked for: successes in their order, and
\* then why there are no more, which is no error only when all have succeeded.
Heard(jobs, ctx, out) ==
    /\ out \in Seq(Result) /\ Len(out) > 0
    /\ \A i \in 1..Len(out) :
          /\ Fine(out[i]) <=> i < Len(out)
          /\ out[i].err # "ENODATA" => i <= Len(jobs) /\ out[i].j = jobs[i]
          /\ out[i].err = "ENODATA" => i = Len(jobs) + 1
          /\ out[i].err = "EBUSY" => Lacks(ctx, out[i].j)

LEMMA MatchesHeard ==
    ASSUME NEW ctx, Sound(ctx), NEW jobs \in Seq(Job)
    PROVE  LET r == match_multi(ctx, jobs)
           IN  Heard(jobs, r.ctx, r.out)
<1> DEFINE n == Len(jobs)
           z == [j |-> Nobody, err |-> "ENODATA", R |-> NoR]
           r == match_multi(ctx, jobs)
<1>1. PICK h : /\ h[0] = [ctx |-> ctx, out |-> << >>, over |-> FALSE]
               /\ \A k \in 1..n : h[k] = match_one(h[k - 1], jobs[k])
               /\ r = [ctx |-> h[n].ctx, out |-> IF h[n].over THEN h[n].out ELSE Append(h[n].out, z)]
  BY RunOfMatches
<1>2. n \in Nat /\ \A k \in 1..n : jobs[k] \in Job
  OBVIOUS
<1>3. r.out \in Seq(Result) /\ Matched(ctx, jobs, r.ctx, r.out)
  BY MatchesEffect
<1>4. z.err = "ENODATA"
  OBVIOUS
<1> HIDE DEF n, z, r
<1>5. ASSUME NEW k \in 0..n PROVE Accumulator(ctx, jobs, k, h[k])
  <2>1. Accumulator(ctx, jobs, 0, h[0])
    BY <1>1, FirstAccumulator
  <2>2. k \in Nat /\ \A i \in 1..k : i \in 1..n
    BY <1>2
  <2> QED BY <1>1, <1>2, <2>1, <2>2, LastAccumulator
<1>6. Ended(h[n])
  <2> DEFINE B == {k \in 0..n : ~Ended(h[k])}
  <2>1. ASSUME B # {} PROVE FALSE
    <3>1. B \subseteq Nat
      BY <1>2
    <3>2. PICK k \in B : \A i \in B : k <= i
      BY <2>1, <3>1, LeastIndex
    <3>3. ~h[0].over
      BY <1>1
    <3>4. k \in 0..n /\ ~Ended(h[k]) /\ k # 0
      BY <3>2, <3>3 DEF Ended
    <3>5. k - 1 \in 0..n /\ k \in 1..n /\ ~(k <= k - 1)
      BY <1>2, <3>4
    <3>6. Ended(h[k - 1]) /\ Accumulator(ctx, jobs, k - 1, h[k - 1])
      BY <1>5, <3>2, <3>5
    <3> DEFINE a == h[k - 1]
    <3>7. /\ DOMAIN a = {"ctx", "out", "over"} /\ a.over \in BOOLEAN /\ a.out \in Seq(Result)
          /\ Sound(a.ctx) /\ Ended(a) /\ h[k] = match_one(a, jobs[k]) /\ jobs[k] \in Job
      BY <1>1, <1>2, <3>5, <3>6 DEF Accumulator, MatchInv, Accounted
    <3> HIDE DEF a
    <3>8. Ended(h[k])
      BY <3>7, EndedStep
    <3> QED BY <3>4, <3>8
  <2>2. n \in 0..n
    BY <1>2
  <2> QED BY <2>1, <2>2
<1> DEFINE a == h[n]
           out == a.out
           N == Len(r.out)
<1>7. /\ a.over \in BOOLEAN /\ out \in Seq(Result) /\ MatchInv(ctx, jobs, n, a.ctx, out, a.over)
      /\ Ended(a) /\ r.ctx = a.ctx /\ r.out = IF a.over THEN out ELSE Append(out, z)
  BY <1>1, <1>2, <1>5, <1>6 DEF Accumulator
<1>8. N \in Nat
  BY <1>3
<1> HIDE DEF a
<1>9. /\ N > 0 /\ r.out[N].err # ""
      /\ r.out[N].err = "EBUSY" => Lacks(r.ctx, r.out[N].j)
      /\ r.out[N].err = "ENODATA" => N = n + 1
  <2>1. CASE a.over
    <3> DEFINE m == Len(out)
    <3>0. r.out = out /\ m \in Nat
      BY <1>7, <2>1
    <3>1. m \in Nat /\ m > 0 /\ N = m /\ r.out = out
      BY <1>7, <2>1, <3>0 DEF Ended
    <3>2. m \in 1..m
      BY <3>1
    <3>3. out[m].err # "ENODATA"
      BY <1>7, <3>2 DEF MatchInv
    <3> QED BY <1>7, <2>1, <3>1, <3>3 DEF Ended
  <2>2. CASE ~a.over
    <3>1. Len(out) = n /\ r.out = Append(out, z)
      BY <1>7, <2>2 DEF MatchInv
    <3>2. N = n + 1 /\ r.out[N] = z
      BY <1>2, <1>7, <3>1
    <3>3. N > 0
      BY <1>2, <3>2
    <3> HIDE DEF N
    <3> QED BY <1>4, <3>2, <3>3
  <2> QED BY <1>7, <2>1, <2>2
<1>10. ASSUME NEW i \in 1..N PROVE i < N \/ i = N
  BY <1>8
<1>11. ASSUME NEW i \in 1..N
       PROVE  /\ r.out[i].err # "ENODATA" => i <= n /\ r.out[i].j = jobs[i]
              /\ i < N => r.out[i].err = ""
  BY <1>3 DEF Matched, n
<1>12. ~(N < N)
  BY <1>8
<1> HIDE DEF N
<1>13. ASSUME NEW i \in 1..N
       PROVE  /\ r.out[i].err = "" <=> i < N
              /\ r.out[i].err # "ENODATA" => i <= n /\ r.out[i].j = jobs[i]
              /\ r.out[i].err = "ENODATA" => i = n + 1
              /\ r.out[i].err = "EBUSY" => Lacks(r.ctx, r.out[i].j)
  <2>1. CASE i < N
    BY <1>11, <2>1
  <2>2. CASE i = N
    BY <1>9, <1>11, <1>12, <2>2
  <2> QED BY <1>10, <2>1, <2>2
<1> QED BY <1>3, <1>9, <1>13 DEF Heard, Fine, n, N, r

-----------------------------------------------------------------------------
(***************************************************************************)
(* The answers of a request among the messages to the queue manager, and    *)
(* the jobs of the queue that asked.                                        *)
(***************************************************************************)
Verdict(x) == x.k = "match"

\* The verdicts in s are the f[1], ..., f[N]: successes of the jobs p in their order, and
\* then one that ends them.
Follows(s, f, N, p, limit) ==
    /\ N \in Nat /\ f \in [1..N -> DOMAIN s]
    /\ \A x, y \in 1..N : x < y => f[x] < f[y]
    /\ \A i \in DOMAIN s : Verdict(s[i]) => \E x \in 1..N : f[x] = i
    /\ \A x \in 1..N :
          LET m == s[f[x]].m
          IN  /\ Verdict(s[f[x]])
              /\ Fine(m) <=> x < N
              /\ m.err # "ENODATA" => x <= Len(p) /\ m.j = p[x]
              /\ m.err = "ENODATA" => limit \/ x = Len(p) + 1

Told(s, q) == q.active /\ \E N, f : Follows(s, f, N, q.pending, q.limit)

\* The verdicts of s are those of t, in the same order.
SameVerdicts(s, t) ==
    \E g : /\ \A i \in DOMAIN s : Verdict(s[i]) => g[i] \in DOMAIN t /\ t[g[i]] = s[i]
           /\ \A i, k \in DOMAIN s : Verdict(s[i]) /\ Verdict(s[k]) /\ i < k => g[i] < g[k]
           /\ \A i \in DOMAIN t : Verdict(t[i]) => \E k \in DOMAIN s : Verdict(s[k]) /\ g[k] = i

\* Then they follow the same jobs.
LEMMA ToldSame ==
    ASSUME NEW s, NEW t, NEW q, NEW l, Told(s, q), SameVerdicts(s, t),
           l.active = q.active, l.pending = q.pending, l.limit = q.limit
    PROVE  Told(t, l)
<1>1. PICK N, f : Follows(s, f, N, q.pending, q.limit)
  BY DEF Told
<1>2. PICK g : /\ \A i \in DOMAIN s : Verdict(s[i]) => g[i] \in DOMAIN t /\ t[g[i]] = s[i]
               /\ \A i, k \in DOMAIN s : Verdict(s[i]) /\ Verdict(s[k]) /\ i < k => g[i] < g[k]
               /\ \A i \in DOMAIN t : Verdict(t[i]) => \E k \in DOMAIN s : Verdict(s[k]) /\ g[k] = i
  BY DEF SameVerdicts
<1> DEFINE h == [x \in 1..N |-> g[f[x]]]
           p == q.pending
           limit == q.limit
<1>3. ASSUME NEW x \in 1..N
      PROVE  /\ f[x] \in DOMAIN s /\ Verdict(s[f[x]]) /\ h[x] \in DOMAIN t /\ t[h[x]] = s[f[x]]
             /\ h[x] = g[f[x]]
  BY <1>1, <1>2 DEF Follows
<1>4. h \in [1..N -> DOMAIN t]
  BY <1>3
<1> HIDE DEF h
<1>5. ASSUME NEW x \in 1..N, NEW y \in 1..N, x < y PROVE h[x] < h[y]
  <2>1. f[x] < f[y]
    BY <1>1, <1>5 DEF Follows
  <2> QED BY <1>2, <1>3, <2>1
<1>6. ASSUME NEW i \in DOMAIN t, Verdict(t[i]) PROVE \E x \in 1..N : h[x] = i
  <2>1. PICK k \in DOMAIN s : Verdict(s[k]) /\ g[k] = i
    BY <1>2, <1>6
  <2>2. PICK x \in 1..N : f[x] = k
    BY <1>1, <2>1 DEF Follows
  <2> QED BY <1>3, <2>1, <2>2
<1>7. Follows(t, h, N, p, limit)
  <2>1. ASSUME NEW x \in 1..N
        PROVE  LET m == t[h[x]].m
               IN  /\ Verdict(t[h[x]])
                   /\ Fine(m) <=> x < N
                   /\ m.err # "ENODATA" => x <= Len(p) /\ m.j = p[x]
                   /\ m.err = "ENODATA" => limit \/ x = Len(p) + 1
    BY <1>1, <1>3 DEF Follows
  <2> QED BY <1>1, <1>4, <1>5, <1>6, <2>1 DEF Follows
<1> QED BY <1>7 DEF Told

\* Other messages come and go.
LEMMA OtherMessages ==
    ASSUME NEW S, NEW s \in Seq(S), NEW t,
           \/ t = s
           \/ s # << >> /\ ~Verdict(s[1]) /\ t = Tail(s)
           \/ \E u \in Seq(S) : t = s \o u /\ \A i \in DOMAIN u : ~Verdict(u[i])
    PROVE  SameVerdicts(s, t)
<1> DEFINE n == Len(s)
<1>0. n \in Nat /\ DOMAIN s = 1..n
  OBVIOUS
<1>1. CASE t = s
  <2> DEFINE g == [i \in DOMAIN s |-> i]
  <2>1. \A i \in DOMAIN s : g[i] = i
    OBVIOUS
  <2> HIDE DEF g
  <2> QED BY <1>1, <2>1 DEF SameVerdicts
<1>2. CASE s # << >> /\ ~Verdict(s[1]) /\ t = Tail(s)
  <2> DEFINE g == [i \in DOMAIN s |-> i - 1]
  <2>1. /\ Len(t) = n - 1 /\ DOMAIN t = 1..(n - 1)
        /\ \A i \in 1..(n - 1) : t[i] = s[i + 1]
    BY <1>2
  <2>2. \A i \in DOMAIN s : g[i] = i - 1
    OBVIOUS
  <2> HIDE DEF g, n
  <2>3. ASSUME NEW i \in DOMAIN s, Verdict(s[i]) PROVE g[i] \in DOMAIN t /\ t[g[i]] = s[i]
    <3>1. i # 1
      BY <1>2, <2>3
    <3>2. i - 1 \in 1..(n - 1) /\ (i - 1) + 1 = i
      BY <1>0, <3>1
    <3> QED BY <2>1, <2>2, <3>2
  <2>4. ASSUME NEW i \in DOMAIN s, NEW k \in DOMAIN s, i < k PROVE g[i] < g[k]
    BY <1>0, <2>2, <2>4
  <2>5. ASSUME NEW i \in DOMAIN t, Verdict(t[i]) PROVE \E k \in DOMAIN s : Verdict(s[k]) /\ g[k] = i
    <3>1. i + 1 \in DOMAIN s /\ (i + 1) - 1 = i
      BY <1>0, <2>1
    <3> QED BY <2>1, <2>2, <2>5, <3>1
  <2> QED BY <2>3, <2>4, <2>5 DEF SameVerdicts
<1>3. ASSUME NEW u \in Seq(S), t = s \o u, \A i \in DOMAIN u : ~Verdict(u[i]) PROVE SameVerdicts(s, t)
  <2> DEFINE g == [i \in DOMAIN s |-> i]
  <2>1. \A i \in DOMAIN s : g[i] = i /\ i \in DOMAIN t /\ t[i] = s[i]
    BY <1>3
  <2>2. ASSUME NEW i \in DOMAIN t, Verdict(t[i]) PROVE i \in DOMAIN s /\ Verdict(s[i])
    BY <1>3, <2>2, InEither
  <2> HIDE DEF g
  <2> QED BY <2>1, <2>2 DEF SameVerdicts
<1> QED BY <1>1, <1>2, <1>3

\* t is s without its first message.
Shifted(s, t, n) ==
    /\ n \in Nat /\ n > 0 /\ DOMAIN s = 1..n /\ DOMAIN t = 1..(n - 1)
    /\ \A i \in 1..(n - 1) : t[i] = s[i + 1]

LEMMA TailShifted ==
    ASSUME NEW S, NEW s \in Seq(S), s # << >>
    PROVE  Shifted(s, Tail(s), Len(s))
  BY DEF Shifted

\* The first verdict is the first.
LEMMA FirstVerdict ==
    ASSUME NEW s, NEW n \in Nat, n > 0, DOMAIN s = 1..n, Verdict(s[1]),
           NEW N, NEW f, NEW p, NEW limit, Follows(s, f, N, p, limit)
    PROVE  N \in Nat /\ 1 \in 1..N /\ f[1] = 1
<1>1. 1 \in DOMAIN s /\ \A i \in DOMAIN s : i \in Nat /\ ~(i < 1)
  OBVIOUS
<1>2. PICK x \in 1..N : f[x] = 1
  BY <1>1 DEF Follows
<1>3. N \in Nat
  BY DEF Follows
<1>4. 1 \in 1..N /\ x \in Nat /\ x > 0
  BY <1>2, <1>3
<1>5. ASSUME 1 < x PROVE FALSE
  <2>1. f[1] \in DOMAIN s /\ f[1] < f[x]
    BY <1>2, <1>4, <1>5 DEF Follows
  <2> QED BY <1>1, <1>2, <2>1
<1>6. x = 1
  BY <1>4, <1>5
<1> QED BY <1>2, <1>3, <1>4, <1>6

\* A success is one of the next job.
LEMMA FollowsSuccess ==
    ASSUME NEW s, NEW t, NEW n, Shifted(s, t, n), Verdict(s[1]), Fine(s[1].m),
           NEW p, NEW r, NEW N, NEW f, NEW limit, Follows(s, f, N, p, limit),
           Len(p) \in Nat, Len(p) > 0 => Len(r) = Len(p) - 1 /\ \A x \in 1..(Len(p) - 1) : r[x] = p[x + 1]
    PROVE  /\ Len(p) > 0 /\ s[1].m.j = p[1]
           /\ \E M, g : Follows(t, g, M, r, limit)
<1> DEFINE M == N - 1
           g == [x \in 1..M |-> f[x + 1] - 1]
<1>1. N \in Nat /\ 1 \in 1..N /\ f[1] = 1
  BY FirstVerdict DEF Shifted
<1>0. s[1].m.err # "ENODATA"
  BY FineErr
<1>2. 1 < N /\ 1 <= Len(p) /\ s[1].m.j = p[1]
  BY <1>0, <1>1 DEF Follows
<1>3. Len(p) > 0 /\ Len(r) = Len(p) - 1 /\ \A x \in 1..(Len(p) - 1) : r[x] = p[x + 1]
  BY <1>2
<1>4. M \in Nat /\ \A x \in 1..M : x \in Nat /\ x + 1 \in 1..N /\ 1 < x + 1 /\ (x < M <=> x + 1 < N)
  BY <1>1, <1>2
<1>5. ASSUME NEW x \in 1..M
      PROVE  f[x + 1] \in DOMAIN s /\ 1 < f[x + 1] /\ g[x] = f[x + 1] - 1
  <2>1. x + 1 \in 1..N /\ 1 < x + 1
    BY <1>4
  <2>2. f[x + 1] \in DOMAIN s /\ f[1] < f[x + 1]
    BY <1>1, <2>1 DEF Follows
  <2> QED BY <1>1, <2>2
<1> HIDE DEF g
<1>6. ASSUME NEW x \in 1..M PROVE g[x] \in 1..(n - 1) /\ g[x] + 1 = f[x + 1] /\ f[x + 1] \in Nat
  <2>1. n \in Nat /\ f[x + 1] \in 1..n /\ 1 < f[x + 1] /\ g[x] = f[x + 1] - 1
    BY <1>5 DEF Shifted
  <2> QED BY <2>1
<1>7. ASSUME NEW x \in 1..M PROVE g[x] \in DOMAIN t /\ t[g[x]] = s[f[x + 1]]
  BY <1>6 DEF Shifted
<1>8. g \in [1..M -> DOMAIN t]
  BY <1>7 DEF g
<1>9. ASSUME NEW x \in 1..M, NEW y \in 1..M, x < y PROVE g[x] < g[y]
  <2>1. x + 1 \in 1..N /\ y + 1 \in 1..N /\ x + 1 < y + 1
    BY <1>4, <1>9
  <2>2. f[x + 1] < f[y + 1]
    BY <2>1 DEF Follows
  <2>3. f[x + 1] \in Nat /\ f[y + 1] \in Nat /\ g[x] = f[x + 1] - 1 /\ g[y] = f[y + 1] - 1
    BY <1>5, <1>6
  <2> QED BY <2>2, <2>3
<1>10. ASSUME NEW i \in DOMAIN t, Verdict(t[i]) PROVE \E x \in 1..M : g[x] = i
  <2>1. i \in 1..(n - 1) /\ n \in Nat /\ t[i] = s[i + 1] /\ DOMAIN s = 1..n
    BY DEF Shifted
  <2>2. i + 1 \in DOMAIN s /\ i \in Nat /\ i + 1 # 1
    BY <2>1
  <2>3. PICK y \in 1..N : f[y] = i + 1
    BY <1>10, <2>1, <2>2 DEF Follows
  <2>4. y # 1
    BY <1>1, <2>2, <2>3
  <2>5. y - 1 \in 1..M /\ (y - 1) + 1 = y
    BY <1>1, <2>4
  <2>6. g[y - 1] = f[y] - 1
    BY <1>5, <2>5
  <2>7. g[y - 1] = i
    BY <2>2, <2>3, <2>6
  <2> QED BY <2>5, <2>7
<1>11. ASSUME NEW x \in 1..M
       PROVE  LET m == t[g[x]].m
              IN  /\ Verdict(t[g[x]])
                  /\ Fine(m) <=> x < M
                  /\ m.err # "ENODATA" => x <= Len(r) /\ m.j = r[x]
                  /\ m.err = "ENODATA" => limit \/ x = Len(r) + 1
  <2> DEFINE y == x + 1
             v == s[f[y]].m
  <2>1. y \in 1..N /\ (x < M <=> y < N) /\ t[g[x]] = s[f[y]] /\ x \in 1..M
    BY <1>4, <1>7
  <2>2. /\ Verdict(s[f[y]])
        /\ Fine(v) <=> y < N
        /\ v.err # "ENODATA" => y <= Len(p) /\ v.j = p[y]
        /\ v.err = "ENODATA" => limit \/ y = Len(p) + 1
    BY <2>1 DEF Follows
  <2>3. x \in Nat /\ x > 0
    BY <1>4
  <2>4. y <= Len(p) => x <= Len(r) /\ r[x] = p[y]
    BY <1>3, <2>3
  <2>5. y = Len(p) + 1 => x = Len(r) + 1
    BY <1>3, <2>3
  <2> HIDE DEF y, v
  <2>6. t[g[x]].m = v
    BY <2>1 DEF v
  <2> QED BY <2>1, <2>2, <2>4, <2>5, <2>6
<1> HIDE DEF M
<1>12. Follows(t, g, M, r, limit)
  BY <1>4, <1>8, <1>9, <1>10, <1>11 DEF Follows
<1> QED BY <1>2, <1>3, <1>12

\* A failure is the last verdict.
LEMMA FollowsFailure ==
    ASSUME NEW s, NEW t, NEW n, Shifted(s, t, n), Verdict(s[1]), ~Fine(s[1].m),
           NEW p, NEW N, NEW f, NEW limit, Follows(s, f, N, p, limit), Len(p) \in Nat
    PROVE  /\ s[1].m.err # "ENODATA" => Len(p) > 0 /\ s[1].m.j = p[1]
           /\ s[1].m.err = "ENODATA" => limit \/ Len(p) = 0
           /\ \A i \in DOMAIN t : ~Verdict(t[i])
<1>1. N \in Nat /\ 1 \in 1..N /\ f[1] = 1
  BY FirstVerdict DEF Shifted
<1>2. ~(1 < N)
  BY <1>1 DEF Follows
<1>3. N = 1
  BY <1>1, <1>2
<1>4. /\ s[1].m.err # "ENODATA" => 1 <= Len(p) /\ s[1].m.j = p[1]
      /\ s[1].m.err = "ENODATA" => limit \/ 1 = Len(p) + 1
  BY <1>1 DEF Follows
<1>5. (1 <= Len(p) => Len(p) > 0) /\ (1 = Len(p) + 1 => Len(p) = 0)
  OBVIOUS
<1>6. ASSUME NEW i \in DOMAIN t, Verdict(t[i]) PROVE FALSE
  <2>1. i \in 1..(n - 1) /\ n \in Nat /\ t[i] = s[i + 1] /\ DOMAIN s = 1..n
    BY DEF Shifted
  <2>2. i + 1 \in DOMAIN s /\ i \in Nat /\ i + 1 # 1
    BY <2>1
  <2>3. PICK y \in 1..N : f[y] = i + 1
    BY <1>6, <2>1, <2>2 DEF Follows
  <2>4. y = 1
    BY <1>3
  <2> QED BY <1>1, <2>2, <2>3, <2>4
<1> QED BY <1>4, <1>5, <1>6

-----------------------------------------------------------------------------
(***************************************************************************)
(* No queue overlooks that its first job may start: what the queue manager  *)
(* and the resource module know of each other.                              *)
(***************************************************************************)
\* A request the queue manager waits for.
Live(x) == x.k = "match" /\ x.alive

\* The jobs are the first of an active queue, and all of them unless it looks no further.
Asked(jobs, q) ==
    /\ q.active /\ Len(jobs) <= Len(q.pending)
    /\ \A x \in 1..Len(jobs) : jobs[x] = q.pending[x]
    /\ q.limit \/ Len(jobs) = Len(q.pending)

\* There is one request at a time, and none while answers are underway.
AskedInv ==
    rm # Off => \A i \in DOMAIN reqs : Live(reqs[i]) =>
       /\ qm # Off /\ reqs[i].queue \in DOMAIN qm.queues
       /\ Asked(reqs[i].jobs, qm.queues[reqs[i].queue])
       /\ \A k \in DOMAIN reqs : Live(reqs[k]) => k = i
       /\ \A k \in DOMAIN toQm : ~Verdict(toQm[k])

\* The answers are for the first jobs of the queue, in their order.
ToldInv ==
    rm # Off => \A i \in DOMAIN toQm : Verdict(toQm[i]) =>
       /\ qm # Off /\ toQm[i].queue \in DOMAIN qm.queues
       /\ Told(toQm, qm.queues[toQm[i].queue])

\* A wake-up is on its way.
Wakes == \E i \in DOMAIN toQm : toQm[i].k = "empty"

\* A queue manager that has heard from the resource module will hear from it.
HearsInv ==
    (rm # Off /\ (Wakes \/ (qm # Off /\ qm.st # "resource"))) => "qm" \in rm.notify_msgs

\* Queues are empty until the queue manager is ready.
Idle(q) == q.pending = << >> /\ ~q.active

IdleInv == (qm # Off /\ qm.st # "ready") => \A n \in DOMAIN qm.queues : Idle(qm.queues[n])

OneInv == qm # Off => \A n, k \in DOMAIN qm.queues : n = k

\* The queue will look at its jobs again.
Due(q) == silent \/ Wakes \/ q.sched

\* The first job that waits lacks ranks, and so does one that will be told to wait.
Blocked(ctx, q, s) ==
    /\ ~q.active /\ q.pending # << >> => Lacks(ctx, Head(q.pending))
    /\ \A i \in DOMAIN s : Verdict(s[i]) /\ s[i].m.err = "EBUSY" => s[i].m.j \in Job /\ Lacks(ctx, s[i].m.j)

BlockedInv ==
    (rm # Off /\ qm # Off) => \A n \in DOMAIN qm.queues :
       Due(qm.queues[n]) \/ Blocked(rm, qm.queues[n], toQm)

WaitsInv == OneInv /\ IdleInv /\ HearsInv /\ AskedInv /\ ToldInv /\ BlockedInv

\* No request is new.
LiveKept(s, t) ==
    \E g : /\ \A i \in DOMAIN t : Live(t[i]) => g[i] \in DOMAIN s /\ s[g[i]] = t[i]
           /\ \A i, k \in DOMAIN t : Live(t[i]) /\ Live(t[k]) /\ g[i] = g[k] => i = k

\* The queues wait for the same jobs, and the queue manager goes on.
SameLoops ==
    \/ qm = Off /\ qm' = Off
    \/ /\ qm # Off /\ qm' # Off /\ DOMAIN qm'.queues = DOMAIN qm.queues
       /\ qm.st = "ready" => qm'.st = "ready"
       /\ qm'.st = "resource" => qm.st = "resource"
       /\ \A n \in DOMAIN qm.queues : /\ qm'.queues[n].pending = qm.queues[n].pending
                                      /\ qm'.queues[n].active = qm.queues[n].active
                                      /\ qm'.queues[n].limit = qm.queues[n].limit

\* The queue manager goes on being told.
HearsKept ==
    rm' # Off => /\ rm # Off
                 /\ "qm" \in rm.notify_msgs => "qm" \in rm'.notify_msgs
                 /\ Wakes' => Wakes \/ "qm" \in rm'.notify_msgs
                 /\ (qm' # Off /\ qm'.st # "resource")
                    => (qm # Off /\ qm.st # "resource") \/ "qm" \in rm'.notify_msgs

\* Whatever may let a job start is told to the queues.
DueKept ==
    (rm' # Off /\ qm' # Off) => \A n \in DOMAIN qm.queues :
       \/ Due(qm.queues[n])'
       \/ qm.st # "ready"
       \/ ~Due(qm.queues[n]) /\ FreesNothing(rm, rm')

\* Without verdicts before there are none after.
LEMMA NoVerdicts ==
    ASSUME NEW s, NEW t, SameVerdicts(s, t), \A i \in DOMAIN s : ~Verdict(s[i])
    PROVE  \A i \in DOMAIN t : ~Verdict(t[i])
  BY DEF SameVerdicts

\* Every verdict after was one before.
LEMMA OldVerdict ==
    ASSUME NEW s, NEW t, SameVerdicts(s, t), NEW i \in DOMAIN t, Verdict(t[i])
    PROVE  \E k \in DOMAIN s : Verdict(s[k]) /\ s[k] = t[i]
  BY DEF SameVerdicts

\* A step that moves no job and no answer.
LEMMA WaitsFrame ==
    ASSUME QmTyped, RmSound, WaitsInv, SameLoops, HearsKept, DueKept,
           LiveKept(reqs, reqs'), SameVerdicts(toQm, toQm')
    PROVE  WaitsInv'
<1> USE DEF WaitsInv
<1>1. OneInv' /\ IdleInv'
  BY DEF OneInv, IdleInv, SameLoops, Idle
<1>2. HearsInv'
  BY DEF HearsInv, HearsKept
<1>3. AskedInv'
  <2> SUFFICES ASSUME rm' # Off, NEW i \in DOMAIN reqs', Live(reqs'[i])
               PROVE  /\ qm' # Off /\ reqs'[i].queue \in DOMAIN qm'.queues
                      /\ Asked(reqs'[i].jobs, qm'.queues[reqs'[i].queue])
                      /\ \A k \in DOMAIN reqs' : Live(reqs'[k]) => k = i
                      /\ \A k \in DOMAIN toQm' : ~Verdict(toQm'[k])
    BY DEF AskedInv
  <2>1. PICK g : /\ \A k \in DOMAIN reqs' : Live(reqs'[k]) => g[k] \in DOMAIN reqs /\ reqs[g[k]] = reqs'[k]
                 /\ \A l, k \in DOMAIN reqs' : Live(reqs'[l]) /\ Live(reqs'[k]) /\ g[l] = g[k] => l = k
    BY DEF LiveKept
  <2>2. rm # Off
    BY DEF HearsKept
  <2> DEFINE x == reqs'[i]
             q == qm.queues[x.queue]
             l == qm'.queues[x.queue]
  <2>3. /\ qm # Off /\ x.queue \in DOMAIN qm.queues /\ Asked(x.jobs, q)
        /\ \A k \in DOMAIN reqs : Live(reqs[k]) => k = g[i]
        /\ \A k \in DOMAIN toQm : ~Verdict(toQm[k])
    BY <2>1, <2>2 DEF AskedInv
  <2>4. /\ qm' # Off /\ DOMAIN qm'.queues = DOMAIN qm.queues /\ l.pending = q.pending
        /\ l.active = q.active /\ l.limit = q.limit
    BY <2>3 DEF SameLoops
  <2>5. Asked(x.jobs, l)
    BY <2>3, <2>4 DEF Asked
  <2>6. \A k \in DOMAIN reqs' : Live(reqs'[k]) => k = i
    BY <2>1, <2>3
  <2>7. \A k \in DOMAIN toQm' : ~Verdict(toQm'[k])
    BY <2>3, NoVerdicts
  <2> QED BY <2>3, <2>4, <2>5, <2>6, <2>7
<1>4. ToldInv'
  <2> SUFFICES ASSUME rm' # Off, NEW i \in DOMAIN toQm', Verdict(toQm'[i])
               PROVE  /\ qm' # Off /\ toQm'[i].queue \in DOMAIN qm'.queues
                      /\ Told(toQm', qm'.queues[toQm'[i].queue])
    BY DEF ToldInv
  <2>1. PICK k \in DOMAIN toQm : Verdict(toQm[k]) /\ toQm[k] = toQm'[i]
    BY OldVerdict
  <2> DEFINE x == toQm'[i]
             q == qm.queues[x.queue]
             l == qm'.queues[x.queue]
  <2>2. qm # Off /\ x.queue \in DOMAIN qm.queues /\ Told(toQm, q)
    BY <2>1 DEF ToldInv, HearsKept
  <2>3. /\ qm' # Off /\ DOMAIN qm'.queues = DOMAIN qm.queues /\ l.pending = q.pending
        /\ l.active = q.active /\ l.limit = q.limit
    BY <2>2 DEF SameLoops
  <2>4. Told(toQm', l)
    BY <2>2, <2>3, ToldSame
  <2> QED BY <2>2, <2>3, <2>4
<1>5. BlockedInv'
  <2> SUFFICES ASSUME rm' # Off, qm' # Off, NEW n \in DOMAIN qm'.queues, ~Due(qm.queues[n])'
               PROVE  Blocked(rm', qm'.queues[n], toQm')
    BY DEF BlockedInv
  <2> DEFINE q == qm.queues[n]
             l == qm'.queues[n]
  <2>1. /\ rm # Off /\ qm # Off /\ n \in DOMAIN qm.queues /\ l.pending = q.pending
        /\ l.active = q.active
    BY DEF SameLoops, HearsKept
  <2>2. CASE qm.st # "ready"
    <3>1. \A k \in DOMAIN qm.queues : ~qm.queues[k].active /\ qm.queues[k].pending = << >>
      BY <2>1, <2>2 DEF IdleInv, Idle
    <3>2. ASSUME NEW i \in DOMAIN toQm, Verdict(toQm[i]) PROVE FALSE
      BY <2>1, <3>1, <3>2 DEF ToldInv, Told
    <3>3. \A i \in DOMAIN toQm' : ~Verdict(toQm'[i])
      BY <3>2, NoVerdicts
    <3> QED BY <2>1, <3>1, <3>3 DEF Blocked
  <2>3. CASE ~Due(q) /\ FreesNothing(rm, rm')
    <3>1. Blocked(rm, q, toQm) /\ rm.ranks \subseteq Rank /\ QueueTyped(q)
      BY <2>1, <2>3 DEF BlockedInv, RmSound, Sound, QmTyped
    <3>2. \A j \in Job : Lacks(rm, j) => Lacks(rm', j)
      BY <2>3, <3>1, LacksKept
    <3>3. q.pending # << >> => Head(q.pending) \in Job
      BY <3>1 DEF QueueTyped
    <3>4. ~l.active /\ l.pending # << >> => Lacks(rm', Head(l.pending))
      BY <2>1, <3>1, <3>2, <3>3 DEF Blocked
    <3>5. ASSUME NEW i \in DOMAIN toQm', Verdict(toQm'[i]), toQm'[i].m.err = "EBUSY"
          PROVE  toQm'[i].m.j \in Job /\ Lacks(rm', toQm'[i].m.j)
      <4>1. PICK k \in DOMAIN toQm : Verdict(toQm[k]) /\ toQm[k] = toQm'[i]
        BY <3>5, OldVerdict
      <4> QED BY <3>1, <3>2, <3>5, <4>1 DEF Blocked
    <3> QED BY <3>4, <3>5 DEF Blocked
  <2> QED BY <2>1, <2>2, <2>3 DEF DueKept
<1> QED BY <1>1, <1>2, <1>3, <1>4, <1>5

-----------------------------------------------------------------------------
\* Requests are read, or others come.
LEMMA LiveSame ==
    ASSUME NEW S, NEW s \in Seq(S), NEW t,
           \/ t = s \/ t = << >> \/ (s # << >> /\ t = Tail(s))
           \/ \E x \in S : ~Live(x) /\ t = Append(s, x)
    PROVE  LiveKept(s, t)
<1> DEFINE n == Len(s)
<1>0. n \in Nat /\ DOMAIN s = 1..n
  OBVIOUS
<1>1. CASE t = << >>
  BY <1>1 DEF LiveKept
<1>2. ASSUME NEW x \in S, t = s \/ (~Live(x) /\ t = Append(s, x)) PROVE LiveKept(s, t)
  <2> DEFINE g == [i \in DOMAIN t |-> i]
  <2>1. \A i \in DOMAIN t : g[i] = i
    OBVIOUS
  <2>2. \A i \in DOMAIN t : (i \in DOMAIN s /\ s[i] = t[i]) \/ (t[i] = x /\ t # s)
    BY <1>2
  <2> HIDE DEF g
  <2> QED BY <1>2, <2>1, <2>2 DEF LiveKept
<1>3. CASE t = s
  <2>1. CASE S = {}
    <3>1. s = << >>
      BY <2>1
    <3> QED BY <1>1, <1>3, <3>1
  <2> QED BY <1>2, <1>3, <2>1
<1>4. CASE s # << >> /\ t = Tail(s)
  <2> DEFINE g == [i \in DOMAIN t |-> i + 1]
  <2>1. DOMAIN t = 1..(n - 1) /\ \A i \in 1..(n - 1) : t[i] = s[i + 1]
    BY <1>4
  <2>2. \A i \in DOMAIN t : g[i] = i + 1
    OBVIOUS
  <2> HIDE DEF g, n
  <2>3. ASSUME NEW i \in DOMAIN t PROVE g[i] \in DOMAIN s /\ s[g[i]] = t[i] /\ i \in Nat
    BY <1>0, <2>1, <2>2
  <2>4. ASSUME NEW i \in DOMAIN t, NEW k \in DOMAIN t, g[i] = g[k] PROVE i = k
    BY <2>2, <2>3, <2>4
  <2> QED BY <2>3, <2>4 DEF LiveKept
<1> QED BY <1>1, <1>2, <1>3, <1>4

\* What is not a verdict.
LEMMA NotVerdicts ==
    /\ ~Verdict(EmptyResponse) /\ ~Verdict(StreamError)
    /\ EmptyResponse.k = "empty" /\ StreamError.k = "error"
    /\ \A who : ~Live([k |-> "notify", who |-> who])
  BY DEF Verdict, EmptyResponse, StreamError, Live

\* More messages for the queue manager, none of them a verdict.
LEMMA MoreMessages ==
    ASSUME ToQmTyped, NEW u \in Seq({EmptyResponse, StreamError}), toQm' = toQm \o u
    PROVE  /\ SameVerdicts(toQm, toQm') /\ (Wakes => Wakes')
           /\ (\E i \in DOMAIN u : u[i] = EmptyResponse) => Wakes'
           /\ Wakes' => Wakes \/ \E i \in DOMAIN u : u[i] = EmptyResponse
<1> DEFINE S == {EmptyResponse, StreamError} \cup MatchAnswer
           s == toQm
           t == s \o u
<1>1. s \in Seq(S) /\ u \in Seq(S)
  BY DEF ToQmTyped
<1>2. \A i \in DOMAIN u : u[i] \in {EmptyResponse, StreamError}
  OBVIOUS
<1>3. \A i \in DOMAIN u : ~Verdict(u[i]) /\ (u[i].k = "empty" <=> u[i] = EmptyResponse)
  BY <1>2, NotVerdicts
<1> HIDE DEF S
<1>4. SameVerdicts(s, t)
  BY <1>1, <1>3, OtherMessages
<1>5. /\ \A i \in 1..Len(s) : t[i] = s[i] /\ i \in DOMAIN t
      /\ \A i \in 1..Len(u) : t[Len(s) + i] = u[i] /\ Len(s) + i \in DOMAIN t
      /\ DOMAIN s = 1..Len(s) /\ DOMAIN u = 1..Len(u)
  BY <1>1
<1>6. \A i \in DOMAIN t : (i \in DOMAIN s /\ t[i] = s[i]) \/ \E x \in DOMAIN u : t[i] = u[x]
  BY <1>1, InEither
<1> HIDE DEF s, t
<1> DEFINE W(x) == x.k = "empty"
<1>a. \A i \in DOMAIN u : W(u[i]) <=> u[i] = EmptyResponse
  BY <1>3
<1> HIDE DEF W
<1>7. (\E i \in DOMAIN s : W(s[i])) => \E i \in DOMAIN t : W(t[i])
  BY <1>5
<1>8. (\E i \in DOMAIN u : u[i] = EmptyResponse) => \E i \in DOMAIN t : W(t[i])
  <2> SUFFICES ASSUME NEW i \in DOMAIN u, u[i] = EmptyResponse PROVE \E k \in DOMAIN t : W(t[k])
    OBVIOUS
  <2>1. W(u[i]) /\ t[Len(s) + i] = u[i] /\ Len(s) + i \in DOMAIN t
    BY <1>a, <1>5
  <2> QED BY <2>1
<1>9. (\E i \in DOMAIN t : W(t[i]))
         => (\E i \in DOMAIN s : W(s[i])) \/ \E i \in DOMAIN u : u[i] = EmptyResponse
  <2> SUFFICES ASSUME NEW i \in DOMAIN t, W(t[i])
               PROVE  (\E k \in DOMAIN s : W(s[k])) \/ \E k \in DOMAIN u : u[k] = EmptyResponse
    OBVIOUS
  <2>1. CASE i \in DOMAIN s /\ t[i] = s[i]
    BY <2>1
  <2>2. ASSUME NEW x \in DOMAIN u, t[i] = u[x] PROVE \E k \in DOMAIN u : u[k] = EmptyResponse
    BY <1>a, <2>2
  <2> QED BY <1>6, <2>1, <2>2
<1> QED BY <1>4, <1>7, <1>8, <1>9 DEF Wakes, W, s, t

\* No message comes.
LEMMA SameMessages ==
    ASSUME ToQmTyped, toQm' = toQm
    PROVE  SameVerdicts(toQm, toQm') /\ (Wakes' <=> Wakes)
<1>1. SameVerdicts(toQm, toQm')
  BY OtherMessages DEF ToQmTyped
<1> QED BY <1>1 DEF Wakes

\* The resource module speaks to its subscribers.
LEMMA RespondWakes ==
    ASSUME ToQmTyped, NEW subs, NEW msg, msg # StreamError, Respond(subs, msg)
    PROVE  /\ SameVerdicts(toQm, toQm') /\ (Wakes => Wakes')
           /\ "qm" \in subs => Wakes'
           /\ Wakes' => Wakes \/ "qm" \in subs
<1>1. CASE "qm" \in subs
  <2> DEFINE u == <<EmptyResponse>>
             x == EmptyResponse
  <2>1. toQm' = Append(toQm, x)
    BY <1>1 DEF Respond, Notified
  <2>2. x \in {EmptyResponse, StreamError}
    OBVIOUS
  <2> HIDE DEF x
  <2>3. /\ Append(toQm, x) = toQm \o <<x>> /\ <<x>> \in Seq({EmptyResponse, StreamError})
        /\ 1 \in DOMAIN <<x>> /\ <<x>>[1] = x
    BY <2>2 DEF ToQmTyped
  <2> DEFINE v == <<x>>
  <2> HIDE DEF v
  <2>4. toQm' = toQm \o v /\ v \in Seq({EmptyResponse, StreamError}) /\ 1 \in DOMAIN v /\ v[1] = EmptyResponse
    BY <2>1, <2>3 DEF v, x
  <2> QED BY <1>1, <2>4, MoreMessages
<1>2. CASE "qm" \notin subs
  BY <1>2, SameMessages DEF Respond
<1> QED BY <1>1, <1>2

\* The queue manager does not move.
LEMMA SameManager ==
    ASSUME qm' = qm
    PROVE  SameLoops
  BY DEF SameLoops

\* Only the context of the resource module changes, and it frees nothing or says so.
LEMMA ContextStep ==
    ASSUME Typed, WaitsInv, rm # Off, qm' = qm, LiveKept(reqs, reqs'), SameVerdicts(toQm, toQm'),
           Wakes => Wakes', silent => silent',
           "qm" \in rm.notify_msgs => "qm" \in rm'.notify_msgs,
           Wakes' => Wakes \/ "qm" \in rm'.notify_msgs,
           \/ silent' \/ FreesNothing(rm, rm')
           \/ "qm" \in rm.notify_msgs => Wakes'
    PROVE  WaitsInv'
<1> USE DEF Typed
<1>1. HearsKept
  BY DEF HearsKept
<1>2. DueKept
  <2> SUFFICES ASSUME qm # Off, NEW n \in DOMAIN qm.queues, ~Due(qm.queues[n])', qm.st = "ready"
               PROVE  ~Due(qm.queues[n]) /\ FreesNothing(rm, rm')
    BY DEF DueKept
  <2>1. ~silent' /\ ~Wakes' /\ ~qm.queues[n].sched
    BY DEF Due
  <2>2. "qm" \in rm.notify_msgs
    BY DEF WaitsInv, HearsInv
  <2> QED BY <2>1, <2>2 DEF Due
<1> QED BY <1>1, <1>2, SameManager, WaitsFrame

\* No request is read and none comes.
LEMMA SameRequests ==
    ASSUME ReqsTyped, reqs' = reqs
    PROVE  LiveKept(reqs, reqs')
  BY LiveSame DEF ReqsTyped

\* An administrator frees nothing, or the subscribers hear of it, or silence is kept.
LEMMA AdminWaits ==
    ASSUME Typed, WaitsInv, AdminNext, ~quiescent_request_cb
    PROVE  WaitsInv'
<1> USE DEF Typed
<1>1. ASSUME NEW F, rm # Off, Only(rm, rm', F), "notify_msgs" \notin F,
             qm' = qm, reqs' = reqs, toQm' = toQm, silent => silent', silent' \/ FreesNothing(rm, rm')
      PROVE  WaitsInv'
  <2>1. rm'.notify_msgs = rm.notify_msgs
    BY <1>1 DEF Only, CtxFields
  <2> QED BY <1>1, <2>1, SameRequests, SameMessages, ContextStep
<1>2. ASSUME NEW r, NEW up \in BOOLEAN, set_status_request_cb(r, up) PROVE WaitsInv'
  <2> DEFINE c == mark_now(rm, {r}, up)
             F == {"up", "nodes_up", "down_updated"}
             subs == IF up THEN rm.notify_msgs ELSE {}
  <2>1. /\ rm # Off /\ rm' = c /\ qm' = qm /\ reqs' = reqs /\ Respond(subs, EmptyResponse)
        /\ silent' = (silent \/ FALSE)
    BY <1>2 DEF set_status_request_cb, Edit
  <2>2. /\ Only(rm, c, F)
        /\ c.up = IF up THEN rm.up \cup ({r} \cap rm.ranks) ELSE rm.up \ ({r} \cap rm.ranks)
    BY <2>1, MarkNow DEF RmSound, Sound
  <2>3. EmptyResponse # StreamError
    BY NotVerdicts
  <2> HIDE DEF c
  <2>4. /\ c.notify_msgs = rm.notify_msgs /\ c.ranks = rm.ranks /\ c.props = rm.props
        /\ c.booked = rm.booked
    BY <2>2 DEF Only, CtxFields
  <2>5. ~up => FreesNothing(rm, rm')
    BY <2>1, <2>2, <2>4, FewerFree
  <2> DEFINE x == EmptyResponse
  <2> HIDE DEF subs, x
  <2>6. /\ SameVerdicts(toQm, toQm') /\ (Wakes => Wakes') /\ ("qm" \in subs => Wakes')
        /\ Wakes' => Wakes \/ "qm" \in subs
    BY <2>1, <2>3, RespondWakes DEF x
  <2>7. "qm" \in subs <=> up /\ "qm" \in rm.notify_msgs
    BY DEF subs
  <2> QED BY <2>1, <2>4, <2>5, <2>6, <2>7, SameRequests, ContextStep
<1>3. ASSUME NEW r, set_property_request_cb(r) \/ remove_property_request_cb(r) PROVE WaitsInv'
  <2> DEFINE F == {"props"}
  <2>1. /\ rm # Off /\ qm' = qm /\ reqs' = reqs /\ toQm' = toQm /\ (silent => silent')
        /\ \E z : rm' = [rm EXCEPT !.props = z] /\ (silent' \/ z \subseteq rm.props)
    BY <1>3 DEF set_property_request_cb, remove_property_request_cb, Edit
  <2>2. /\ Only(rm, rm', F) /\ rm'.ranks = rm.ranks /\ rm'.up = rm.up /\ rm'.booked = rm.booked
        /\ silent' \/ rm'.props \subseteq rm.props
    BY <2>1 DEF RmSound, Sound, Only, CtxFields
  <2>3. silent' \/ FreesNothing(rm, rm')
    BY <2>2, FewerFree
  <2>4. "notify_msgs" \notin F
    OBVIOUS
  <2> QED BY <1>1, <2>1, <2>2, <2>3, <2>4
<1>4. ASSUME NEW x, NEW F, rm # Off, Only(rm, x, F), "notify_msgs" \notin F,
             rm' = InitTraverser(x).ctx, qm' = qm, reqs' = reqs, toQm' = toQm, silent => silent',
             silent' \/ FreesNothing(rm, x)
      PROVE  WaitsInv'
  <2>1. rm' = IF x.root THEN [x EXCEPT !.initialized = TRUE] ELSE x
    BY <1>4 DEF InitTraverser, Done, Error
  <2>2. /\ Only(rm, rm', F \cup {"initialized"})
        /\ rm'.ranks = x.ranks /\ rm'.up = x.up /\ rm'.booked = x.booked /\ rm'.props = x.props
    BY <1>4, <2>1 DEF Only, CtxFields
  <2>3. FreesNothing(rm, x) => FreesNothing(rm, rm')
    BY <2>2 DEF FreesNothing, FreeFor, Suits
  <2> QED BY <1>1, <1>4, <2>2, <2>3
<1>5. ASSUME NEW r \in Rank, add_subgraph_request_cb(r) PROVE WaitsInv'
  <2> DEFINE x == [rm EXCEPT !.ranks = @ \cup {r}, !.up = @ \cup {r}]
             F == {"ranks", "up"}
  <2>1. /\ rm # Off /\ rm' = InitTraverser(x).ctx /\ qm' = qm /\ reqs' = reqs /\ toQm' = toQm
        /\ silent' = (silent \/ TRUE)
    BY <1>5 DEF add_subgraph_request_cb, Edit, run_add_subgraph
  <2>2. Only(rm, x, F)
    BY <2>1 DEF RmSound, Sound, Only, CtxFields
  <2>3. "notify_msgs" \notin F
    OBVIOUS
  <2> HIDE DEF x, F
  <2> QED BY <1>4, <2>1, <2>2, <2>3
<1>6. ASSUME NEW r \in Rank, remove_subgraph_request_cb(r) PROVE WaitsInv'
  <2> DEFINE x == [rm EXCEPT !.ranks = @ \ {r}, !.up = @ \ {r}, !.props = @ \ {r}]
             F == {"ranks", "up", "props"}
  <2>1. /\ rm # Off /\ rm' = InitTraverser(x).ctx /\ qm' = qm /\ reqs' = reqs /\ toQm' = toQm
        /\ silent' = (silent \/ FALSE)
    BY <1>6 DEF remove_subgraph_request_cb, Edit, run_remove_subgraph
  <2>2. /\ Only(rm, x, F) /\ x.ranks = rm.ranks \ {r} /\ x.up = rm.up \ {r}
        /\ x.props = rm.props \ {r} /\ x.booked = rm.booked
    BY <2>1 DEF RmSound, Sound, Only, CtxFields
  <2>3. "notify_msgs" \notin F
    OBVIOUS
  <2> HIDE DEF x, F
  <2>4. FreesNothing(rm, x)
    BY <2>2, FewerFree
  <2> QED BY <1>4, <2>1, <2>2, <2>3, <2>4
<1>7. CASE status_request_cb
  <2> DEFINE all == StatusAll(rm)
             down == StatusDown(rm)
             F == {"r_alloc", "r_all", "updated", "r_down", "down_updated"}
  <2>1. /\ rm # Off /\ qm' = qm /\ reqs' = reqs /\ toQm' = toQm /\ silent' = silent
        /\ \E z : rm' = [rm EXCEPT !.r_alloc = z, !.r_all = all, !.updated = FALSE,
                                   !.r_down = down, !.down_updated = FALSE]
    BY <1>7 DEF status_request_cb
  <2> HIDE DEF all, down
  <2>2. /\ Only(rm, rm', F) /\ rm'.ranks = rm.ranks /\ rm'.up = rm.up /\ rm'.booked = rm.booked
        /\ rm'.props = rm.props
    BY <2>1 DEF RmSound, Sound, Only, CtxFields
  <2>3. "notify_msgs" \notin F
    OBVIOUS
  <2>4. FreesNothing(rm, rm')
    BY <2>2, FewerFree
  <2> QED BY <1>1, <2>1, <2>2, <2>3, <2>4
<1> QED BY <1>2, <1>3, <1>5, <1>6, <1>7 DEF AdminNext

\* What core reports is sent on.
LEMMA FollowWaits ==
    ASSUME Typed, WaitsInv, update_resource_then
    PROVE  WaitsInv'
<1> USE DEF Typed
<1> DEFINE m == Head(acq)
           u == update_resource(rm, m)
           subs == IF u.ok THEN rm.notify_msgs ELSE {}
           p == Payload(m)
<1>1. /\ rm # Off /\ acq # << >> /\ rm' = u.ctx /\ Respond(subs, p)
      /\ qm' = qm /\ reqs' = reqs /\ silent' = silent
  BY DEF update_resource_then
<1>2. m \in Update
  BY <1>1, Shorter DEF AcqTyped
<1>3. m.res = NoR
  BY <1>2 DEF Update
<1>4. p # StreamError
  <2>1. p.k = "payload"
    BY DEF Payload
  <2> HIDE DEF p
  <2> QED BY <2>1, NotVerdicts
<1>5. /\ u.ok
      /\ Only(rm, u.ctx, {"up", "nodes_up", "down_updated", "booked", "ranks", "props", "end",
                          "notify_lost", "notify_expiration"})
  <2> HIDE DEF m
  <2> QED BY <1>1, <1>3, Follow DEF RmSound, Sound
<1>6. subs = rm.notify_msgs
  BY <1>5
<1> HIDE DEF u, m, subs, p
<1>7. rm'.notify_msgs = rm.notify_msgs
  BY <1>1, <1>5 DEF Only, CtxFields
<1>8. /\ SameVerdicts(toQm, toQm') /\ (Wakes => Wakes') /\ ("qm" \in subs => Wakes')
      /\ Wakes' => Wakes \/ "qm" \in subs
  BY <1>1, <1>4, RespondWakes
<1> QED BY <1>1, <1>6, <1>7, <1>8, SameRequests, ContextStep

\* A subscriber is told how things are.
LEMMA NotifyWaits ==
    ASSUME Typed, WaitsInv, notify_request_cb
    PROVE  WaitsInv'
<1> USE DEF Typed
<1> DEFINE file == IsSet(rm.opts, "load-file")
           old == [Nothing EXCEPT !.res = rm.notify_resources]
           now == [Nothing EXCEPT !.up = rm.up, !.down = rm.ranks \ rm.up,
                                  !.lost = rm.notify_lost, !.exp = rm.notify_expiration]
           a == Payload(old)
           b == Payload(now)
           e == StreamError
           out == IF file THEN <<e>> ELSE <<a, b>>
           f == [i \in DOMAIN out |-> IF out[i] = StreamError THEN StreamError ELSE Notified]
           B == {EmptyResponse, StreamError}
           who == Head(reqs).who
<1>1. /\ rm # Off /\ qm' = qm /\ reqs # << >> /\ reqs' = Tail(reqs) /\ silent' = silent
      /\ rm' = IF file THEN rm ELSE [rm EXCEPT !.notify_msgs = @ \cup {who}]
      /\ toQm' = IF who = "qm" THEN toQm \o f ELSE toQm
  BY DEF notify_request_cb
<1>2. file => \A i \in DOMAIN f : f[i] = StreamError
  <2>1. file => out = <<e>>
    OBVIOUS
  <2> HIDE DEF out, e, file
  <2> QED BY <2>1 DEF e
<1>3. PICK N : out \in Seq(N)
  <2> DEFINE N == {e, a, b}
  <2> HIDE DEF a, b, e, N, file
  <2>1. <<e>> \in Seq(N) /\ <<a, b>> \in Seq(N)
    BY DEF N
  <2>2. out \in Seq(N)
    BY <2>1
  <2> QED BY <2>2
<1> HIDE DEF B, out, who, file
<1>4. \A i \in DOMAIN out : f[i] \in B
  BY DEF B, Notified
<1>5. DOMAIN f = DOMAIN out /\ f = [i \in DOMAIN out |-> f[i]]
  OBVIOUS
<1> HIDE DEF f
<1>6. f \in Seq(B)
  BY <1>3, <1>4, <1>5, SameLength
<1>7. /\ rm'.ranks = rm.ranks /\ rm'.up = rm.up /\ rm'.booked = rm.booked /\ rm'.props = rm.props
      /\ rm'.notify_msgs = IF file THEN rm.notify_msgs ELSE rm.notify_msgs \cup {who}
  BY <1>1 DEF RmSound, Sound, CtxFields
<1>8. FreesNothing(rm, rm')
  BY <1>7, FewerFree
<1>9. LiveKept(reqs, reqs')
  BY <1>1, LiveSame DEF ReqsTyped
<1>10. CASE who = "qm"
  <2>1. /\ SameVerdicts(toQm, toQm') /\ (Wakes => Wakes')
        /\ Wakes' => Wakes \/ \E i \in DOMAIN f : f[i] = EmptyResponse
    BY <1>1, <1>6, <1>10, MoreMessages DEF B
  <2>2. Wakes' => Wakes \/ ~file
    BY <1>2, <2>1, NotVerdicts
  <2>3. Wakes' => Wakes \/ "qm" \in rm'.notify_msgs
    BY <1>7, <1>10, <2>2
  <2>4. "qm" \in rm.notify_msgs => "qm" \in rm'.notify_msgs
    BY <1>7
  <2> QED BY <1>1, <1>8, <1>9, <2>1, <2>3, <2>4, ContextStep
<1>11. CASE who # "qm"
  <2>1. SameVerdicts(toQm, toQm') /\ (Wakes' <=> Wakes)
    BY <1>1, <1>11, SameMessages
  <2>2. "qm" \in rm.notify_msgs => "qm" \in rm'.notify_msgs
    BY <1>7
  <2> QED BY <1>1, <1>8, <1>9, <2>1, <2>2, ContextStep
<1> QED BY <1>10, <1>11

-----------------------------------------------------------------------------
\* At most one queue in every configuration.
OneQueue ==
    \A s \in Scenarios : \A c \in s.qms :
       LET o == qmanager_options(c.conf, c.args)
       IN  \A n, k \in DOMAIN o.queues : n = k

\* A context that has not changed frees nothing.
LEMMA SameContext ==
    ASSUME NEW c, NEW d, d.ranks = c.ranks, d.up = c.up, d.props = c.props, d.booked = c.booked
    PROVE  FreesNothing(c, d)
  BY DEF FreesNothing, FreeFor, Suits

\* Nobody else moves anything the queues depend on.
LEMMA StillWaits ==
    ASSUME WaitsInv, UNCHANGED <<rm, qm, reqs, toQm, silent>>
    PROVE  WaitsInv'
<1> USE DEF WaitsInv
<1>1. OneInv' /\ IdleInv'
  BY DEF OneInv, IdleInv
<1>2. Wakes' <=> Wakes
  BY DEF Wakes
<1>3. HearsInv'
  BY <1>2 DEF HearsInv
<1>4. AskedInv' /\ ToldInv'
  BY DEF AskedInv, ToldInv
<1>5. BlockedInv'
  BY <1>2 DEF BlockedInv, Due
<1> QED BY <1>1, <1>3, <1>4, <1>5

\* Without a resource module, or without a queue manager and messages for it.
LEMMA NobodyWaits ==
    ASSUME WaitsInv,
           \/ rm' = Off /\ qm' = qm
           \/ qm' = Off /\ toQm' = << >> /\ \A i \in DOMAIN reqs' : ~Live(reqs'[i])
    PROVE  WaitsInv'
<1> USE DEF WaitsInv
<1>1. OneInv' /\ IdleInv'
  BY DEF OneInv, IdleInv
<1>2. CASE rm' = Off
  BY <1>1, <1>2 DEF HearsInv, AskedInv, ToldInv, BlockedInv
<1>3. CASE qm' = Off /\ toQm' = << >> /\ \A i \in DOMAIN reqs' : ~Live(reqs'[i])
  <2>1. \A i \in DOMAIN toQm' : FALSE
    BY <1>3
  <2>2. ~Wakes'
    BY <2>1 DEF Wakes
  <2> QED BY <1>1, <1>3, <2>1, <2>2 DEF HearsInv, AskedInv, ToldInv, BlockedInv
<1> QED BY <1>2, <1>3

\* Core, the feasibility module, and the resource module that comes or goes.
LEMMA OutsideWaits ==
    ASSUME Typed, WaitsInv,
           \/ CoreNext \/ LeaveFz \/ feasibility_notified \/ unload_resource
           \/ \E c : load_feasibility(c) \/ load_resource(c)
    PROVE  WaitsInv'
<1> USE DEF Typed
<1>1. CASE CoreNext
  <2>1. UNCHANGED <<rm, qm, reqs, toQm, silent>>
    BY <1>1 DEF CoreNext, CoreUp, CoreDown, CoreLost, CoreExpiration, Tell
  <2> QED BY <2>1, StillWaits
<1>2. CASE LeaveFz
  <2>1. qm' = qm /\ toQm' = toQm /\ reqs' = reqs /\ silent' = silent /\ rm' = disconnect_request_cb("fz")
    BY <1>2 DEF LeaveFz
  <2>2. CASE rm = Off
    <3>1. rm' = Off
      BY <2>1, <2>2 DEF disconnect_request_cb
    <3> QED BY <2>1, <3>1, NobodyWaits
  <2>3. CASE rm # Off
    <3>1. rm' = [rm EXCEPT !.notify_msgs = @ \ {"fz"}]
      BY <2>1, <2>3 DEF disconnect_request_cb
    <3>2. /\ rm'.ranks = rm.ranks /\ rm'.up = rm.up /\ rm'.booked = rm.booked /\ rm'.props = rm.props
          /\ rm'.notify_msgs = rm.notify_msgs \ {"fz"}
      BY <2>3, <3>1 DEF RmSound, Sound, CtxFields
    <3>3. FreesNothing(rm, rm')
      BY <3>2, SameContext
    <3>4. "qm" \in rm.notify_msgs => "qm" \in rm'.notify_msgs
      BY <3>2
    <3> QED BY <2>1, <2>3, <3>3, <3>4, SameRequests, SameMessages, ContextStep
  <2> QED BY <2>2, <2>3
<1>3. CASE feasibility_notified
  <2>1. CASE ~LeaveFz
    <3>1. UNCHANGED <<rm, qm, reqs, toQm, silent>>
      BY <1>3, <2>1 DEF feasibility_notified
    <3> QED BY <3>1, StillWaits
  <2> QED BY <1>2, <2>1
<1>4. CASE unload_resource
  <2>1. rm' = Off /\ qm' = qm
    BY <1>4 DEF unload_resource
  <2> QED BY <2>1, NobodyWaits
<1>5. ASSUME NEW c, load_feasibility(c) PROVE WaitsInv'
  <2> DEFINE x == [k |-> "notify", who |-> "fz"]
             S == NotifyRequest \cup MatchRequest
  <2>1. /\ rm # Off /\ qm' = qm /\ rm' = rm /\ toQm' = toQm /\ silent' = silent
        /\ reqs' = reqs \/ reqs' = Append(reqs, x)
    BY <1>5 DEF load_feasibility
  <2>2. x \in S /\ ~Live(x)
    BY NotVerdicts DEF NotifyRequest
  <2> HIDE DEF x
  <2>3. LiveKept(reqs, reqs')
    BY <2>1, <2>2, LiveSame DEF ReqsTyped
  <2>4. FreesNothing(rm, rm')
    BY <2>1, SameContext
  <2> QED BY <2>1, <2>3, <2>4, SameMessages, ContextStep
<1>6. ASSUME NEW c, load_resource(c) PROVE WaitsInv'
  <2>1. qm' = Off /\ toQm' = << >> /\ reqs' = << >>
    BY <1>6 DEF load_resource
  <2>2. \A i \in DOMAIN reqs' : ~Live(reqs'[i])
    BY <2>1
  <2> QED BY <2>1, <2>2, NobodyWaits
<1> QED BY <1>1, <1>2, <1>3, <1>4, <1>5, <1>6

\* The queue manager leaves.
LEMMA DestroyWaits ==
    ASSUME Typed, WaitsInv, qmanager_destroy
    PROVE  WaitsInv'
<1> USE DEF Typed
<1>1. /\ qm' = Off /\ toQm' = << >>
      /\ reqs' = [i \in DOMAIN reqs |-> IF reqs[i].k = "match" THEN [reqs[i] EXCEPT !.alive = FALSE]
                                        ELSE reqs[i]]
  BY DEF qmanager_destroy
<1>2. ASSUME NEW i \in DOMAIN reqs' PROVE ~Live(reqs'[i])
  <2> DEFINE T == NotifyRequest \cup MatchRequest
             x == reqs[i]
  <2>1. reqs \in Seq(T) /\ i \in DOMAIN reqs
    BY <1>1 DEF ReqsTyped
  <2> HIDE DEF T
  <2>2. x \in T
    BY <2>1
  <2>3. reqs'[i] = IF x.k = "match" THEN [x EXCEPT !.alive = FALSE] ELSE x
    BY <1>1, <2>1
  <2> HIDE DEF x
  <2>4. x.k = "match" => [x EXCEPT !.alive = FALSE].alive = FALSE
    BY <2>2 DEF T, NotifyRequest, MatchRequest
  <2> QED BY <2>3, <2>4 DEF Live
<1> QED BY <1>1, <1>2, NobodyWaits

\* A queue manager comes, and finds neither requests nor answers of its own.
LEMMA ManagerWaits ==
    ASSUME OneQueue, Typed, WaitsInv, NEW c \in sc.qms, load_qmanager(c)
    PROVE  WaitsInv'
<1> USE DEF Typed
<1> DEFINE o == qmanager_options(c.conf, c.args)
           Q == [n \in DOMAIN o.queues |-> Queue(o.queues[n])]
           x == [k |-> "notify", who |-> "qm"]
           S == NotifyRequest \cup MatchRequest
<1>1. /\ rm # Off /\ qm = Off /\ rm' = rm /\ toQm' = toQm
      /\ reqs' = reqs \/ reqs' = Append(reqs, x)
      /\ qm' = IF o.ok THEN [st |-> "resource", parents |-> o.parents, todo |-> {}, quiet |-> 0,
                             queues |-> Q]
               ELSE Off
  BY DEF load_qmanager
<1>2. \A n, k \in DOMAIN o.queues : n = k
  BY DEF OneQueue, CoreTyped
<1>3. DOMAIN Q = DOMAIN o.queues /\ \A n \in DOMAIN Q : Idle(Q[n])
  BY DEF Queue, Idle
<1>4. x \in S /\ ~Live(x)
  BY NotVerdicts DEF NotifyRequest
<1> HIDE DEF Q, o, x
<1>5. qm' # Off => qm'.queues = Q /\ qm'.st = "resource"
  BY <1>1
<1>6. LiveKept(reqs, reqs')
  BY <1>1, <1>4, LiveSame DEF ReqsTyped
<1>7. \A i \in DOMAIN toQm' : ~Verdict(toQm'[i])
  BY <1>1 DEF WaitsInv, ToldInv
<1>8. \A i \in DOMAIN reqs' : ~Live(reqs'[i])
  BY <1>1, <1>6 DEF WaitsInv, AskedInv, LiveKept
<1>9. OneInv' /\ IdleInv'
  BY <1>2, <1>3, <1>5 DEF OneInv, IdleInv
<1>10. Wakes' <=> Wakes
  BY <1>1 DEF Wakes
<1>11. HearsInv'
  BY <1>1, <1>5, <1>10 DEF WaitsInv, HearsInv
<1>12. AskedInv' /\ ToldInv'
  BY <1>7, <1>8 DEF AskedInv, ToldInv
<1>13. BlockedInv'
  <2> SUFFICES ASSUME qm' # Off, NEW n \in DOMAIN qm'.queues
               PROVE  Blocked(rm', qm'.queues[n], toQm')
    BY DEF BlockedInv
  <2> QED BY <1>3, <1>5, <1>7 DEF Blocked, Idle
<1> QED BY <1>9, <1>11, <1>12, <1>13 DEF WaitsInv

-----------------------------------------------------------------------------
\* The queues wait for the same jobs, and some of them will look at them again.
Unmatched ==
    /\ qm # Off /\ qm' # Off /\ DOMAIN qm'.queues = DOMAIN qm.queues
    /\ \A n \in DOMAIN qm.queues :
          LET q == qm.queues[n]
              l == qm'.queues[n]
          IN  l.pending = q.pending /\ l.active = q.active /\ l.limit = q.limit /\ (q.sched => l.sched)

\* A wake-up is read: all queues look at their jobs again.
LEMMA WokenWaits ==
    ASSUME Typed, WaitsInv, update_on_resource_response, ~qmanager_destroy
    PROVE  WaitsInv'
<1> USE DEF Typed
<1> DEFINE woken == [n \in DOMAIN qm.queues |-> [qm.queues[n] EXCEPT !.sched = TRUE]]
           T == {EmptyResponse, StreamError} \cup MatchAnswer
           s == toQm
<1>1. /\ qm # Off /\ qm.st \in {"resource", "ready"} /\ toQm # << >> /\ toQm' = Tail(toQm)
      /\ Head(toQm).k \in {"empty", "error"} /\ Head(toQm) # StreamError /\ rm' = rm /\ reqs' = reqs
      /\ qm' = [qm EXCEPT !.queues = woken, !.todo = IF qm.st = "resource" THEN Running ELSE @,
                          !.st = IF qm.st = "resource" /\ Running # {} THEN "jobs" ELSE "ready"]
  BY DEF update_on_resource_response
<1>2. s \in Seq(T) /\ s # << >>
  BY <1>1 DEF ToQmTyped
<1>3. Head(s) \in T /\ Head(s) = s[1]
  <2> HIDE DEF T, s
  <2> QED BY <1>2, Shorter
<1>4. s[1].k = "empty"
  <2> DEFINE x == s[1]
  <2>1. x \in T /\ x.k \in {"empty", "error"} /\ x # StreamError
    BY <1>1, <1>3
  <2> HIDE DEF x, s
  <2>2. x \in MatchAnswer => x.k = "match"
    BY DEF MatchAnswer
  <2>3. x.k = "empty"
    BY <2>1, <2>2, NotVerdicts DEF T
  <2> QED BY <2>3 DEF x
<1>5. ~Verdict(s[1])
  BY <1>4 DEF Verdict
<1>6. SameVerdicts(toQm, toQm')
  <2> HIDE DEF T
  <2> QED BY <1>1, <1>2, <1>5, OtherMessages
<1>7. Shifted(toQm, toQm', Len(toQm))
  <2> HIDE DEF T
  <2> QED BY <1>1, <1>2, TailShifted
<1>8. Wakes /\ (Wakes' => Wakes)
  <2>1. 1 \in DOMAIN toQm
    BY <1>7 DEF Shifted
  <2> QED BY <1>4, <2>1 DEF Wakes
<1>9. ASSUME NEW n \in DOMAIN qm.queues
      PROVE  LET q == qm.queues[n]
                 l == woken[n]
             IN  l.pending = q.pending /\ l.active = q.active /\ l.limit = q.limit /\ l.sched
  <2> DEFINE q == qm.queues[n]
  <2>1. QueueTyped(q) /\ woken[n] = [q EXCEPT !.sched = TRUE]
    BY <1>1, <1>9 DEF QmTyped
  <2> HIDE DEF q, woken
  <2> QED BY <2>1 DEF QueueTyped, QueueFields, q
<1>10. DOMAIN woken = DOMAIN qm.queues
  OBVIOUS
<1> HIDE DEF woken
<1>11. /\ DOMAIN qm' = QmFields /\ qm'.queues = woken
       /\ qm'.st = IF qm.st = "resource" /\ Running # {} THEN "jobs" ELSE "ready"
  BY <1>1 DEF QmTyped, QmFields
<1>12. qm' # Off
  BY <1>11, QmIsOn
<1>13. SameLoops
  BY <1>1, <1>9, <1>10, <1>11, <1>12 DEF SameLoops
<1>14. HearsKept
  BY <1>1, <1>8 DEF HearsKept, WaitsInv, HearsInv
<1>15. \A n \in DOMAIN qm.queues : Due(qm.queues[n])'
  BY <1>9, <1>11 DEF Due
<1>16. DueKept
  BY <1>15 DEF DueKept
<1> QED BY <1>1, <1>6, <1>13, <1>14, <1>16, SameRequests, WaitsFrame

\* The resource module is left alone, and no message moves.
LEMMA UnmatchedWaits ==
    ASSUME Typed, WaitsInv, Unmatched, qm'.st = qm.st,
           rm' = rm, reqs' = reqs, toQm' = toQm, silent' = silent
    PROVE  WaitsInv'
<1> USE DEF Typed
<1>1. SameLoops
  BY DEF SameLoops, Unmatched
<1>2. SameVerdicts(toQm, toQm') /\ (Wakes' <=> Wakes)
  BY SameMessages
<1>3. HearsKept
  BY <1>2 DEF HearsKept, Unmatched
<1>4. FreesNothing(rm, rm')
  BY SameContext
<1>5. \A n \in DOMAIN qm.queues : Due(qm.queues[n]) => Due(qm.queues[n])'
  BY <1>2 DEF Due, Unmatched
<1>6. DueKept
  BY <1>4, <1>5 DEF DueKept
<1> QED BY <1>1, <1>2, <1>3, <1>6, SameRequests, WaitsFrame

\* Somebody asks whether the queue manager is idle, or is answered; a job comes.
LEMMA RequestWaits ==
    ASSUME Typed, WaitsInv,
           \/ quiescent_request_cb \/ process_pending_quiescent_requests
           \/ \E j \in Job : Submit(j) \/ jobmanager_alloc_cb(j)
    PROVE  WaitsInv'
<1> USE DEF Typed
<1>1. CASE quiescent_request_cb \/ process_pending_quiescent_requests
  <2>1. qm # Off /\ qm' # Off /\ qm'.queues = qm.queues /\ qm'.st = qm.st
    BY <1>1, QuietEffect DEF Unmoved
  <2>2. Unmatched
    BY <2>1 DEF Unmatched
  <2>3. rm' = rm /\ reqs' = reqs /\ toQm' = toQm /\ silent' = silent
    BY <1>1 DEF quiescent_request_cb, process_pending_quiescent_requests
  <2> QED BY <2>1, <2>2, <2>3, UnmatchedWaits
<1>2. ASSUME NEW j, Submit(j) PROVE WaitsInv'
  <2>1. UNCHANGED <<rm, qm, reqs, toQm, silent>>
    BY <1>2 DEF Submit
  <2> QED BY <2>1, StillWaits
<1>3. ASSUME NEW j \in Job, jobmanager_alloc_cb(j) PROVE WaitsInv'
  <2> DEFINE m == queue_of(j)
             Q == [qm.queues EXCEPT ![m].provisional = Append(@, j), ![m].sched = TRUE]
  <2>1. /\ qm # Off /\ rm' = rm /\ reqs' = reqs /\ toQm' = toQm /\ silent' = silent
        /\ \/ qm' = qm
           \/ qm' = [qm EXCEPT !.queues[m].provisional = Append(@, j), !.queues[m].sched = TRUE]
    BY <1>3 DEF jobmanager_alloc_cb
  <2> HIDE DEF m
  <2>2. CASE qm' = qm
    BY <2>1, <2>2, StillWaits
  <2>3. CASE qm' = [qm EXCEPT !.queues[m].provisional = Append(@, j), !.queues[m].sched = TRUE]
    <3>1. DOMAIN qm' = QmFields /\ qm'.queues = Q /\ qm'.st = qm.st
      BY <2>1, <2>3 DEF QmTyped, QmFields
    <3>2. ASSUME NEW n \in DOMAIN qm.queues
          PROVE  LET q == qm.queues[n]
                     l == Q[n]
                 IN  /\ l.pending = q.pending /\ l.active = q.active /\ l.limit = q.limit
                     /\ q.sched => l.sched
      <4> DEFINE q == qm.queues[n]
                 l == [q EXCEPT !.provisional = Append(q.provisional, j), !.sched = TRUE]
      <4>1. QueueTyped(q) /\ Q[n] = IF n = m THEN l ELSE q
        BY <2>1, <3>2 DEF QmTyped, QueueTyped, QueueFields
      <4> HIDE DEF q, Q
      <4>2. l.pending = q.pending /\ l.active = q.active /\ l.limit = q.limit /\ l.sched
        BY <4>1 DEF QueueTyped, QueueFields
      <4> HIDE DEF l
      <4> QED BY <4>1, <4>2 DEF q
    <3>3. DOMAIN Q = DOMAIN qm.queues
      OBVIOUS
    <3> HIDE DEF Q
    <3>4. Unmatched
      BY <2>1, <3>1, <3>2, <3>3, QmIsOn DEF Unmatched
    <3> QED BY <2>1, <3>1, <3>4, UnmatchedWaits
  <2> QED BY <2>1, <2>2, <2>3
<1> QED BY <1>1, <1>2, <1>3

\* A job is greeted while the queues are empty.
LEMMA HelloWaits ==
    ASSUME Typed, WaitsInv, NEW j \in Job, jobmanager_hello_cb(j)
    PROVE  WaitsInv'
<1> USE DEF Typed
<1> DEFINE n == queue_of(j)
           R == WithFreeRanks(HelloR(j), jm[j].freed)
           u == IF n \notin DOMAIN qm.queues THEN Error(rm) ELSE reapi_update_allocate(rm, j, R)
           Q == IF u.ok THEN [qm.queues EXCEPT ![n].running = @ \cup {j}] ELSE qm.queues
<1>1. /\ qm # Off /\ qm.st = "jobs" /\ rm' = u.ctx /\ reqs' = reqs /\ toQm' = toQm
      /\ qm' = [qm EXCEPT !.todo = @ \ {j}, !.st = IF qm.todo = {j} THEN "ready" ELSE @, !.queues = Q]
  BY DEF jobmanager_hello_cb
<1> HIDE DEF R, n
<1>2. rm' = rm \/ (rm # Off /\ rm' = update_request_cb(rm, j, R).ctx)
  BY <1>1 DEF Error, reapi_update_allocate
<1>3. rm' = rm \/ (rm # Off /\ rm'.notify_msgs = rm.notify_msgs)
  <2>1. CASE rm # Off /\ rm' = update_request_cb(rm, j, R).ctx
    <3> DEFINE p == parse_R(R)
               E == Emit(rm, p.ranks)
    <3>1. rm' = rm \/ Taken(rm, rm', j, E, p.ranks)
      BY <2>1, UpdateEffect DEF RmSound
    <3> HIDE DEF p, E
    <3> QED BY <2>1, <3>1 DEF Taken, Only, CtxFields
  <2> QED BY <1>2, <2>1
<1> HIDE DEF u
<1>4. ASSUME NEW k \in DOMAIN qm.queues
      PROVE  LET q == qm.queues[k]
                 l == Q[k]
             IN  l.pending = q.pending /\ l.active = q.active /\ l.limit = q.limit
  <2> DEFINE q == qm.queues[k]
  <2>1. QueueTyped(q) /\ Q[k] = IF u.ok /\ k = n THEN [q EXCEPT !.running = q.running \cup {j}] ELSE q
    BY <1>1, <1>4 DEF QmTyped, QueueTyped, QueueFields
  <2> HIDE DEF q, Q
  <2> QED BY <2>1 DEF QueueTyped, QueueFields, q
<1>5. DOMAIN Q = DOMAIN qm.queues
  OBVIOUS
<1> HIDE DEF Q
<1>6. DOMAIN qm' = QmFields /\ qm'.queues = Q /\ qm'.st \in {"ready", "jobs"}
  BY <1>1 DEF QmTyped, QmFields
<1>7. SameLoops
  BY <1>1, <1>4, <1>5, <1>6, QmIsOn DEF SameLoops
<1>8. SameVerdicts(toQm, toQm') /\ (Wakes' <=> Wakes)
  BY <1>1, SameMessages
<1>9. HearsKept
  BY <1>1, <1>3, <1>8 DEF HearsKept
<1>10. DueKept
  BY <1>1 DEF DueKept
<1> QED BY <1>1, <1>7, <1>8, <1>9, <1>10, SameRequests, WaitsFrame

\* A release that is refused frees nothing.
LEMMA RefusedRelease ==
    ASSUME NEW ctx, Sound(ctx), ctx # Off, NEW j \in Job, NEW ranks, NEW final \in BOOLEAN
    PROVE  LET x == IF final THEN reapi_cancel(ctx, j) ELSE reapi_cancel_R(ctx, j, ranks)
           IN  ~x.ok => x.ctx.booked = ctx.booked
<1> DEFINE x == IF final THEN reapi_cancel(ctx, j) ELSE reapi_cancel_R(ctx, j, ranks)
           out == [ctx EXCEPT !.allocations = @ \ {j}]
           a == run_remove(out, j, {}, FALSE)
           p == run_remove(ctx, j, ranks, TRUE)
           q == IF p.full THEN [p EXCEPT !.ctx.allocations = @ \ {j}] ELSE p
<1>1. ASSUME NEW c, DOMAIN c = CtxFields PROVE Errored(c, j).booked = c.booked
  BY <1>1 DEF Errored, CtxFields
<1>2. ASSUME NEW c, DOMAIN c = CtxFields, NEW s, NEW part, ~run_remove(c, j, s, part).ok
      PROVE  run_remove(c, j, s, part).ctx.booked = c.booked /\ run_remove(c, j, s, part).full = FALSE
  <2> DEFINE y == run_remove(c, j, s, part)
  <2>1. y = [ok |-> FALSE, ctx |-> Errored(c, j), full |-> FALSE]
    BY <1>2 DEF run_remove
  <2> HIDE DEF y
  <2> QED BY <1>1, <1>2, <2>1 DEF y
<1>3. DOMAIN ctx = CtxFields /\ DOMAIN out = CtxFields /\ out.booked = ctx.booked
  BY DEF Sound, CtxFields
<1>4. ASSUME NEW r PROVE (~NoEntOk(r).ok => ~r.ok) /\ NoEntOk(r).ctx = r.ctx
  BY DEF NoEntOk
<1>5. NoEntry(ctx).ctx = ctx
  BY DEF NoEntry
<1>6. CASE j \notin ctx.allocations
  <2>1. x = NoEntOk(NoEntry(ctx))
    BY <1>6 DEF reapi_cancel, reapi_cancel_R, cancel_request_cb, partial_cancel_request_cb
  <2> HIDE DEF x
  <2> QED BY <1>4, <1>5, <2>1 DEF x
<1>7. CASE j \in ctx.allocations
  <2>1. x = IF final THEN NoEntOk(a) ELSE NoEntOk(q)
    BY <1>7 DEF reapi_cancel, reapi_cancel_R, cancel_request_cb, partial_cancel_request_cb
  <2>2. ~a.ok => a.ctx.booked = ctx.booked
    <3>1. ~a.ok => a = [ok |-> FALSE, ctx |-> Errored(out, j), full |-> FALSE]
      BY DEF run_remove
    <3> HIDE DEF out, a
    <3> QED BY <1>1, <1>3, <3>1
  <2>3. ~q.ok => q.ctx.booked = ctx.booked
    <3>1. p.full => q.ok = p.ok
      BY DEF run_remove
    <3>2. ~p.ok => p.ctx.booked = ctx.booked /\ p.full = FALSE
      BY <1>2, <1>3
    <3> HIDE DEF p
    <3> QED BY <3>1, <3>2
  <2> HIDE DEF a, q, x
  <2> QED BY <1>4, <2>1, <2>2, <2>3 DEF x
<1> QED BY <1>6, <1>7

\* Ranks are released: the queue looks at its jobs again.
LEMMA FreeWaits ==
    ASSUME Typed, WaitsInv, NEW j \in Job, NEW ranks, jobmanager_free_cb(j, ranks)
    PROVE  WaitsInv'
<1> USE DEF Typed
<1> DEFINE final == ranks = jm[j].R.ranks \ jm[j].freed
           c == IF final THEN reapi_cancel(rm, j) ELSE reapi_cancel_R(rm, j, ranks)
           known == {n \in DOMAIN qm.queues : j \in qm.queues[n].running}
           done == c.ok /\ (final \/ c.full)
           Q == [n \in DOMAIN qm.queues |->
                   IF n \notin known \/ ~c.ok THEN qm.queues[n]
                   ELSE [qm.queues[n] EXCEPT !.sched = TRUE, !.running = IF done THEN @ \ {j} ELSE @]]
<1>1. /\ qm # Off /\ qm' = [qm EXCEPT !.queues = Q] /\ qm.st = "ready" /\ reqs' = reqs /\ toQm' = toQm
      /\ rm' = IF known = {} THEN rm ELSE c.ctx
      /\ silent' = (silent /\ (known = {} \/ ~c.ok))
  BY DEF jobmanager_free_cb
<1>2. known \subseteq DOMAIN qm.queues /\ final \in BOOLEAN
  OBVIOUS
<1>3. rm = Off => rm' = Off
  BY <1>1 DEF reapi_cancel, reapi_cancel_R
<1> HIDE DEF known, done, final
<1>4. rm # Off => /\ c.ctx.notify_msgs = rm.notify_msgs
                  /\ ~c.ok => FreesNothing(rm, c.ctx)
  <2> SUFFICES ASSUME rm # Off
               PROVE  /\ c.ctx.notify_msgs = rm.notify_msgs
                      /\ ~c.ok => FreesNothing(rm, c.ctx)
    OBVIOUS
  <2>1. Only(rm, c.ctx, {"booked", "jobs", "allocations"})
    BY <1>2, ReleaseEffect DEF RmSound
  <2>2. ~c.ok => c.ctx.booked = rm.booked
    BY <1>2, RefusedRelease DEF RmSound
  <2> HIDE DEF c
  <2>3. /\ c.ctx.notify_msgs = rm.notify_msgs /\ c.ctx.ranks = rm.ranks /\ c.ctx.up = rm.up
        /\ c.ctx.props = rm.props
    BY <2>1 DEF Only, CtxFields
  <2> QED BY <2>2, <2>3, SameContext
<1> HIDE DEF c
<1>5. ASSUME NEW n \in DOMAIN qm.queues
      PROVE  LET q == qm.queues[n]
                 l == Q[n]
             IN  /\ l.pending = q.pending /\ l.active = q.active /\ l.limit = q.limit
                 /\ q.sched => l.sched
                 /\ n \in known /\ c.ok => l.sched
  <2> DEFINE q == qm.queues[n]
             l == [q EXCEPT !.sched = TRUE, !.running = IF done THEN @ \ {j} ELSE @]
  <2>1. /\ QueueTyped(q)
        /\ Q[n] = IF n \notin known \/ ~c.ok THEN q ELSE l
    BY <1>1, <1>5 DEF QmTyped
  <2> HIDE DEF q, Q
  <2>2. l.pending = q.pending /\ l.active = q.active /\ l.limit = q.limit /\ l.sched
    BY <2>1 DEF QueueTyped, QueueFields
  <2> HIDE DEF l
  <2> QED BY <2>1, <2>2 DEF q
<1>6. DOMAIN Q = DOMAIN qm.queues
  OBVIOUS
<1> HIDE DEF Q
<1>7. DOMAIN qm' = QmFields /\ qm'.queues = Q /\ qm'.st = qm.st
  BY <1>1 DEF QmTyped, QmFields
<1>8. qm' # Off
  BY <1>7, QmIsOn
<1>9. SameLoops
  BY <1>1, <1>5, <1>6, <1>7, <1>8 DEF SameLoops
<1>10. SameVerdicts(toQm, toQm') /\ (Wakes' <=> Wakes)
  BY <1>1, SameMessages
<1>11. HearsKept
  BY <1>1, <1>3, <1>4, <1>7, <1>10 DEF HearsKept
<1>12. DueKept
  <2> SUFFICES ASSUME rm' # Off, NEW n \in DOMAIN qm.queues
               PROVE  Due(qm.queues[n])' \/ (~Due(qm.queues[n]) /\ FreesNothing(rm, rm'))
    BY DEF DueKept
  <2>1. CASE known = {} \/ ~c.ok
    <3>1. silent => silent'
      BY <1>1, <2>1
    <3>2. Due(qm.queues[n]) => Due(qm.queues[n])'
      BY <1>5, <1>7, <1>10, <3>1 DEF Due
    <3>3. FreesNothing(rm, rm')
      BY <1>1, <1>3, <1>4, <2>1, SameContext
    <3> QED BY <3>2, <3>3
  <2>2. CASE known # {} /\ c.ok
    <3>1. PICK k \in known : TRUE
      BY <2>2
    <3>2. n = k
      BY <1>1, <1>2, <3>1 DEF WaitsInv, OneInv
    <3>3. qm'.queues[n].sched
      BY <1>5, <1>7, <2>2, <3>1, <3>2
    <3> QED BY <3>3 DEF Due
  <2> QED BY <2>1, <2>2
<1> QED BY <1>1, <1>9, <1>10, <1>11, <1>12, SameRequests, WaitsFrame

-----------------------------------------------------------------------------
\* A loop asks for the first jobs, and for all of them unless the queue is too long.
LEMMA PackAsks ==
    ASSUME NEW q, QueueTyped(q), ~q.active
    PROVE  LET l == run_sched_loop(q)
           IN  /\ l.active => Asked(pack_jobs(l), l)
               /\ ~l.active => l.pending = << >>
<1> DEFINE p == q.pending \o q.provisional
           d == q.par.queue_depth
           l == run_sched_loop(q)
           k == Lesser(Len(p), d)
<1>1. p \in Seq(Job) /\ d \in Nat
  BY DEF QueueTyped
<1>2. /\ l.pending = p /\ (l.active <=> p # << >>) /\ (l.limit <=> (q.limit \/ Len(p) > d))
      /\ l.par = q.par
  <2> HIDE DEF p
  <2> QED BY DEF run_sched_loop, QueueTyped, QueueFields, p
<1>3. pack_jobs(l) = SubSeq(p, 1, k)
  <2> HIDE DEF l, p
  <2> QED BY <1>2 DEF pack_jobs
<1> DEFINE m == Len(p)
<1> HIDE DEF p, d, l
<1>4. m \in Nat
  BY <1>1
<1> HIDE DEF m
<1>5. k \in Nat /\ k <= m /\ (m > d \/ k = m)
  <2>1. Lesser(m, d) \in Nat /\ Lesser(m, d) <= m /\ (m > d \/ Lesser(m, d) = m)
    BY <1>1, <1>4 DEF Lesser
  <2> QED BY <2>1 DEF m
<1> HIDE DEF k
<1>6. Len(SubSeq(p, 1, k)) = k /\ \A x \in 1..k : SubSeq(p, 1, k)[x] = p[x]
  BY <1>1, <1>4, <1>5 DEF m
<1>7. l.active => Asked(pack_jobs(l), l)
  BY <1>2, <1>3, <1>5, <1>6 DEF Asked, m
<1>8. ~l.active => l.pending = << >>
  BY <1>2
<1> QED BY <1>7, <1>8 DEF l

\* The loops that start ask once each.
LEMMA StartRequests ==
    ASSUME QmTyped, ReqsTyped, check_watcher_cb
    PROVE  LET any == \E n \in DOMAIN qm.queues : qm.queues[n].sched
               loop(n) == IF any THEN run_sched_loop(qm.queues[n]) ELSE qm.queues[n]
           IN  /\ \A i \in DOMAIN reqs' :
                     \/ i \in DOMAIN reqs /\ reqs'[i] = reqs[i]
                     \/ /\ i \notin DOMAIN reqs
                        /\ \E n \in DOMAIN qm.queues :
                              /\ loop(n).active /\ ~qm.queues[n].active
                              /\ reqs'[i].queue = n /\ reqs'[i].jobs = pack_jobs(loop(n))
               /\ \A i, k \in DOMAIN reqs' :
                     i \notin DOMAIN reqs /\ k \notin DOMAIN reqs /\ i # k => reqs'[i].queue # reqs'[k].queue
<1> DEFINE names == DOMAIN qm.queues
           any == \E n \in names : qm.queues[n].sched
           loop(n) == IF any THEN run_sched_loop(qm.queues[n]) ELSE qm.queues[n]
           looped == [n \in names |-> IF any THEN run_sched_loop(qm.queues[n]) ELSE qm.queues[n]]
           new == {n \in names : looped[n].active /\ ~qm.queues[n].active}
           started == SetToSeq(new)
           f == [i \in DOMAIN started |-> [k |-> "match", queue |-> started[i], alive |-> TRUE,
                                           jobs |-> pack_jobs(looped[started[i]])]]
           T == NotifyRequest \cup MatchRequest
           S == T \cup {f[x] : x \in DOMAIN f}
           a == Len(reqs)
           b == Len(f)
<1>1. qm # Off /\ (reqs' = reqs \/ reqs' = reqs \o f)
  BY DEF check_watcher_cb
<1>2. IsFiniteSet(new)
  <2>1. IsFiniteSet(names) /\ new \subseteq names
    BY <1>1 DEF QmTyped
  <2> HIDE DEF new, names
  <2> QED BY <2>1, FS_Subset
<1>3. \A n \in names : looped[n] = loop(n)
  OBVIOUS
<1> HIDE DEF looped, loop, any
<1>4. \A n \in new : n \in names /\ loop(n).active /\ ~qm.queues[n].active
  BY <1>3
<1> HIDE DEF new
<1>5. started \in Seq(new) /\ \A i, k \in DOMAIN started : i # k => started[i] # started[k]
  BY <1>2, Enumerated
<1> HIDE DEF started
<1>6. ASSUME NEW x \in DOMAIN started
      PROVE  LET n == started[x]
             IN  /\ n \in names /\ loop(n).active /\ ~qm.queues[n].active
                 /\ f[x].queue = n /\ f[x].jobs = pack_jobs(loop(n))
  <2>1. started[x] \in new
    BY <1>5
  <2>2. f[x].queue = started[x] /\ f[x].jobs = pack_jobs(looped[started[x]])
    OBVIOUS
  <2> QED BY <1>3, <1>4, <2>1, <2>2
<1>7. DOMAIN f = DOMAIN started /\ f = [x \in DOMAIN started |-> f[x]]
  OBVIOUS
<1>8. reqs \in Seq(T) /\ T \subseteq S /\ \A x \in DOMAIN f : f[x] \in S
  BY DEF ReqsTyped
<1> HIDE DEF f, T, S
<1>9. f \in Seq(S) /\ reqs \in Seq(S)
  BY <1>5, <1>7, <1>8, SameLength
<1>10. a \in Nat /\ b \in Nat /\ DOMAIN reqs = 1..a /\ DOMAIN f = 1..b
  BY <1>9
<1> DEFINE t == reqs \o f
<1>11. /\ t \in Seq(S) /\ Len(t) = a + b
       /\ \A i \in 1..a : t[i] = reqs[i]
       /\ \A i \in 1..b : t[a + i] = f[i]
  BY <1>9, InARow
<1> HIDE DEF a, b, t
<1>12. DOMAIN t = 1..(a + b)
  <2>1. DOMAIN t = 1..Len(t)
    BY <1>11
  <2> QED BY <1>11, <2>1
<1>13. ASSUME NEW i \in DOMAIN t
       PROVE  \/ i \in DOMAIN reqs /\ t[i] = reqs[i]
              \/ i \notin DOMAIN reqs /\ i - a \in DOMAIN f /\ t[i] = f[i - a]
  <2>1. i \in 1..a \/ (i - a \in 1..b /\ a + (i - a) = i /\ i \notin 1..a)
    BY <1>10, <1>12
  <2> QED BY <1>10, <1>11, <2>1
<1>14. CASE reqs' = reqs
  BY <1>14
<1>15. CASE reqs' = t
  <2>1. ASSUME NEW i \in DOMAIN t
        PROVE  \/ i \in DOMAIN reqs /\ t[i] = reqs[i]
               \/ /\ i \notin DOMAIN reqs
                  /\ \E n \in names : /\ loop(n).active /\ ~qm.queues[n].active
                                      /\ t[i].queue = n /\ t[i].jobs = pack_jobs(loop(n))
    <3> DEFINE x == i - a
               n == started[x]
    <3>1. CASE i \notin DOMAIN reqs /\ x \in DOMAIN f /\ t[i] = f[x]
      <4>1. /\ n \in names /\ loop(n).active /\ ~qm.queues[n].active
            /\ f[x].queue = n /\ f[x].jobs = pack_jobs(loop(n))
        BY <1>6, <1>7, <3>1
      <4> HIDE DEF n, x
      <4> QED BY <3>1, <4>1
    <3> QED BY <1>13, <2>1, <3>1
  <2>2. ASSUME NEW i \in DOMAIN t, NEW k \in DOMAIN t, i \notin DOMAIN reqs, k \notin DOMAIN reqs, i # k
        PROVE  t[i].queue # t[k].queue
    <3>1. i - a \in DOMAIN f /\ t[i] = f[i - a] /\ k - a \in DOMAIN f /\ t[k] = f[k - a]
      BY <1>13, <2>2
    <3>2. i - a # k - a
      BY <1>10, <1>12, <2>2
    <3> QED BY <1>5, <1>6, <1>7, <3>1, <3>2
  <2> QED BY <1>15, <2>1, <2>2 DEF loop, any
<1> QED BY <1>1, <1>14, <1>15 DEF t, loop, any

\* Loops start: what they ask for are their first jobs.
LEMMA CheckWaits ==
    ASSUME Typed, WaitsInv, check_watcher_cb
    PROVE  WaitsInv'
<1> USE DEF Typed
<1> DEFINE names == DOMAIN qm.queues
           any == \E n \in names : qm.queues[n].sched
           loop(n) == IF any THEN run_sched_loop(qm.queues[n]) ELSE qm.queues[n]
           looped == [n \in names |-> IF any THEN run_sched_loop(qm.queues[n]) ELSE qm.queues[n]]
           Q == [n \in names |-> [looped[n] EXCEPT !.alloced = << >>, !.rejected = << >>]]
<1>1. /\ qm # Off /\ qm.st = "ready" /\ qm' = [qm EXCEPT !.queues = Q]
      /\ rm' = rm /\ toQm' = toQm /\ silent' = silent /\ (rm = Off => reqs' = reqs)
  BY DEF check_watcher_cb
<1>2. \A n \in names : looped[n] = loop(n)
  OBVIOUS
<1>3. \A n \in names : QueueTyped(loop(n)) /\ QueueTyped(qm.queues[n])
  BY <1>1, QueueTypedLoop
<1>4. /\ \A i \in DOMAIN reqs' :
            \/ i \in DOMAIN reqs /\ reqs'[i] = reqs[i]
            \/ /\ i \notin DOMAIN reqs
               /\ \E n \in names : /\ loop(n).active /\ ~qm.queues[n].active
                                   /\ reqs'[i].queue = n /\ reqs'[i].jobs = pack_jobs(loop(n))
      /\ \A i, k \in DOMAIN reqs' :
            i \notin DOMAIN reqs /\ k \notin DOMAIN reqs /\ i # k => reqs'[i].queue # reqs'[k].queue
  BY StartRequests
<1> HIDE DEF looped, loop
<1>5. ASSUME NEW n \in names
      PROVE  /\ Q[n].pending = loop(n).pending /\ Q[n].active = loop(n).active
             /\ Q[n].limit = loop(n).limit /\ Q[n].sched = loop(n).sched
  <2>1. Q[n] = [loop(n) EXCEPT !.alloced = << >>, !.rejected = << >>]
    BY <1>2
  <2> HIDE DEF Q
  <2> QED BY <1>3, <2>1 DEF QueueTyped, QueueFields
<1>6. DOMAIN Q = names
  OBVIOUS
<1> HIDE DEF Q
<1>7. DOMAIN qm' = QmFields /\ qm'.queues = Q /\ qm'.st = "ready"
  BY <1>1 DEF QmTyped, QmFields
<1>8. qm' # Off
  BY <1>7, QmIsOn
<1>9. SameVerdicts(toQm, toQm') /\ (Wakes' <=> Wakes)
  BY <1>1, SameMessages
<1>10. CASE \A n \in names : loop(n) = qm.queues[n]
  <2>1. Unmatched
    BY <1>1, <1>5, <1>6, <1>7, <1>8, <1>10 DEF Unmatched
  <2>2. \A i \in DOMAIN reqs' : i \in DOMAIN reqs /\ reqs'[i] = reqs[i]
    BY <1>4, <1>10
  <2>3. LiveKept(reqs, reqs')
    <3> DEFINE g == [i \in DOMAIN reqs' |-> i]
    <3>1. \A i \in DOMAIN reqs' : g[i] = i
      OBVIOUS
    <3> HIDE DEF g
    <3> QED BY <2>2, <3>1 DEF LiveKept
  <2>4. SameLoops /\ HearsKept
    BY <1>1, <1>7, <1>9, <2>1 DEF SameLoops, HearsKept, Unmatched
  <2>5. FreesNothing(rm, rm')
    BY <1>1, SameContext
  <2>6. \A n \in DOMAIN qm.queues : Due(qm.queues[n]) => Due(qm.queues[n])'
    BY <1>1, <1>9, <2>1 DEF Due, Unmatched
  <2>7. DueKept
    BY <2>5, <2>6 DEF DueKept
  <2> QED BY <1>9, <2>3, <2>4, <2>7, WaitsFrame
<1>11. ASSUME NEW n \in names, loop(n) # qm.queues[n] PROVE WaitsInv'
  <2> DEFINE q == qm.queues[n]
             l == loop(n)
  <2>1. l = run_sched_loop(q)
    BY <1>11 DEF loop
  <2>2. ~q.active
    BY <1>11, <2>1 DEF run_sched_loop
  <2>3. (l.active => Asked(pack_jobs(l), l)) /\ (~l.active => l.pending = << >>)
    BY <1>3, <2>1, <2>2, PackAsks
  <2>4. \A k \in names : k = n
    BY <1>1 DEF WaitsInv, OneInv
  <2>5. rm # Off => \A i \in DOMAIN reqs : ~Live(reqs[i])
    BY <2>2, <2>4 DEF WaitsInv, AskedInv, Asked
  <2>6. rm # Off => \A i \in DOMAIN toQm : ~Verdict(toQm[i])
    BY <2>2, <2>4 DEF WaitsInv, ToldInv, Told
  <2>7. OneInv' /\ IdleInv'
    BY <1>6, <1>7, <2>4 DEF OneInv, IdleInv
  <2>8. HearsInv'
    BY <1>1, <1>9 DEF WaitsInv, HearsInv
  <2>9. ToldInv'
    BY <1>1, <2>6 DEF ToldInv
  <2>10. AskedInv'
    <3> SUFFICES ASSUME rm' # Off, NEW i \in DOMAIN reqs', Live(reqs'[i])
                 PROVE  /\ reqs'[i].queue \in DOMAIN qm'.queues
                        /\ Asked(reqs'[i].jobs, qm'.queues[reqs'[i].queue])
                        /\ \A k \in DOMAIN reqs' : Live(reqs'[k]) => k = i
                        /\ \A k \in DOMAIN toQm' : ~Verdict(toQm'[k])
      BY <1>8 DEF AskedInv
    <3>1. ASSUME NEW k \in DOMAIN reqs', Live(reqs'[k])
          PROVE  k \notin DOMAIN reqs /\ reqs'[k].queue = n /\ l.active /\ reqs'[k].jobs = pack_jobs(l)
      BY <1>1, <1>4, <2>4, <2>5, <3>1
    <3>2. \A k \in DOMAIN reqs' : Live(reqs'[k]) => k = i
      BY <1>4, <3>1
    <3>3. Asked(pack_jobs(l), l)
      BY <2>3, <3>1
    <3>4. Asked(pack_jobs(l), Q[n])
      BY <1>5, <3>3 DEF Asked
    <3> QED BY <1>1, <1>6, <1>7, <2>6, <3>1, <3>2, <3>4
  <2>11. BlockedInv'
    <3> SUFFICES ASSUME rm' # Off, NEW k \in DOMAIN qm'.queues PROVE Blocked(rm', qm'.queues[k], toQm')
      BY DEF BlockedInv
    <3>1. k = n /\ qm'.queues[k] = Q[n]
      BY <1>6, <1>7, <2>4
    <3>2. ~Q[n].active => Q[n].pending = << >>
      BY <1>5, <2>3
    <3> QED BY <1>1, <2>6, <3>1, <3>2 DEF Blocked
  <2> QED BY <2>7, <2>8, <2>9, <2>10, <2>11 DEF WaitsInv
<1> QED BY <1>10, <1>11

-----------------------------------------------------------------------------
\* The messages f are the answers out for the queue n.
Replies(f, n, out) ==
    /\ DOMAIN f = DOMAIN out /\ Len(f) = Len(out)
    /\ \A i \in DOMAIN out : f[i].k = "match" /\ f[i].queue = n /\ f[i].m = out[i]

\* Only the answers out for the queue n have come.
Replied(s, t, n, out) ==
    /\ \A i \in DOMAIN t : Verdict(t[i]) => t[i].queue = n /\ \E x \in DOMAIN out : t[i].m = out[x]
    /\ \A i \in DOMAIN t : t[i].k = "empty" => i \in DOMAIN s /\ t[i] = s[i]
    /\ \A i \in DOMAIN s : i \in DOMAIN t /\ t[i] = s[i]

\* The answers to a request are for the jobs it asked for.
LEMMA NewAnswers ==
    ASSUME NEW S, NEW s \in Seq(S), \A i \in DOMAIN s : ~Verdict(s[i]),
           NEW out, NEW jobs, NEW ctx, Heard(jobs, ctx, out), NEW q, Asked(jobs, q),
           Len(jobs) \in Nat, NEW f \in Seq(S), NEW n, Replies(f, n, out)
    PROVE  Told(s \o f, q) /\ Replied(s, s \o f, n, out)
<1> DEFINE a == Len(s)
           b == Len(out)
           t == s \o f
<1>1. out \in Seq(Result)
  BY DEF Heard
<1>2. \A i \in DOMAIN out : f[i].k = "match" /\ f[i].queue = n /\ f[i].m = out[i]
  BY DEF Replies
<1>7. a \in Nat /\ b \in Nat /\ DOMAIN s = 1..a /\ DOMAIN out = 1..b
  BY <1>1
<1>6. Len(f) = b
  BY DEF Replies
<1>8. /\ t \in Seq(S) /\ Len(t) = a + Len(f)
      /\ \A i \in 1..a : t[i] = s[i]
      /\ \A i \in 1..Len(f) : t[a + i] = f[i]
  BY InARow
<1> HIDE DEF a, b, t
<1>9. DOMAIN t = 1..(a + b)
  <2>1. DOMAIN t = 1..Len(t)
    BY <1>8
  <2> QED BY <1>6, <1>8, <2>1
<1>10. ASSUME NEW x \in 1..b
       PROVE  a + x \in DOMAIN t /\ t[a + x] = f[x] /\ t[a + x].m = out[x] /\ Verdict(t[a + x])
  <2>1. a + x \in 1..(a + b) /\ x \in DOMAIN out
    BY <1>7
  <2>2. t[a + x] = f[x]
    BY <1>6, <1>8
  <2> QED BY <1>2, <1>9, <2>1, <2>2 DEF Verdict
<1>11. ASSUME NEW i \in DOMAIN t
       PROVE  \/ i \in DOMAIN s /\ t[i] = s[i]
              \/ i - a \in 1..b /\ a + (i - a) = i
  <2>1. i \in 1..a \/ (i - a \in 1..b /\ a + (i - a) = i)
    BY <1>7, <1>9
  <2> QED BY <1>7, <1>8, <2>1
<1>12. ASSUME NEW i \in DOMAIN t, Verdict(t[i])
       PROVE  i - a \in 1..b /\ a + (i - a) = i
  BY <1>11, <1>12
<1> DEFINE g == [x \in 1..b |-> a + x]
<1>13. \A x \in 1..b : g[x] = a + x
  OBVIOUS
<1>14. g \in [1..b -> DOMAIN t]
  BY <1>10
<1> HIDE DEF g
<1>15. ASSUME NEW x \in 1..b, NEW y \in 1..b, x < y PROVE g[x] < g[y]
  BY <1>7, <1>13, <1>15
<1>16. ASSUME NEW i \in DOMAIN t, Verdict(t[i]) PROVE \E x \in 1..b : g[x] = i
  <2>1. i - a \in 1..b /\ a + (i - a) = i
    BY <1>12, <1>16
  <2> QED BY <1>13, <2>1
<1> DEFINE p == q.pending
<1>17. ASSUME NEW x \in 1..b
       PROVE  LET m == t[g[x]].m
              IN  /\ Verdict(t[g[x]])
                  /\ Fine(m) <=> x < b
                  /\ m.err # "ENODATA" => x <= Len(p) /\ m.j = p[x]
                  /\ m.err = "ENODATA" => q.limit \/ x = Len(p) + 1
  <2>1. Verdict(t[g[x]]) /\ t[g[x]].m = out[x]
    BY <1>10, <1>13
  <2>2. /\ Fine(out[x]) <=> x < b
        /\ out[x].err # "ENODATA" => x <= Len(jobs) /\ out[x].j = jobs[x]
        /\ out[x].err = "ENODATA" => x = Len(jobs) + 1
    BY DEF Heard, b
  <2>3. /\ Len(jobs) <= Len(p) /\ (\A y \in 1..Len(jobs) : jobs[y] = p[y])
        /\ q.limit \/ Len(jobs) = Len(p)
    BY DEF Asked
  <2>4. x \in Nat /\ x > 0
    BY <1>7
  <2>5. x <= Len(jobs) => x <= Len(p) /\ jobs[x] = p[x]
    <3> SUFFICES ASSUME x <= Len(jobs) PROVE x <= Len(p) /\ jobs[x] = p[x]
      OBVIOUS
    <3>1. x \in 1..Len(jobs)
      BY <2>4
    <3>2. Len(jobs) <= Len(p)
      BY <2>3
    <3>3. x <= Len(p)
      BY <2>4, <3>2
    <3> QED BY <2>3, <3>1, <3>3
  <2> HIDE DEF p
  <2> QED BY <2>1, <2>2, <2>3, <2>5
<1>18. Follows(t, g, b, p, q.limit)
  BY <1>7, <1>14, <1>15, <1>16, <1>17 DEF Follows
<1>19. Told(t, q)
  BY <1>18 DEF Told, Asked
<1>20. ASSUME NEW i \in DOMAIN t, Verdict(t[i])
       PROVE  t[i].queue = n /\ \E x \in DOMAIN out : t[i].m = out[x]
  <2> DEFINE x == i - a
  <2>1. x \in 1..b /\ a + x = i
    BY <1>12, <1>20
  <2> HIDE DEF x
  <2>2. x \in DOMAIN out /\ t[i] = f[x]
    BY <1>7, <1>10, <2>1
  <2> QED BY <1>2, <2>2
<1>21. ASSUME NEW i \in DOMAIN t, t[i].k = "empty" PROVE i \in DOMAIN s /\ t[i] = s[i]
  <2>1. ~Verdict(t[i])
    BY <1>21 DEF Verdict
  <2> QED BY <1>10, <1>11, <1>21, <2>1
<1>22. ASSUME NEW i \in DOMAIN s PROVE i \in DOMAIN t /\ t[i] = s[i]
  BY <1>7, <1>8, <1>9
<1>23. Replied(s, t, n, out)
  BY <1>20, <1>21, <1>22 DEF Replied
<1> QED BY <1>19, <1>23 DEF t

\* Jobs are matched.
LEMMA MatchWaits ==
    ASSUME Typed, WaitsInv, match_multi_request_cb
    PROVE  WaitsInv'
<1> USE DEF Typed
<1> DEFINE x == Head(reqs)
           s == x.jobs
           n == x.queue
           r == match_multi(rm, s)
           out == r.out
           f == [i \in DOMAIN out |-> [k |-> "match", queue |-> n, m |-> out[i]]]
           T == NotifyRequest \cup MatchRequest
<1>1. /\ rm # Off /\ reqs # << >> /\ x.k = "match" /\ rm' = r.ctx
      /\ toQm' = IF ~x.alive THEN toQm ELSE toQm \o f
      /\ reqs' = Tail(reqs) /\ qm' = qm /\ silent' = silent
  BY DEF match_multi_request_cb
<1>2. reqs \in Seq(T)
  BY DEF ReqsTyped
<1>3. x \in T /\ x = reqs[1] /\ Shifted(reqs, reqs', Len(reqs)) /\ LiveKept(reqs, reqs')
  <2> HIDE DEF T
  <2> QED BY <1>1, <1>2, Shorter, TailShifted, LiveSame
<1>4. 1 \in DOMAIN reqs
  BY <1>3 DEF Shifted
<1> HIDE DEF x
<1>5. s \in Seq(Job)
  BY <1>1, <1>3 DEF NotifyRequest, MatchRequest
<1> HIDE DEF s, n
<1>6. Matched(rm, s, rm', out) /\ Heard(s, rm', out)
  BY <1>1, <1>5, MatchesEffect, MatchesHeard DEF RmSound
<1>7. Sound(rm) /\ Sound(rm') /\ Only(rm, rm', {"booked", "jobs", "allocations"})
  BY <1>1, <1>6 DEF Matched, Accounted, RmSound
<1>8. /\ rm'.ranks = rm.ranks /\ rm'.up = rm.up /\ rm'.props = rm.props
      /\ rm'.notify_msgs = rm.notify_msgs
  BY <1>7 DEF Only, CtxFields
<1> HIDE DEF out, r
<1>9. FreesNothing(rm, rm')
  <2>1. ASSUME NEW y \in rm'.ranks, rm'.booked[y] = Nobody PROVE rm.booked[y] = Nobody
    <3>1. y \in Rank
      BY <1>7, <2>1 DEF Sound
    <3>2. /\ \A i \in Successes(out) : Gave(rm, rm', out[i].j, out[i].R)
          /\ rm'.booked[y] # rm.booked[y] => \E i \in Successes(out) : y \in out[i].R.ranks
      BY <1>6, <3>1 DEF Matched, Accounted
    <3> QED BY <2>1, <3>2 DEF Gave
  <2> QED BY <1>8, <2>1, FewerFree
<1>10. CASE ~x.alive
  <2>1. SameVerdicts(toQm, toQm') /\ (Wakes' <=> Wakes)
    BY <1>1, <1>10, SameMessages
  <2> QED BY <1>1, <1>3, <1>8, <1>9, <2>1, ContextStep
<1>11. CASE x.alive
  <2> DEFINE q == qm.queues[n]
  <2>1. Live(reqs[1])
    BY <1>1, <1>3, <1>11 DEF Live
  <2>2. /\ qm # Off /\ n \in DOMAIN qm.queues /\ Asked(s, q)
        /\ \A k \in DOMAIN reqs : Live(reqs[k]) => k = 1
        /\ \A k \in DOMAIN toQm : ~Verdict(toQm[k])
    BY <1>1, <1>3, <1>4, <2>1 DEF WaitsInv, AskedInv, n, s
  <2>3. toQm' = toQm \o f
    BY <1>1, <1>11
  <2>4. Told(toQm', q) /\ Replied(toQm, toQm', n, out)
    <3> DEFINE A == {EmptyResponse, StreamError} \cup MatchAnswer
               U == A \cup {f[i] : i \in DOMAIN out}
    <3>1. toQm \in Seq(A) /\ Len(s) \in Nat /\ A \subseteq U
      BY <1>5 DEF ToQmTyped
    <3>2. \A i \in DOMAIN out : f[i].k = "match" /\ f[i].queue = n /\ f[i].m = out[i] /\ f[i] \in U
      OBVIOUS
    <3>3. DOMAIN f = DOMAIN out /\ f = [i \in DOMAIN out |-> f[i]]
      OBVIOUS
    <3> HIDE DEF A, U, q, f
    <3>4. toQm \in Seq(U)
      BY <3>1
    <3>5. out \in Seq(Result)
      BY <1>6 DEF Heard
    <3>6. f \in Seq(U) /\ Len(f) = Len(out)
      BY <3>2, <3>3, <3>5, SameLength
    <3>7. Replies(f, n, out)
      BY <3>2, <3>3, <3>6 DEF Replies
    <3>8. Asked(s, q) /\ \A k \in DOMAIN toQm : ~Verdict(toQm[k])
      BY <2>2 DEF q
    <3> QED BY <1>6, <2>3, <3>1, <3>4, <3>6, <3>7, <3>8, NewAnswers
  <2>5. Wakes' <=> Wakes
    BY <2>4 DEF Wakes, Replied
  <2>6. OneInv' /\ IdleInv'
    BY <1>1 DEF WaitsInv, OneInv, IdleInv
  <2>7. HearsInv'
    BY <1>1, <1>8, <2>5 DEF WaitsInv, HearsInv
  <2>8. \A i \in DOMAIN reqs' : ~Live(reqs'[i])
    <3> SUFFICES ASSUME NEW i \in DOMAIN reqs', Live(reqs'[i]) PROVE FALSE
      OBVIOUS
    <3> DEFINE l == Len(reqs)
    <3>0. l \in Nat /\ DOMAIN reqs = 1..l /\ DOMAIN reqs' = 1..(l - 1) /\ reqs'[i] = reqs[i + 1]
      BY <1>3 DEF Shifted
    <3> HIDE DEF l
    <3>1. i + 1 \in DOMAIN reqs /\ i + 1 # 1
      BY <3>0
    <3> QED BY <2>2, <3>0, <3>1
  <2>9. AskedInv'
    BY <2>8 DEF AskedInv
  <2>10. ToldInv'
    BY <1>1, <2>2, <2>4 DEF ToldInv, Replied
  <2>11. BlockedInv'
    <3> SUFFICES ASSUME NEW k \in DOMAIN qm'.queues, ~Due(qm.queues[k])'
                 PROVE  Blocked(rm', qm'.queues[k], toQm')
      BY DEF BlockedInv
    <3> DEFINE p == qm.queues[k]
    <3>1. qm'.queues[k] = p /\ k \in DOMAIN qm.queues /\ QueueTyped(p)
      BY <1>1, <2>2 DEF QmTyped
    <3>2. Blocked(rm, p, toQm) \/ Due(p)
      BY <1>1, <2>2, <3>1 DEF WaitsInv, BlockedInv
    <3>3. CASE Blocked(rm, p, toQm)
      <4>1. ~p.active /\ p.pending # << >> => Lacks(rm, Head(p.pending)) /\ Head(p.pending) \in Job
        BY <3>1, <3>3 DEF Blocked, QueueTyped
      <4>2. ~p.active /\ p.pending # << >> => Lacks(rm', Head(p.pending))
        BY <1>7, <1>9, <4>1, LacksKept DEF Sound
      <4>3. ASSUME NEW i \in DOMAIN toQm', Verdict(toQm'[i]), toQm'[i].m.err = "EBUSY"
            PROVE  toQm'[i].m.j \in Job /\ Lacks(rm', toQm'[i].m.j)
        <5>1. PICK y \in DOMAIN out : toQm'[i].m = out[y]
          BY <2>4, <4>3 DEF Replied
        <5>2. y \in 1..Len(out) /\ Len(out) \in Nat
          BY <1>6, <5>1 DEF Heard
        <5>3. out[y].err = "EBUSY"
          BY <4>3, <5>1
        <5>4. y <= Len(s) /\ out[y].j = s[y] /\ Lacks(rm', out[y].j)
          BY <1>6, <5>2, <5>3 DEF Heard
        <5>5. y \in 1..Len(s)
          BY <1>5, <5>2, <5>4
        <5>6. s[y] \in Job
          BY <1>5, <5>5
        <5> QED BY <5>1, <5>4, <5>6
      <4> QED BY <3>1, <4>2, <4>3 DEF Blocked
    <3>4. CASE Due(p)
      BY <1>1, <2>5, <3>1, <3>4 DEF Due
    <3> QED BY <3>2, <3>3, <3>4
  <2> QED BY <2>6, <2>7, <2>9, <2>10, <2>11 DEF WaitsInv
<1> QED BY <1>10, <1>11

-----------------------------------------------------------------------------
\* The errors there are.
LEMMA Failures ==
    ASSUME NEW m \in Result, ~Fine(m)
    PROVE  m.err \in {"EINVAL", "ENODEV", "EBUSY", "ENODATA"}
  BY DEF Result, Fine

\* A queue that gets the verdict it expects.
LEMMA SuccessLoop ==
    ASSUME NEW q, QueueTyped(q), q.active, Len(q.pending) > 0, NEW m, m.j = q.pending[1]
    PROVE  LET l == handle_match_success(q, m)
           IN  /\ l.active = q.active /\ l.limit = q.limit /\ l.sched = q.sched
               /\ l.pending = Tail(q.pending)
<1> DEFINE p == q.pending
           l == handle_match_success(q, m)
<1>1. p \in Seq(Job)
  BY DEF QueueTyped
<1> HIDE DEF p
<1>2. Len(p) > 0 => p # << >> /\ Head(p) = p[1]
  BY <1>1
<1>3. l = [q EXCEPT !.pending = Tail(@), !.alloced = Append(@, [j |-> m.j, R |-> m.R]),
                    !.running = @ \cup {m.j}]
  BY <1>2 DEF handle_match_success, p
<1> HIDE DEF l
<1>4. /\ l.active = q.active /\ l.limit = q.limit /\ l.sched = q.sched
      /\ l.pending = Tail(q.pending)
  BY <1>3 DEF QueueTyped, QueueFields
<1> QED BY <1>4 DEF l

\* A queue that gets an error ends its loop.
LEMMA FailureLoop ==
    ASSUME NEW q, QueueTyped(q), q.active, NEW m
    PROVE  LET l == handle_match_failure(q, m)
           IN  /\ ~l.active
               /\ m.err \in {"EBUSY", "ENODATA"} => l.pending = q.pending
               /\ q.sched \/ m.err = "ENODEV" \/ (m.err = "ENODATA" /\ q.limit) => l.sched
  BY DEF handle_match_failure, QueueTyped, QueueFields

\* A verdict is read.
LEMMA AnswerWaits ==
    ASSUME Typed, WaitsInv, match_multi_then
    PROVE  WaitsInv'
<1> USE DEF Typed
<1> DEFINE msg == Head(toQm)
           n == msg.queue
           m == msg.m
           q == qm.queues[n]
           r == IF Fine(m) THEN handle_match_success(q, m) ELSE handle_match_failure(q, m)
           Q == [qm.queues EXCEPT ![n] = r]
           A == {EmptyResponse, StreamError} \cup MatchAnswer
<1>1. /\ qm # Off /\ qm.st = "ready" /\ toQm # << >> /\ msg.k = "match" /\ toQm' = Tail(toQm)
      /\ rm' = rm /\ reqs' = reqs
      /\ silent' = ((silent \/ m.err = "EINVAL") /\ ~qm'.queues[n].sched)
  BY DEF match_multi_then
<1>2. qm' = [qm EXCEPT !.queues = Q]
  BY <1>1 DEF match_multi_then, QmTyped, QmFields, Fine
<1>3. toQm \in Seq(A)
  BY DEF ToQmTyped
<1>4. msg \in A /\ msg = toQm[1] /\ Shifted(toQm, toQm', Len(toQm))
  <2> HIDE DEF A
  <2> QED BY <1>1, <1>3, Shorter, TailShifted
<1>5. 1 \in DOMAIN toQm
  BY <1>4 DEF Shifted
<1> HIDE DEF msg
<1>6. msg \in MatchAnswer
  BY <1>1, <1>4, NotVerdicts DEF A
<1>7. m \in Result
  BY <1>6 DEF MatchAnswer
<1> HIDE DEF m, n, r
<1>8. DOMAIN Q = DOMAIN qm.queues /\ (n \in DOMAIN qm.queues => Q[n] = r)
  OBVIOUS
<1> HIDE DEF Q
<1>9. DOMAIN qm' = QmFields /\ qm'.queues = Q /\ qm'.st = "ready"
  BY <1>1, <1>2 DEF QmTyped, QmFields
<1>10. qm' # Off
  BY <1>9, QmIsOn
<1>11. OneInv' /\ IdleInv'
  BY <1>1, <1>8, <1>9 DEF WaitsInv, OneInv, IdleInv
<1>12. CASE rm = Off
  BY <1>1, <1>11, <1>12 DEF WaitsInv, HearsInv, AskedInv, ToldInv, BlockedInv
<1>13. CASE rm # Off
  <2>1. Verdict(toQm[1])
    BY <1>1, <1>4 DEF Verdict
  <2>2. n \in DOMAIN qm.queues /\ Told(toQm, q)
    BY <1>4, <1>5, <1>13, <2>1 DEF WaitsInv, ToldInv, n
  <2>3. \A k \in DOMAIN qm.queues : k = n
    BY <1>1, <2>2 DEF WaitsInv, OneInv
  <2>4. \A i \in DOMAIN reqs : ~Live(reqs[i])
    BY <1>5, <1>13, <2>1 DEF WaitsInv, AskedInv
  <2>5. QueueTyped(q) /\ q.active
    BY <1>1, <2>2 DEF QmTyped, Told
  <2>6. ASSUME NEW i \in DOMAIN toQm' PROVE i + 1 \in DOMAIN toQm /\ toQm'[i] = toQm[i + 1]
    <3> DEFINE l == Len(toQm)
    <3>1. l \in Nat /\ DOMAIN toQm = 1..l /\ DOMAIN toQm' = 1..(l - 1) /\ toQm'[i] = toQm[i + 1]
      BY <1>4 DEF Shifted
    <3> HIDE DEF l
    <3> QED BY <3>1
  <2>7. Wakes' <=> Wakes
    <3>1. Wakes' => Wakes
      BY <2>6 DEF Wakes
    <3>2. ASSUME NEW i \in DOMAIN toQm, toQm[i].k = "empty" PROVE Wakes'
      <4> DEFINE l == Len(toQm)
      <4>1. /\ l \in Nat /\ DOMAIN toQm = 1..l /\ DOMAIN toQm' = 1..(l - 1)
            /\ \A k \in 1..(l - 1) : toQm'[k] = toQm[k + 1]
        BY <1>4 DEF Shifted
      <4>2. i # 1
        BY <1>1, <1>4, <3>2
      <4> HIDE DEF l
      <4>3. i - 1 \in DOMAIN toQm' /\ i - 1 \in 1..(l - 1) /\ (i - 1) + 1 = i
        BY <4>1, <4>2
      <4>4. toQm'[i - 1] = toQm[i]
        BY <4>1, <4>3
      <4> QED BY <3>2, <4>3, <4>4 DEF Wakes
    <3> QED BY <3>1, <3>2 DEF Wakes
  <2>8. HearsInv'
    BY <1>1, <2>7 DEF WaitsInv, HearsInv
  <2>9. AskedInv'
    BY <1>1, <2>4 DEF AskedInv
  <2>10. qm'.queues[n] = r
    BY <1>8, <1>9, <2>2
  <2>11. ASSUME ~silent', ~Wakes', ~qm'.queues[n].sched, q.sched => r.sched
         PROVE  /\ ~r.sched /\ m.err # "EINVAL" /\ Blocked(rm, q, toQm)
    <3>1. ~silent' /\ ~Wakes' /\ ~r.sched
      BY <2>10, <2>11
    <3>2. ~silent /\ m.err # "EINVAL"
      BY <1>1, <2>10, <3>1
    <3>3. ~Due(q)
      BY <2>7, <2>11, <3>1, <3>2 DEF Due
    <3>4. Due(q) \/ Blocked(rm, q, toQm)
      BY <1>1, <1>13, <2>2 DEF WaitsInv, BlockedInv
    <3> QED BY <3>1, <3>2, <3>3, <3>4
  <2> DEFINE p == q.pending
  <2>12. p \in Seq(Job)
    BY <2>5 DEF QueueTyped
  <2>13. PICK N, f : Follows(toQm, f, N, p, q.limit)
    BY <2>2 DEF Told
  <2> DEFINE l == Len(toQm)
  <2>14. Shifted(toQm, toQm', l) /\ toQm[1].m = m
    BY <1>4 DEF m
  <2>15. CASE Fine(m)
    <3>1. Len(p) \in Nat /\ (Len(p) > 0 => /\ Len(Tail(p)) = Len(p) - 1
                                          /\ \A y \in 1..(Len(p) - 1) : Tail(p)[y] = p[y + 1])
      <4> HIDE DEF p
      <4>1. Len(p) \in Nat /\ (Len(p) > 0 => p # << >>)
        BY <2>12
      <4> QED BY <2>12, <4>1, Shorter
    <3> DEFINE z == Tail(p)
    <3> HIDE DEF z, p, l
    <3>2. /\ Len(p) > 0 /\ m.j = p[1]
          /\ \E M, g : Follows(toQm', g, M, z, q.limit)
      <4>1. Fine(toQm[1].m)
        BY <2>14, <2>15
      <4>2. Len(p) > 0 => Len(z) = Len(p) - 1 /\ \A y \in 1..(Len(p) - 1) : z[y] = p[y + 1]
        BY <3>1 DEF z
      <4>3. /\ Len(p) > 0 /\ toQm[1].m.j = p[1]
            /\ \E M, g : Follows(toQm', g, M, z, q.limit)
        BY <2>1, <2>13, <2>14, <3>1, <4>1, <4>2, FollowsSuccess
      <4> QED BY <2>14, <4>3
    <3>3. r.active = q.active /\ r.limit = q.limit /\ r.sched = q.sched /\ r.pending = z
      <4>1. r = handle_match_success(q, m)
        BY <2>15 DEF r
      <4> QED BY <2>5, <3>2, <4>1, SuccessLoop DEF p, z
    <3>4. Told(toQm', r)
      BY <2>5, <3>2, <3>3 DEF Told
    <3>5. ToldInv'
      <4> SUFFICES ASSUME NEW i \in DOMAIN toQm', Verdict(toQm'[i])
                   PROVE  /\ toQm'[i].queue \in DOMAIN qm'.queues
                          /\ Told(toQm', qm'.queues[toQm'[i].queue])
        BY <1>10 DEF ToldInv
      <4>1. toQm'[i].queue \in DOMAIN qm.queues
        BY <1>13, <2>6 DEF WaitsInv, ToldInv
      <4>2. toQm'[i].queue = n
        BY <2>3, <4>1
      <4> QED BY <1>8, <1>9, <2>2, <2>10, <3>4, <4>2
    <3>6. BlockedInv'
      <4> SUFFICES ASSUME NEW k \in DOMAIN qm'.queues, ~Due(qm.queues[k])'
                   PROVE  Blocked(rm', qm'.queues[k], toQm')
        BY DEF BlockedInv
      <4>1. k = n /\ qm'.queues[k] = r
        BY <1>8, <1>9, <2>3, <2>10
      <4>2. ~silent' /\ ~Wakes' /\ ~qm'.queues[n].sched
        BY <4>1 DEF Due
      <4>3. Blocked(rm, q, toQm)
        BY <2>11, <3>3, <4>2
      <4>4. \A i \in DOMAIN toQm' : Verdict(toQm'[i]) /\ toQm'[i].m.err = "EBUSY"
                                    => toQm'[i].m.j \in Job /\ Lacks(rm, toQm'[i].m.j)
        BY <2>6, <4>3 DEF Blocked
      <4> QED BY <1>1, <2>5, <3>3, <4>1, <4>4 DEF Blocked
    <3> QED BY <1>11, <2>8, <2>9, <3>5, <3>6 DEF WaitsInv
  <2>16. CASE ~Fine(m)
    <3>0. Len(p) \in Nat /\ (Len(p) = 0 => p = << >>) /\ (Len(p) > 0 => Head(p) = p[1])
      <4> HIDE DEF p
      <4> QED BY <2>12
    <3>1. /\ m.err # "ENODATA" => Len(p) > 0 /\ m.j = p[1]
          /\ m.err = "ENODATA" => q.limit \/ Len(p) = 0
          /\ \A i \in DOMAIN toQm' : ~Verdict(toQm'[i])
      <4> HIDE DEF p, l
      <4>1. ~Fine(toQm[1].m)
        BY <2>14, <2>16
      <4>2. /\ toQm[1].m.err # "ENODATA" => Len(p) > 0 /\ toQm[1].m.j = p[1]
            /\ toQm[1].m.err = "ENODATA" => q.limit \/ Len(p) = 0
            /\ \A i \in DOMAIN toQm' : ~Verdict(toQm'[i])
        BY <2>1, <2>13, <2>14, <3>0, <4>1, FollowsFailure
      <4> QED BY <2>14, <4>2
    <3> HIDE DEF l
    <3>2. /\ ~r.active
          /\ m.err \in {"EBUSY", "ENODATA"} => r.pending = p
          /\ q.sched \/ m.err = "ENODEV" \/ (m.err = "ENODATA" /\ q.limit) => r.sched
      <4>1. r = handle_match_failure(q, m)
        BY <2>16 DEF r
      <4> QED BY <2>5, <4>1, FailureLoop
    <3>3. m.err \in {"EINVAL", "ENODEV", "EBUSY", "ENODATA"}
      BY <1>7, <2>16, Failures
    <3>4. ToldInv'
      BY <3>1 DEF ToldInv
    <3>5. BlockedInv'
      <4> SUFFICES ASSUME NEW k \in DOMAIN qm'.queues, ~Due(qm.queues[k])'
                   PROVE  Blocked(rm', qm'.queues[k], toQm')
        BY DEF BlockedInv
      <4>1. k = n /\ qm'.queues[k] = r
        BY <1>8, <1>9, <2>3, <2>10
      <4>2. ~silent' /\ ~Wakes' /\ ~qm'.queues[n].sched
        BY <4>1 DEF Due
      <4>3. ~r.sched /\ m.err # "EINVAL" /\ Blocked(rm, q, toQm)
        BY <2>11, <3>2, <4>2
      <4>4. r.pending # << >> => Lacks(rm, Head(r.pending))
        <5>1. CASE m.err = "EBUSY"
          <6>1. Lacks(rm, m.j)
            BY <1>5, <2>1, <2>14, <4>3, <5>1 DEF Blocked
          <6> QED BY <3>0, <3>1, <3>2, <5>1, <6>1
        <5>2. CASE m.err = "ENODATA"
          BY <3>0, <3>1, <3>2, <4>3, <5>2
        <5> QED BY <3>2, <3>3, <4>3, <5>1, <5>2
      <4> QED BY <1>1, <3>1, <4>1, <4>4 DEF Blocked
    <3> QED BY <1>11, <2>8, <2>9, <3>4, <3>5 DEF WaitsInv
  <2> QED BY <2>15, <2>16
<1> QED BY <1>12, <1>13

-----------------------------------------------------------------------------
\* Every step keeps what the two modules know of each other.
LEMMA WaitsStep ==
    ASSUME OneQueue, Typed, WaitsInv, [Next]_vars
    PROVE  WaitsInv'
<1>1. CASE CoreNext
  BY <1>1, OutsideWaits
<1>2. CASE ModuleNext
  <2>1. ASSUME NEW c, load_resource(c) \/ load_feasibility(c) PROVE WaitsInv'
    BY <2>1, OutsideWaits
  <2>2. ASSUME NEW c \in sc.qms, load_qmanager(c) PROVE WaitsInv'
    BY <2>2, ManagerWaits
  <2>3. CASE unload_resource
    BY <2>3, OutsideWaits
  <2>4. CASE unload_feasibility
    BY <2>4, OutsideWaits DEF unload_feasibility
  <2>5. CASE unload_qmanager
    BY <2>5, DestroyWaits DEF unload_qmanager
  <2> QED BY <1>2, <2>1, <2>2, <2>3, <2>4, <2>5 DEF ModuleNext
<1>3. CASE AdminNext
  BY <1>3, AdminWaits, RequestWaits
<1>4. CASE HandlerNext
  <2>1. CASE update_resource_then
    BY <2>1, FollowWaits
  <2>2. CASE notify_request_cb
    BY <2>2, NotifyWaits
  <2>3. CASE match_multi_request_cb
    BY <2>3, MatchWaits
  <2>4. CASE feasibility_notified
    BY <2>4, OutsideWaits
  <2>5. CASE update_on_resource_response
    BY <2>5, WokenWaits, DestroyWaits
  <2>6. CASE process_pending_quiescent_requests
    BY <2>6, RequestWaits
  <2>7. CASE check_watcher_cb
    BY <2>7, CheckWaits
  <2>8. CASE match_multi_then
    BY <2>8, AnswerWaits
  <2> QED BY <1>4, <2>1, <2>2, <2>3, <2>4, <2>5, <2>6, <2>7, <2>8 DEF HandlerNext
<1>5. CASE JobNext
  <2>1. ASSUME NEW j \in Job, Submit(j) \/ jobmanager_alloc_cb(j) PROVE WaitsInv'
    BY <2>1, RequestWaits
  <2>2. ASSUME NEW j \in Job, jobmanager_hello_cb(j) PROVE WaitsInv'
    BY <2>2, HelloWaits
  <2>3. ASSUME NEW j \in Job, NEW ranks, jobmanager_free_cb(j, ranks) PROVE WaitsInv'
    BY <2>3, FreeWaits
  <2> QED BY <1>5, <2>1, <2>2, <2>3 DEF JobNext
<1>6. CASE UNCHANGED vars
  <2>1. UNCHANGED <<rm, qm, reqs, toQm, silent>>
    BY <1>6 DEF vars
  <2> QED BY <2>1, StillWaits
<1> QED BY <1>1, <1>2, <1>3, <1>4, <1>5, <1>6 DEF Next

\* With one queue, what the two modules know of each other is true in every state.
LEMMA WaitsAlways == OneQueue => (Spec => []WaitsInv)
<1> SUFFICES ASSUME OneQueue PROVE Spec => []WaitsInv
  OBVIOUS
<1>1. Init => WaitsInv
  <2> SUFFICES ASSUME Init PROVE WaitsInv
    OBVIOUS
  <2>1. rm = Off /\ qm = Off
    BY DEF Init
  <2> QED BY <2>1 DEF WaitsInv, OneInv, IdleInv, HearsInv, AskedInv, ToldInv, BlockedInv
<1>2. Typed /\ WaitsInv /\ [Next]_vars => WaitsInv'
  BY WaitsStep
<1> QED BY <1>1, <1>2, TypedAlways, PTL DEF Spec

\* With one queue in every configuration, no job is overlooked: once all messages have
\* been read and no loop is due, the first job a queue waits with could not be matched
\* (update_on_resource_response wakes the queues, jobmanager_free_cb and
\* jobmanager_alloc_cb make the loop due, and handle_match_failure keeps it due when a
\* rejected job leaves or the queue depth cut the loop short).
THEOREM NoJobIsStuck == OneQueue => (Spec => []NoStuckJob)
<1>1. WaitsInv => NoStuckJob
  <2> SUFFICES ASSUME WaitsInv, qm # Off, rm # Off, ~silent, toQm = << >>,
                      NEW n \in DOMAIN qm.queues, ~qm.queues[n].sched,
                      ~qm.queues[n].active, qm.queues[n].pending # << >>
               PROVE  traverser_run(rm, Head(qm.queues[n].pending), "allocate").err # ""
    BY DEF NoStuckJob
  <2>1. ~Due(qm.queues[n])
    BY DEF Due, Wakes
  <2>2. Blocked(rm, qm.queues[n], toQm)
    BY <2>1 DEF WaitsInv, BlockedInv
  <2> QED BY <2>2, LacksRefused DEF Blocked
<1> QED BY <1>1, WaitsAlways, PTL
=============================================================================
