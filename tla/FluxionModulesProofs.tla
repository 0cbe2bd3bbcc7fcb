------------------------- MODULE FluxionModulesProofs -------------------------
(***************************************************************************)
(* What the operations of the resource module do to its context, the types  *)
(* of all that is underway between the modules, and what follows of the     *)
(* queue parameters, of the answers to status requests and of what the      *)
(* subscribers know.                                                        *)
(***************************************************************************)
EXTENDS FluxionModules, FiniteSetTheorems, TLAPS

\* The fields of a context.
CtxFields ==
    {"opts", "core", "root", "initialized", "ranks", "up", "nodes_up", "props", "end", "booked",
     "ups", "updated", "down_updated", "r_all", "r_down", "r_alloc", "notify_resources",
     "notify_lost", "notify_expiration", "notify_msgs", "jobs", "allocations"}

\* c is ctx, but for the fields F.
Only(ctx, c, F) == DOMAIN c = CtxFields /\ \A f \in CtxFields \ F : c[f] = ctx[f]

\* A context has these fields.
LEMMA CtxNew ==
    ASSUME NEW o, NEW b
    PROVE  DOMAIN resource_ctx_t(o, b) = CtxFields
  BY DEF resource_ctx_t, CtxFields

\* One change of a context after another.
LEMMA OnlyTrans ==
    ASSUME NEW a, NEW b, NEW c, NEW F, NEW G, Only(a, b, F), Only(b, c, G)
    PROVE  Only(a, c, F \cup G)
  BY DEF Only

\* Marking changes the status of the ranks that are there (mark_now).
LEMMA MarkNow ==
    ASSUME NEW ctx, DOMAIN ctx = CtxFields, NEW ranks, NEW up \in BOOLEAN
    PROVE  LET c == mark_now(ctx, ranks, up)
           IN  /\ Only(ctx, c, {"up", "nodes_up", "down_updated"})
               /\ c.down_updated
               /\ c.up = IF up THEN ctx.up \cup (ranks \cap ctx.ranks) ELSE ctx.up \ (ranks \cap ctx.ranks)
<1> DEFINE changed == {r \in ranks \cap ctx.ranks : (r \in ctx.up) # up}
           c == mark_now(ctx, ranks, up)
<1>1. c = [ctx EXCEPT !.up = IF up THEN @ \cup changed ELSE @ \ changed,
                    !.nodes_up = IF up THEN @ + Cardinality(changed) ELSE @ - Cardinality(changed),
                    !.down_updated = TRUE]
  BY Zenon DEF mark_now
<1>2. ctx.up \cup changed = IF up THEN ctx.up \cup (ranks \cap ctx.ranks) ELSE ctx.up \cup changed
  OBVIOUS
<1>3. ctx.up \ changed = IF up THEN ctx.up \ changed ELSE ctx.up \ (ranks \cap ctx.ranks)
  OBVIOUS
<1> HIDE DEF changed
<1> QED BY <1>1, <1>2, <1>3 DEF Only, CtxFields

\* Ranks that are lost are gone, and whoever held them (shrink_resources).
LEMMA ShrinkResources ==
   ASSUME NEW ctx, NEW ranks, DOMAIN ctx = CtxFields
   PROVE  LET s == shrink_resources(ctx, ranks)
          IN  /\ s.ok /\ Only(ctx, s.ctx, {"booked", "ranks", "up", "props"})
              /\ s.ctx.ranks = ctx.ranks \ ranks /\ s.ctx.up = ctx.up \ ranks
              /\ s.ctx.booked = [r \in Rank |-> IF r \in ranks THEN Nobody ELSE ctx.booked[r]]
   BY DEF Only, CtxFields, shrink_resources, Done

\* What a message without resources does to a graph that is in use (update_resource_db).
LEMMA FollowDb ==
    ASSUME NEW ctx, DOMAIN ctx = CtxFields, ctx.initialized, NEW m, m.res = NoR
    PROVE  LET u == update_resource_db(ctx, m)
               c == u.ctx
           IN  /\ u.ok /\ Only(ctx, c, {"up", "nodes_up", "down_updated", "booked", "ranks", "props"})
               /\ c.ranks = ctx.ranks \ m.lost
               /\ c.booked = IF m.lost = {} THEN ctx.booked
                             ELSE [r \in Rank |-> IF r \in m.lost THEN Nobody ELSE ctx.booked[r]]
               /\ c.up = ((ctx.up \cup (m.up \cap ctx.ranks)) \ ((m.down \ m.lost) \cap ctx.ranks)) \ m.lost
               /\ c.down_updated \/ (c.down_updated = ctx.down_updated /\ c.up = ctx.up \ m.lost)
<1> DEFINE u == IF m.up # {} THEN mark_now(ctx, m.up, TRUE) ELSE ctx
           d == IF m.down \ m.lost # {} THEN mark_now(u, m.down \ m.lost, FALSE) ELSE u
           l == IF m.lost # {} THEN shrink_resources(d, m.lost).ctx ELSE d
           F == {"up", "nodes_up", "down_updated"}
<1>1. /\ Only(ctx, u, F) /\ u.up = ctx.up \cup (m.up \cap ctx.ranks)
      /\ u.down_updated \/ (u.down_updated = ctx.down_updated /\ u.up = ctx.up)
  <2>1. CASE m.up # {}
    <3> DEFINE c == mark_now(ctx, m.up, TRUE)
    <3>1. Only(ctx, c, F) /\ c.down_updated /\ c.up = ctx.up \cup (m.up \cap ctx.ranks)
      BY MarkNow
    <3> HIDE DEF c
    <3>2. u = c
      BY <2>1 DEF c
    <3> QED BY <3>1, <3>2
  <2>2. CASE m.up = {}
    BY <2>2 DEF Only
  <2> QED BY <2>1, <2>2
<1>2. u.ranks = ctx.ranks /\ u.initialized /\ DOMAIN u = CtxFields /\ u.booked = ctx.booked
  BY <1>1 DEF Only, CtxFields
<1> HIDE DEF u
<1>3. /\ Only(u, d, F) /\ d.up = u.up \ ((m.down \ m.lost) \cap ctx.ranks)
      /\ d.down_updated \/ (d.down_updated = u.down_updated /\ d.up = u.up)
  <2>1. CASE m.down \ m.lost # {}
    <3> DEFINE c == mark_now(u, m.down \ m.lost, FALSE)
    <3>1. Only(u, c, F) /\ c.down_updated /\ c.up = u.up \ ((m.down \ m.lost) \cap u.ranks)
      BY <1>2, MarkNow
    <3> HIDE DEF c
    <3>2. d = c
      BY <2>1 DEF c
    <3> QED BY <3>1, <3>2, <1>2
  <2>2. CASE m.down \ m.lost = {}
    BY <2>2, <1>2 DEF Only
  <2> QED BY <2>1, <2>2
<1>4. d.ranks = ctx.ranks /\ d.initialized /\ DOMAIN d = CtxFields /\ d.booked = ctx.booked
  BY <1>2, <1>3 DEF Only, CtxFields
<1> HIDE DEF d
<1>5. /\ Only(d, l, {"booked", "ranks", "up", "props"})
      /\ l.ranks = d.ranks \ m.lost /\ l.up = d.up \ m.lost
      /\ l.booked = IF m.lost = {} THEN d.booked
                    ELSE [r \in Rank |-> IF r \in m.lost THEN Nobody ELSE d.booked[r]]
  <2>1. CASE m.lost # {}
    BY <2>1, <1>4, ShrinkResources
  <2>2. CASE m.lost = {}
    BY <2>2, <1>4 DEF Only
  <2> QED BY <2>1, <2>2
<1>6. l.down_updated = d.down_updated
  BY <1>5 DEF Only, CtxFields
<1>7. update_resource_db(ctx, m) = [ok |-> TRUE, ctx |-> l]
  <2> DEFINE g1 == Then(Done(ctx), m.res # NoR, LAMBDA c : grow_resource_db(c, m.res))
             u1 == Then(g1, m.up # {}, LAMBDA c : mark(c, m.up, TRUE))
             d1 == Then(u1, m.down \ m.lost # {}, LAMBDA c : mark(c, m.down \ m.lost, FALSE))
             l1 == Then(d1, m.lost # {}, LAMBDA c : shrink_resources(c, m.lost))
  <2>1. g1 = Done(ctx)
    BY DEF Then
  <2> HIDE DEF g1
  <2>2. u1 = Done(u)
    BY <2>1 DEF Then, Done, mark, u
  <2> HIDE DEF u1
  <2>3. d1 = Done(d)
    BY <2>2, <1>2 DEF Then, Done, mark, d
  <2> HIDE DEF d1
  <2>4. l1 = Done(l)
    BY <2>3, <1>4, ShrinkResources DEF Then, Done, shrink_resources
  <2>5. update_resource_db(ctx, m) = l1
    BY DEF update_resource_db, l1, d1, u1, g1
  <2> QED BY <2>4, <2>5 DEF Done
<1> HIDE DEF l
<1>8. Only(ctx, l, {"up", "nodes_up", "down_updated", "booked", "ranks", "props"})
  BY <1>1, <1>3, <1>5 DEF Only
<1> QED BY <1>1, <1>2, <1>3, <1>4, <1>5, <1>6, <1>7, <1>8

\* The same with the expiration, and with what is kept for later subscribers
\* (update_resource).
LEMMA Follow ==
    ASSUME NEW ctx, DOMAIN ctx = CtxFields, ctx.initialized, NEW m, m.res = NoR
    PROVE  LET u == update_resource(ctx, m)
               c == u.ctx
           IN  /\ u.ok
               /\ Only(ctx, c, {"up", "nodes_up", "down_updated", "booked", "ranks", "props", "end",
                                "notify_lost", "notify_expiration"})
               /\ c.ranks = ctx.ranks \ m.lost
               /\ c.booked = IF m.lost = {} THEN ctx.booked
                             ELSE [r \in Rank |-> IF r \in m.lost THEN Nobody ELSE ctx.booked[r]]
               /\ c.up = ((ctx.up \cup (m.up \cap ctx.ranks)) \ ((m.down \ m.lost) \cap ctx.ranks)) \ m.lost
               /\ c.down_updated \/ (c.down_updated = ctx.down_updated /\ c.up = ctx.up \ m.lost)
               /\ c.end = IF m.exp < 0 THEN ctx.end ELSE EndOf(m.exp)
               /\ ctx.core => /\ c.notify_lost = ctx.notify_lost \cup m.lost
                              /\ c.notify_expiration = IF m.exp > 0 THEN m.exp ELSE ctx.notify_expiration
<1> DEFINE d == update_resource_db(ctx, m)
           e == IF m.exp < 0 THEN d.ctx ELSE [d.ctx EXCEPT !.end = EndOf(m.exp)]
           n == [e EXCEPT !.notify_resources = IF m.res = NoR THEN @ ELSE m.res,
                          !.notify_lost = @ \cup m.lost,
                          !.notify_expiration = IF m.exp > 0 THEN m.exp ELSE @]
           c == d.ctx
           x == IF ctx.core THEN n ELSE e
<1>1. /\ d.ok /\ Only(ctx, c, {"up", "nodes_up", "down_updated", "booked", "ranks", "props"})
      /\ c.ranks = ctx.ranks \ m.lost
      /\ c.booked = IF m.lost = {} THEN ctx.booked
                    ELSE [r \in Rank |-> IF r \in m.lost THEN Nobody ELSE ctx.booked[r]]
      /\ c.up = ((ctx.up \cup (m.up \cap ctx.ranks)) \ ((m.down \ m.lost) \cap ctx.ranks)) \ m.lost
      /\ c.down_updated \/ (c.down_updated = ctx.down_updated /\ c.up = ctx.up \ m.lost)
  BY FollowDb
<1>2. update_resource(ctx, m) = [ok |-> TRUE, ctx |-> x]
  BY <1>1 DEF update_resource, Done
<1> HIDE DEF d
<1>3. /\ Only(c, e, {"end"}) /\ e.end = IF m.exp < 0 THEN ctx.end ELSE EndOf(m.exp)
  BY <1>1 DEF Only, CtxFields
<1> HIDE DEF e
<1>4. /\ Only(e, x, {"notify_lost", "notify_expiration"})
      /\ ctx.core => /\ x.notify_lost = e.notify_lost \cup m.lost
                     /\ x.notify_expiration = IF m.exp > 0 THEN m.exp ELSE e.notify_expiration
  BY <1>3 DEF Only, CtxFields
<1> HIDE DEF n, x
<1> DEFINE F == {"up", "nodes_up", "down_updated", "booked", "ranks", "props", "end", "notify_lost", "notify_expiration"}
<1>5. Only(ctx, x, F)
  BY <1>1, <1>3, <1>4 DEF Only
<1>6. /\ x.ranks = c.ranks /\ x.booked = c.booked /\ x.up = c.up /\ x.down_updated = c.down_updated
      /\ x.end = e.end
      /\ e.notify_lost = ctx.notify_lost /\ e.notify_expiration = ctx.notify_expiration
  BY <1>1, <1>3, <1>4 DEF Only, CtxFields
<1> QED BY <1>1, <1>2, <1>3, <1>4, <1>5, <1>6

\* What core's resource module says it has.
Machine == [ranks : SUBSET Rank, start : {0}, end : Nat, writer : {"none"}, key : {{}}, free : {{}}]

\* The graph that is made of core's resources: all of it is up (grow_resource_db).
LEMMA Grown ==
    ASSUME NEW ctx, DOMAIN ctx = CtxFields, ~ctx.root, ctx.ranks = {}, ctx.up = {},
           NEW R \in Machine, grow_resource_db(ctx, R).ok
    PROVE  LET c == grow_resource_db(ctx, R).ctx
           IN  /\ Only(ctx, c, {"root", "ranks", "up", "nodes_up", "end", "updated"})
               /\ c.root /\ c.updated /\ c.ranks = R.ranks /\ c.up = R.ranks /\ c.end = EndOf(R.end)
<1> DEFINE first == {r \in R.ranks : \A s \in R.ranks : r <= s}
           new == (IF ctx.root THEN R.ranks \ first ELSE R.ranks) \ ctx.ranks
           h == grow_resource_db_hwloc(ctx, R)
           x == grow_resource_db_rv1exec(ctx, R)
           format == ctx.opts["load-format"]
           g == IF format = "hwloc" THEN h
                ELSE IF format \in {"rv1exec", "rv1exec_force"} THEN x
                ELSE Error(ctx)
           l == load(ctx, R.ranks)
<1>1. h = [ok |-> TRUE, ctx |-> l]
  <2>1. new = R.ranks
    OBVIOUS
  <2> HIDE DEF new
  <2>2. h = [ok |-> ~ctx.root \/ R.ranks \ first # {}, ctx |-> load(ctx, new)]
    BY Zenon DEF grow_resource_db_hwloc, new
  <2> HIDE DEF h, first, l
  <2> QED BY <2>1, <2>2 DEF l
<1>2. x = [ok |-> TRUE, ctx |-> l]
  BY DEF grow_resource_db_rv1exec, Done
<1>3. /\ Only(ctx, l, {"root", "ranks", "up", "nodes_up"})
      /\ l.root /\ l.ranks = R.ranks /\ l.up = R.ranks
  BY DEF load, Only, CtxFields
<1> HIDE DEF h, x, l
<1>4. /\ R.writer = "none" /\ R.start = 0 /\ R.end \in Nat
  BY DEF Machine
<1>5. unpack_resources(R).ok /\ unpack_resources(R).end = EndOf(R.end)
  <2>1. 0 >= 0 /\ R.end >= 0 /\ (R.end = 0 \/ 0 < R.end)
    BY <1>4
  <2> QED BY <1>4, <2>1 DEF unpack_resources
<1>6. grow_resource_db(ctx, R) = [g EXCEPT !.ctx = [@ EXCEPT !.end = EndOf(R.end), !.updated = TRUE]]
  <2> DEFINE jgf == R.writer = "jgf" /\ format # "rv1exec_force"
             k == IF jgf THEN grow_resource_db_jgf(ctx, R) ELSE g
             w == unpack_resources(R)
  <2>1. grow_resource_db(ctx, R) =
           IF ~w.ok THEN Error(ctx)
           ELSE IF R.writer \notin {"none", "jgf", "jgf_shorthand"} THEN Done(ctx)
           ELSE [k EXCEPT !.ctx = [@ EXCEPT !.end = w.end, !.updated = TRUE]]
    BY Zenon DEF grow_resource_db, h, x
  <2>2. k = g
    BY <1>4
  <2> HIDE DEF k, w, g
  <2> QED BY <1>4, <1>5, <2>1, <2>2 DEF w
<1>7. g.ok => g = [ok |-> TRUE, ctx |-> l]
  BY <1>1, <1>2 DEF Error
<1>8. DOMAIN g = {"ok", "ctx"}
  BY <1>1, <1>2 DEF Error
<1> HIDE DEF g
<1>9. g.ok
  BY <1>6, <1>8
<1> DEFINE e == EndOf(R.end)
           c == grow_resource_db(ctx, R).ctx
<1>10. c = [l EXCEPT !.end = e, !.updated = TRUE]
  <2>1. g.ctx = l
    BY <1>7, <1>9
  <2> HIDE DEF e
  <2>2. c = [g.ctx EXCEPT !.end = e, !.updated = TRUE]
    BY <1>6, <1>8 DEF e
  <2> QED BY <2>1, <2>2
<1> HIDE DEF e, c
<1>11. Only(l, c, {"end", "updated"}) /\ c.end = e /\ c.updated
  BY <1>3, <1>10 DEF Only, CtxFields
<1>12. Only(ctx, c, {"root", "ranks", "up", "nodes_up", "end", "updated"})
  BY <1>3, <1>11 DEF Only
<1>13. c.root /\ c.ranks = R.ranks /\ c.up = R.ranks
  BY <1>3, <1>11 DEF Only, CtxFields
<1> QED BY <1>11, <1>12, <1>13 DEF e, c

\* A context as it is created.
Fresh(ctx) ==
    /\ ~ctx.root /\ ctx.ranks = {} /\ ctx.up = {} /\ ~ctx.initialized /\ ctx.ups = {}
    /\ ctx.notify_lost = {}

\* The first message of a stream makes the graph.
LEMMA Populated ==
    ASSUME NEW n, DOMAIN n = CtxFields, Fresh(n), NEW m, m.res # NoR, m.res \in Machine,
           m.down = {}, m.lost = {}, m.exp = -1, update_resource(n, m).ok
    PROVE  LET c == update_resource(n, m).ctx
           IN  /\ Only(n, c, {"root", "ranks", "up", "nodes_up", "end", "updated", "ups",
                              "notify_resources"})
               /\ c.root /\ c.updated /\ c.ranks = m.res.ranks /\ c.up = m.res.ranks
               /\ c.end = EndOf(m.res.end) /\ c.ups = m.up
               /\ n.core => c.notify_resources = m.res
<1> DEFINE g == grow_resource_db(n, m.res)
           u == IF m.up # {} THEN [g.ctx EXCEPT !.ups = m.up] ELSE g.ctx
           d == update_resource_db(n, m)
           x == IF n.core THEN [u EXCEPT !.notify_resources = m.res, !.notify_lost = @ \cup {},
                                    !.notify_expiration = @]
                ELSE u
           F == {"root", "ranks", "up", "nodes_up", "end", "updated"}
<1>1. /\ ~n.root /\ n.ranks = {} /\ n.up = {} /\ ~n.initialized /\ n.ups = {}
      /\ n.notify_lost = {}
  BY DEF Fresh
<1>2. d.ok /\ update_resource(n, m) = [ok |-> TRUE, ctx |-> IF n.core THEN
                       [d.ctx EXCEPT !.notify_resources = m.res, !.notify_lost = @ \cup {},
                                     !.notify_expiration = @] ELSE d.ctx]
  <2>1. d.ok
    BY DEF update_resource
  <2> QED BY <2>1, <1>1 DEF update_resource, Done
<1>3. d = Then(g, m.up # {}, LAMBDA c : mark(c, m.up, TRUE))
  BY DEF update_resource_db, Then, Done
<1>4. g.ok
  BY <1>2, <1>3 DEF Then
<1>5. /\ Only(n, g.ctx, F)
      /\ g.ctx.root /\ g.ctx.updated /\ g.ctx.ranks = m.res.ranks /\ g.ctx.up = m.res.ranks
      /\ g.ctx.end = EndOf(m.res.end)
  BY <1>1, <1>4, Grown
<1>6. ~g.ctx.initialized /\ g.ctx.ups = {} /\ g.ctx.notify_lost = {} /\ DOMAIN g.ctx = CtxFields
  BY <1>1, <1>5 DEF Only, CtxFields
<1>7. d.ctx = u
  BY <1>3, <1>4, <1>6 DEF Then, mark, mark_lazy, Done
<1> HIDE DEF g, d
<1>8. Only(g.ctx, u, {"ups"}) /\ u.ups = m.up
  BY <1>6 DEF Only, CtxFields
<1> HIDE DEF u
<1>9. Only(u, x, {"notify_resources"}) /\ (n.core => x.notify_resources = m.res)
  BY <1>6, <1>8 DEF Only, CtxFields
<1>10. update_resource(n, m).ctx = x
  BY <1>2, <1>7
<1> HIDE DEF x
<1>11. Only(n, x, F \cup {"ups", "notify_resources"})
  BY <1>5, <1>8, <1>9 DEF Only
<1>12. /\ x.root /\ x.updated /\ x.ranks = m.res.ranks /\ x.up = m.res.ranks
       /\ x.end = EndOf(m.res.end) /\ x.ups = m.up
  BY <1>5, <1>8, <1>9 DEF Only, CtxFields
<1>13. Only(n, x, {"root", "ranks", "up", "nodes_up", "end", "updated", "ups", "notify_resources"})
  BY <1>11 DEF Only
<1> QED BY <1>9, <1>10, <1>12, <1>13

\* What the resource module has when it has been loaded.
LEMMA Loaded ==
    ASSUME NEW o, NEW m, m.res # NoR, m.res \in Machine, m.up \subseteq m.res.ranks,
           m.down = {}, m.lost = {}, m.exp = -1,
           init_resource_graph(resource_ctx_t(o, TRUE), m).ok
    PROVE  LET n == resource_ctx_t(o, TRUE)
               c == init_resource_graph(n, m).ctx
           IN  /\ Only(n, c, {"root", "initialized", "ranks", "up", "nodes_up", "end", "updated", "ups",
                              "down_updated", "notify_resources"})
               /\ c.root /\ c.initialized /\ c.updated /\ c.down_updated
               /\ c.ranks \subseteq Rank
               /\ ~IsSet(o, "load-file") => /\ c.ranks = m.res.ranks /\ c.up = m.up
                                            /\ c.end = EndOf(m.res.end) /\ c.notify_resources = m.res
<1> DEFINE n == resource_ctx_t(o, TRUE)
           file == IsSet(o, "load-file")
           p == populate_resource_db(n, m)
           i == Then(p, TRUE, InitTraverser)
           d == Then(i, ~file, LAMBDA c : mark(c, c.ranks, FALSE))
           u == Then(d, d.ctx.ups # {}, LAMBDA c : mark(c, c.ups, TRUE))
           x == u.ctx
           F == {"root", "ranks", "up", "nodes_up", "end", "updated", "ups", "notify_resources"}
<1>1. /\ DOMAIN n = CtxFields /\ n.opts = o /\ n.updated = TRUE /\ n.down_updated = TRUE
      /\ Fresh(n) /\ n.core
  BY CtxNew DEF resource_ctx_t, Fresh
<1>2. /\ init_resource_graph(n, m) = u
      /\ u = IF d.ok /\ d.ctx.ups # {} THEN mark(d.ctx, d.ctx.ups, TRUE) ELSE d
      /\ d = IF i.ok /\ ~file THEN mark(i.ctx, i.ctx.ranks, FALSE) ELSE i
      /\ i = IF p.ok THEN InitTraverser(p.ctx) ELSE p
      /\ p = IF file THEN populate_resource_db_file(n) ELSE update_resource(n, m)
  BY <1>1 DEF init_resource_graph, Then, populate_resource_db
<1>3. d.ok /\ i.ok /\ p.ok
  <2> HIDE DEF p, i, d, u, x, n, file
  <2>1. u.ok
    BY <1>2 DEF n
  <2> QED BY <1>2, <2>1
<1> HIDE DEF p, i, d, u, x, file
<1>4. /\ Only(n, p.ctx, F) /\ p.ctx.updated /\ p.ctx.ranks \subseteq Rank
      /\ file => p.ctx.ups = {}
      /\ ~file => /\ p.ctx.ranks = m.res.ranks /\ p.ctx.up = m.res.ranks /\ p.ctx.ups = m.up
                  /\ p.ctx.end = EndOf(m.res.end) /\ p.ctx.notify_resources = m.res
  <2>1. CASE file
    <3>1. p = Done([load(n, FileRanks) EXCEPT !.end = Never])
      BY <1>2, <2>1 DEF populate_resource_db_file
    <3> HIDE DEF n
    <3>2. Only(n, load(n, FileRanks), {"root", "ranks", "up", "nodes_up"})
          /\ load(n, FileRanks).ranks = FileRanks
      BY <1>1 DEF load, Only, CtxFields, Fresh
    <3> QED BY <1>1, <2>1, <3>1, <3>2, MatchAssumption DEF Done, Only, CtxFields, Fresh
  <2>2. CASE ~file
    <3>1. p = update_resource(n, m)
      BY <1>2, <2>2
    <3>2. /\ Only(n, p.ctx, F)
          /\ p.ctx.root /\ p.ctx.updated /\ p.ctx.ranks = m.res.ranks /\ p.ctx.up = m.res.ranks
          /\ p.ctx.end = EndOf(m.res.end) /\ p.ctx.ups = m.up /\ p.ctx.notify_resources = m.res
      <4> HIDE DEF n
      <4> QED BY <1>1, <1>3, <3>1, Populated
    <3>3. m.res.ranks \subseteq Rank
      BY DEF Machine
    <3> QED BY <2>2, <3>2, <3>3
  <2> QED BY <2>1, <2>2
<1>5. DOMAIN p.ctx = CtxFields /\ p.ctx.down_updated = TRUE
  BY <1>1, <1>4 DEF Only, CtxFields
<1>6. /\ i = Done(i.ctx) /\ Only(p.ctx, i.ctx, {"initialized"}) /\ i.ctx.initialized /\ i.ctx.root
  BY <1>2, <1>3, <1>5 DEF InitTraverser, Done, Error, Only, CtxFields
<1>7. /\ DOMAIN i.ctx = CtxFields /\ i.ctx.up = p.ctx.up /\ i.ctx.ranks = p.ctx.ranks
      /\ i.ctx.ups = p.ctx.ups /\ i.ctx.down_updated = TRUE
  BY <1>5, <1>6 DEF Only, CtxFields
<1> DEFINE G == {"up", "nodes_up", "down_updated"}
<1>8. /\ d = Done(d.ctx) /\ Only(i.ctx, d.ctx, G) /\ d.ctx.down_updated
      /\ ~file => d.ctx.up = i.ctx.up \ i.ctx.ranks
  <2> DEFINE y == mark_now(i.ctx, i.ctx.ranks, FALSE)
  <2>1. Only(i.ctx, y, G) /\ y.down_updated /\ y.up = i.ctx.up \ (i.ctx.ranks \cap i.ctx.ranks)
    BY <1>6, <1>7, MarkNow
  <2> HIDE DEF y
  <2>2. d = IF file THEN i ELSE Done(y)
    BY <1>2, <1>3, <1>6 DEF y, mark
  <2> QED BY <1>6, <1>7, <2>1, <2>2 DEF Only, Done
<1>9. /\ DOMAIN d.ctx = CtxFields /\ d.ctx.ranks = i.ctx.ranks /\ d.ctx.initialized
      /\ d.ctx.ups = i.ctx.ups
  BY <1>6, <1>8 DEF Only, CtxFields
<1>10. /\ Only(d.ctx, x, G) /\ x.down_updated
       /\ x.up = d.ctx.up \cup (d.ctx.ups \cap d.ctx.ranks)
  <2> DEFINE y == mark_now(d.ctx, d.ctx.ups, TRUE)
  <2>1. Only(d.ctx, y, G) /\ y.down_updated /\ y.up = d.ctx.up \cup (d.ctx.ups \cap d.ctx.ranks)
    <3>1. \A c, ranks : DOMAIN c = CtxFields =>
             LET z == mark_now(c, ranks, TRUE)
             IN  Only(c, z, G) /\ z.down_updated /\ z.up = c.up \cup (ranks \cap c.ranks)
      BY MarkNow
    <3> QED BY <1>9, <3>1
  <2> HIDE DEF y
  <2>2. u = IF d.ctx.ups = {} THEN d ELSE Done(y)
    BY <1>2, <1>3, <1>9 DEF y, mark
  <2> QED BY <1>8, <1>9, <2>1, <2>2 DEF Only, x, Done
<1> HIDE DEF p, i, d, u, x, n
<1>11. Only(n, x, F \cup {"initialized"} \cup G)
  BY <1>4, <1>6, <1>8, <1>10 DEF Only
<1>12. Only(n, x, {"root", "initialized", "ranks", "up", "nodes_up", "end", "updated", "ups",
                   "down_updated", "notify_resources"})
  BY <1>11 DEF Only
<1>13. /\ x.root /\ x.initialized /\ x.updated /\ x.ranks = p.ctx.ranks /\ x.end = p.ctx.end
       /\ x.notify_resources = p.ctx.notify_resources
  BY <1>4, <1>6, <1>8, <1>10 DEF Only, CtxFields
<1>14. ~file => x.up = m.up
  BY <1>4, <1>7, <1>8, <1>9, <1>10
<1> QED BY <1>2, <1>4, <1>10, <1>12, <1>13, <1>14 DEF n, x, file

-----------------------------------------------------------------------------
(***************************************************************************)
(* Folding over the jobs of a request.  FoldLeft is a function on the      *)
(* subsets of the indices that takes the largest index last; it is shown   *)
(* to exist by looking at a least subset for which it would not.           *)
(***************************************************************************)
\* A set of subsets of a finite set that is not empty has a least member.
LEMMA LeastPart ==
    ASSUME NEW S, IsFiniteSet(S), NEW B, B \subseteq SUBSET S, B # {}
    PROVE  \E s \in B : \A r \in SUBSET s : r # s => r \notin B
<1>1. IsWellFoundedOn(StrictSubsetOrdering(S), SUBSET S)
  BY FS_StrictSubsetOrderingWellFounded, FS_FiniteSubsetsOfFinite
<1>2. PICK s \in B : \A r \in B : ~(<<r, s>> \in StrictSubsetOrdering(S))
  BY <1>1, WFMin
<1>3. ASSUME NEW r \in SUBSET s, r # s, r \in B PROVE FALSE
  <2>1. <<r, s>> \in (SUBSET S) \X (SUBSET S)
    BY <1>3
  <2> QED BY <1>2, <1>3, <2>1 DEF StrictSubsetOrdering
<1> QED BY <1>3

\* A set of numbers has a least one.
LEMMA LeastIndex ==
    ASSUME NEW B, B \subseteq Nat, B # {}
    PROVE  \E n \in B : \A k \in B : n <= k
<1>1. PICK n \in B : \A k \in B : ~(<<k, n>> \in OpToRel(<, Nat))
  BY NatLessThanWellFounded, WFMin
<1>2. ASSUME NEW k \in B PROVE n <= k
  <2>1. <<k, n>> \in Nat \X Nat
    OBVIOUS
  <2> QED BY <1>1, <2>1 DEF OpToRel
<1> QED BY <1>2

\* The largest of some indices is one of them.
LEMMA LastIn ==
    ASSUME NEW n \in Nat, NEW s \in SUBSET (1..n), s # {}
    PROVE  Max(s) \in s
<1> DEFINE B == {m \in Nat : n - m \in s}
<1>1. B \subseteq Nat /\ B # {}
  <2>1. PICK x \in s : TRUE
    OBVIOUS
  <2>2. n - x \in Nat /\ n - (n - x) = x
    OBVIOUS
  <2> QED BY <2>1, <2>2
<1>2. PICK m \in B : \A k \in B : m <= k
  <2> HIDE DEF B
  <2> QED BY <1>1, LeastIndex
<1>3. n - m \in s /\ \A y \in s : n - m >= y
  <2>1. ASSUME NEW y \in s PROVE n - m >= y
    <3>1. n - y \in Nat /\ n - (n - y) = y
      OBVIOUS
    <3>2. n - y \in B
      BY <3>1
    <3> QED BY <1>2, <3>1, <3>2
  <2> QED BY <1>2, <2>1
<1> QED BY <1>3 DEF Max

\* g[s] is what has become of acc when the jobs at the indices s have been matched.
IsRun(acc, jobs, S, g) ==
    g = [s \in SUBSET S |-> IF s = {} THEN acc ELSE match_one(g[s \ {Max(s)}], jobs[Max(s)])]

\* S has indices of a sequence of length n.
Indices(S, n) == n \in Nat /\ S \subseteq 1..n

\* Two runs agree.
LEMMA RunUnique ==
    ASSUME NEW acc, NEW jobs, NEW n, NEW S, Indices(S, n), NEW g, NEW h,
           IsRun(acc, jobs, S, g), IsRun(acc, jobs, S, h)
    PROVE  \A s \in SUBSET S : g[s] = h[s]
<1> DEFINE B == {s \in SUBSET S : g[s] # h[s]}
<1> SUFFICES ASSUME B # {} PROVE FALSE
  OBVIOUS
<1>1. PICK s \in B : \A r \in SUBSET s : r # s => r \notin B
  <2>1. IsFiniteSet(1..n)
    BY FS_Interval DEF Indices
  <2>2. IsFiniteSet(S)
    BY <2>1, FS_Subset DEF Indices
  <2>3. B \subseteq SUBSET S
    OBVIOUS
  <2> HIDE DEF B
  <2> QED BY <2>2, <2>3, LeastPart
<1> DEFINE x == Max(s)
<1>2. /\ g[s] = IF s = {} THEN acc ELSE match_one(g[s \ {x}], jobs[x])
      /\ h[s] = IF s = {} THEN acc ELSE match_one(h[s \ {x}], jobs[x])
  BY DEF IsRun
<1>3. s # {} /\ s \in SUBSET (1..n)
  BY <1>2 DEF Indices
<1>4. x \in s
  BY <1>3, LastIn DEF Indices
<1>5. s \ {x} \notin B
  BY <1>1, <1>4
<1> QED BY <1>2, <1>3, <1>4, <1>5

\* The restriction of a run is a run.
LEMMA RunRestrict ==
    ASSUME NEW acc, NEW jobs, NEW S, NEW g, IsRun(acc, jobs, S, g), NEW U \in SUBSET S
    PROVE  IsRun(acc, jobs, U, [s \in SUBSET U |-> g[s]])
<1> DEFINE h == [s \in SUBSET U |-> g[s]]
<1>1. ASSUME NEW s \in SUBSET U
      PROVE  h[s] = IF s = {} THEN acc ELSE match_one(h[s \ {Max(s)}], jobs[Max(s)])
  <2>1. s \in SUBSET S /\ s \ {Max(s)} \in SUBSET U
    OBVIOUS
  <2>2. g[s] = IF s = {} THEN acc ELSE match_one(g[s \ {Max(s)}], jobs[Max(s)])
    BY <2>1 DEF IsRun
  <2> QED BY <2>1, <2>2
<1> HIDE DEF h
<1>2. h = [s \in SUBSET U |-> h[s]]
  BY DEF h
<1>3. IsRun(acc, jobs, U, h)
  BY <1>1, <1>2 DEF IsRun
<1> QED BY <1>3 DEF h

\* One step of a run.
LEMMA RunStep ==
    ASSUME NEW acc, NEW jobs, NEW S, NEW g, IsRun(acc, jobs, S, g), NEW s \in SUBSET S
    PROVE  g[s] = IF s = {} THEN acc ELSE match_one(g[s \ {Max(s)}], jobs[Max(s)])
  BY DEF IsRun

\* There is a run.
LEMMA RunExists ==
    ASSUME NEW acc, NEW jobs, NEW n \in Nat
    PROVE  \E g : IsRun(acc, jobs, 1..n, g)
<1> DEFINE S == 1..n
           B == {s \in SUBSET S : ~\E g : IsRun(acc, jobs, s, g)}
<1> SUFFICES ASSUME B # {} PROVE FALSE
  OBVIOUS
<1>1. PICK A \in B : \A r \in SUBSET A : r # A => r \notin B
  <2>1. B \subseteq SUBSET S /\ IsFiniteSet(S)
    BY FS_Interval
  <2> HIDE DEF B, S
  <2> QED BY <2>1, LeastPart
<1> DEFINE G(s) == CHOOSE g : IsRun(acc, jobs, s, g)
           V(s) == G(s)[s]
           g == [s \in SUBSET A |-> IF s = {} THEN acc ELSE match_one(V(s \ {Max(s)}), jobs[Max(s)])]
<1>2. ASSUME NEW r \in SUBSET A, r # A PROVE r \in SUBSET (1..n) /\ IsRun(acc, jobs, r, G(r))
  <2>1. r \in SUBSET S /\ r \notin B
    BY <1>1, <1>2
  <2>2. \E h : IsRun(acc, jobs, r, h)
    BY <2>1
  <2> QED BY <2>1, <2>2
<1>3. ASSUME NEW r \in SUBSET A, r # A
      PROVE  V(r) = g[r]
  <2>1. V(r) = IF r = {} THEN acc ELSE match_one(G(r)[r \ {Max(r)}], jobs[Max(r)])
    <3> DEFINE f == G(r)
    <3>1. IsRun(acc, jobs, r, f) /\ r \in SUBSET r
      BY <1>2, <1>3
    <3>2. V(r) = f[r]
      OBVIOUS
    <3> HIDE DEF f, V, G, g, B, S
    <3>3. f[r] = IF r = {} THEN acc ELSE match_one(f[r \ {Max(r)}], jobs[Max(r)])
      BY <3>1, RunStep
    <3> QED BY <3>2, <3>3 DEF f
  <2>2. CASE r = {}
    BY <2>1, <2>2
  <2>3. CASE r # {}
    <3> DEFINE u == r \ {Max(r)}
    <3>0. Max(r) \in r
      BY <1>2, <1>3, <2>3, LastIn
    <3>1. u \in SUBSET r /\ u \in SUBSET A /\ u # A
      BY <1>3, <2>3, <3>0
    <3>2. IsRun(acc, jobs, u, [s \in SUBSET u |-> G(r)[s]])
      BY <1>2, <1>3, <3>1, RunRestrict
    <3>3. IsRun(acc, jobs, u, G(u)) /\ u \in SUBSET (1..n)
      BY <1>2, <3>1
    <3>4. \A s \in SUBSET u : G(u)[s] = [t \in SUBSET u |-> G(r)[t]][s]
      <4> DEFINE f == G(u)
                 k == [t \in SUBSET u |-> G(r)[t]]
      <4>1. IsRun(acc, jobs, u, k) /\ IsRun(acc, jobs, u, f) /\ Indices(u, n)
        BY <3>2, <3>3 DEF Indices
      <4> HIDE DEF G, V, u, f, k, S, B, g
      <4>2. \A s \in SUBSET u : f[s] = k[s]
        BY <4>1, RunUnique
      <4> QED BY <4>2 DEF f, k
    <3>5. V(u) = G(r)[u]
      BY <3>4
    <3> QED BY <2>1, <2>3, <3>5
  <2> QED BY <2>2, <2>3
<1>4. ASSUME NEW s \in SUBSET A, s # {} PROVE V(s \ {Max(s)}) = g[s \ {Max(s)}]
  <2>1. s \in SUBSET (1..n)
    OBVIOUS
  <2>2. Max(s) \in s
    BY <1>4, <2>1, LastIn
  <2> QED BY <1>3, <2>2
<1> HIDE DEF V
<1>5. ASSUME NEW s \in SUBSET A
      PROVE  g[s] = IF s = {} THEN acc ELSE match_one(g[s \ {Max(s)}], jobs[Max(s)])
  BY <1>4, <1>5
<1>6. g = [s \in SUBSET A |-> g[s]]
  OBVIOUS
<1> HIDE DEF g
<1>7. IsRun(acc, jobs, A, g)
  BY <1>5, <1>6 DEF IsRun
<1> QED BY <1>1, <1>7

\* The accumulator match_multi ends with, as the last of a sequence of accumulators.
LEMMA RunOfMatches ==
    ASSUME NEW ctx, NEW jobs \in Seq(Job)
    PROVE  \E h : /\ h[0] = [ctx |-> ctx, out |-> << >>, over |-> FALSE]
                  /\ \A k \in 1..Len(jobs) : h[k] = match_one(h[k - 1], jobs[k])
                  /\ match_multi(ctx, jobs) =
                        [ctx |-> h[Len(jobs)].ctx,
                         out |-> IF h[Len(jobs)].over THEN h[Len(jobs)].out
                                 ELSE Append(h[Len(jobs)].out,
                                             [j |-> Nobody, err |-> "ENODATA", R |-> NoR])]
<1> DEFINE acc == [ctx |-> ctx, out |-> << >>, over |-> FALSE]
           n == Len(jobs)
           g == CHOOSE f : IsRun(acc, jobs, DOMAIN jobs, f)
           r == FoldLeft(match_one, acc, jobs)
           h == [k \in 0..n |-> g[1..k]]
<1>1. n \in Nat /\ DOMAIN jobs = 1..n
  OBVIOUS
<1>2. IsRun(acc, jobs, 1..n, g)
  BY <1>1, RunExists
<1>3. r = g[DOMAIN jobs]
  BY DEF FoldLeft, MapThenFoldSet, IsRun
<1>4. match_multi(ctx, jobs) = [ctx |-> r.ctx,
         out |-> IF r.over THEN r.out ELSE Append(r.out, [j |-> Nobody, err |-> "ENODATA", R |-> NoR])]
  BY DEF match_multi
<1> HIDE DEF r, g, acc
<1>5. h[n] = r
  BY <1>1, <1>3
<1>6. h[0] = acc
  <2>1. 1..0 = {} /\ {} \in SUBSET (1..n)
    OBVIOUS
  <2>2. g[{}] = acc
    BY <1>2, <2>1 DEF IsRun
  <2> QED BY <1>1, <2>1, <2>2
<1>7. ASSUME NEW k \in 1..n PROVE h[k] = match_one(h[k - 1], jobs[k])
  <2>1. Max(1..k) = k
    <3>1. k \in 1..k /\ \A y \in 1..k : k >= y
      OBVIOUS
    <3>2. \A x \in 1..k : (\A y \in 1..k : x >= y) => x = k
      BY <3>1
    <3> QED BY <3>1, <3>2 DEF Max
  <2>2. k \in 1..k /\ 1..k \in SUBSET (1..n) /\ k \in 0..n /\ k - 1 \in 0..n
    BY <1>1
  <2>3. (1..k) \ {k} = 1..(k - 1)
    BY <1>1
  <2> DEFINE s == 1..k
  <2>4. s # {} /\ s \in SUBSET (1..n) /\ Max(s) = k
    BY <2>1, <2>2
  <2>5. g[s] = match_one(g[s \ {k}], jobs[k])
    <3> DEFINE D == 1..n
    <3>2. IsRun(acc, jobs, D, g) /\ s \in SUBSET D
      BY <1>2, <2>4
    <3> HIDE DEF s, h, n, D
    <3>1. g[s] = IF s = {} THEN acc ELSE match_one(g[s \ {Max(s)}], jobs[Max(s)])
      BY <3>2 DEF IsRun
    <3> QED BY <3>1, <2>4
  <2> QED BY <2>2, <2>3, <2>5
<1> HIDE DEF h
<1> QED BY <1>4, <1>5, <1>6, <1>7 DEF acc

-----------------------------------------------------------------------------
(***************************************************************************)
(* The parameters of the queues.                                           *)
(***************************************************************************)
\* A queue that looks no deeper than its own maximum.
InItsRange(par) ==
    /\ par.queue_depth \in 1 .. par.max_queue_depth
    /\ par.policy # "hybrid" => par.reservation_depth <= par.max_reservation_depth

\* A queue as the factory and apply_params make it.
Parameters ==
    [policy : known_queue_policy, queue_depth : Nat \ {0}, max_queue_depth : Nat \ {0},
     reservation_depth : Nat, max_reservation_depth : Nat \ {0}]

\* The maximum is applied before the depth, and clips it (base_apply_params).
LEMMA BaseInRange ==
    ASSUME NEW policy \in known_queue_policy, NEW params,
           base_apply_params(create_queue_policy(policy), params).ok
    PROVE  LET q == base_apply_params(create_queue_policy(policy), params).q
           IN  /\ q \in Parameters /\ q.policy = policy /\ q.queue_depth <= q.max_queue_depth
               /\ q.max_reservation_depth = MAX_RESERVATION_DEPTH
               /\ q.reservation_depth <= q.max_reservation_depth
<1> DEFINE c == create_queue_policy(policy)
           given == {"max-queue-depth", "queue-depth"} \cap DOMAIN params
           max == IF "max-queue-depth" \in given THEN params["max-queue-depth"] ELSE c.max_queue_depth
           depth == IF "queue-depth" \in given THEN params["queue-depth"] ELSE c.queue_depth
           b == base_apply_params(c, params)
<1>1. /\ c \in Parameters /\ c.policy = policy /\ c.max_reservation_depth = MAX_RESERVATION_DEPTH
      /\ c.reservation_depth <= c.max_reservation_depth
  BY DEF create_queue_policy, Parameters, known_queue_policy, DEFAULT_QUEUE_DEPTH, MAX_QUEUE_DEPTH,
         HYBRID_RESERVATION_DEPTH, MAX_RESERVATION_DEPTH
<1>2. /\ \A k \in given : IsDepth(params[k])
      /\ b.q = [c EXCEPT !.max_queue_depth = max, !.queue_depth = Lesser(depth, max)]
  BY DEF base_apply_params
<1>3. max \in Nat \ {0} /\ depth \in Nat \ {0}
  <2> HIDE DEF c
  <2> QED BY <1>1, <1>2 DEF Parameters, IsDepth
<1>4. Lesser(depth, max) \in Nat \ {0} /\ Lesser(depth, max) <= max
  <2> HIDE DEF max, depth
  <2> QED BY <1>3 DEF Lesser
<1> HIDE DEF max, depth, c
<1> QED BY <1>1, <1>2, <1>3, <1>4 DEF Parameters, b, c

\* What the policies do with their own parameters keeps the depths in their range.
LEMMA ApplyInRange ==
    ASSUME NEW prop, prop.queue_policy \in known_queue_policy,
           apply_params(create_queue_policy(prop.queue_policy), prop).ok
    PROVE  InItsRange(apply_params(create_queue_policy(prop.queue_policy), prop).q)
<1> DEFINE c == create_queue_policy(prop.queue_policy)
           b == base_apply_params(c, prop.queue_params)
           h == hybrid_apply_params(b.q, prop.policy_params)
           v == conservative_apply_params(b.q, prop.policy_params)
           a == apply_params(c, prop)
           q == b.q
<1>1. c.policy = prop.queue_policy
  BY DEF create_queue_policy
<1>2. /\ b.ok
      /\ c.policy = "hybrid" => h.ok /\ a.q = h.q
      /\ c.policy = "conservative" => v.ok /\ a.q = v.q
      /\ c.policy \notin {"hybrid", "conservative"} => a.q = q
  <2> HIDE DEF c, b, h, v
  <2> DEFINE r == CASE c.policy = "hybrid" -> h [] c.policy = "conservative" -> v
                    [] OTHER -> [ok |-> TRUE, q |-> b.q]
  <2>1. a = [ok |-> b.ok /\ r.ok, q |-> r.q]
    BY DEF apply_params, b, h, v
  <2>2. a.ok
    BY DEF c
  <2>3. /\ c.policy = "hybrid" => r = h
        /\ c.policy = "conservative" => r = v
        /\ c.policy \notin {"hybrid", "conservative"} => r = [ok |-> TRUE, q |-> b.q]
    OBVIOUS
  <2> HIDE DEF r, a
  <2>4. b.ok /\ r.ok /\ a.q = r.q
    BY <2>1, <2>2
  <2> QED BY <2>3, <2>4
<1>3. /\ q \in Parameters /\ q.policy = c.policy /\ q.queue_depth <= q.max_queue_depth
      /\ q.max_reservation_depth = MAX_RESERVATION_DEPTH
      /\ q.reservation_depth <= q.max_reservation_depth
  BY <1>1, <1>2, BaseInRange
<1> HIDE DEF c, a, b, h, v, q
<1>4. CASE c.policy = "hybrid"
  <2>1. h.q.queue_depth = q.queue_depth /\ h.q.max_queue_depth = q.max_queue_depth /\ h.q.policy = q.policy
    BY <1>3 DEF h, hybrid_apply_params, Parameters, q
  <2> QED BY <1>2, <1>3, <1>4, <2>1 DEF InItsRange, Parameters, a, c
<1>5. CASE c.policy = "conservative"
  <2> DEFINE clipped == [q EXCEPT !.reservation_depth = Lesser(@, q.queue_depth)]
             max == IF "max-reservation-depth" \in DOMAIN prop.policy_params
                    THEN prop.policy_params["max-reservation-depth"] ELSE NotANumber
  <2>1. /\ clipped \in Parameters /\ clipped.reservation_depth <= q.max_reservation_depth
        /\ clipped.queue_depth = q.queue_depth /\ clipped.max_queue_depth = q.max_queue_depth
        /\ clipped.max_reservation_depth = q.max_reservation_depth
    BY <1>3 DEF Parameters, Lesser
  <2>2. v = IF max = NotANumber THEN [ok |-> TRUE, q |-> clipped]
            ELSE [ok |-> IsDepth(max),
                  q |-> [clipped EXCEPT !.max_reservation_depth = max,
                                        !.reservation_depth = Lesser(@, max)]]
    BY DEF v, q, conservative_apply_params
  <2> HIDE DEF clipped, max
  <2>3. InItsRange(v.q)
    <3>1. CASE max = NotANumber
      BY <1>3, <2>1, <2>2, <3>1 DEF InItsRange, Parameters
    <3>2. CASE max # NotANumber
      <4>1. max \in Nat \ {0}
        BY <1>2, <1>5, <2>2, <3>2 DEF IsDepth
      <4>2. Lesser(clipped.reservation_depth, max) <= max
        BY <2>1, <4>1 DEF Lesser, Parameters
      <4> DEFINE w == [clipped EXCEPT !.max_reservation_depth = max,
                                      !.reservation_depth = Lesser(@, max)]
      <4>3. /\ w.queue_depth = q.queue_depth /\ w.max_queue_depth = q.max_queue_depth
            /\ w.max_reservation_depth = max /\ w.reservation_depth = Lesser(clipped.reservation_depth, max)
        BY <2>1 DEF Parameters
      <4>4. v.q = w
        BY <2>2, <3>2
      <4> HIDE DEF w
      <4> QED BY <1>3, <4>2, <4>3, <4>4 DEF InItsRange, Parameters
    <3> QED BY <3>1, <3>2
  <2> QED BY <1>2, <1>5, <2>3 DEF a, c
<1>6. CASE c.policy \notin {"hybrid", "conservative"}
  BY <1>2, <1>3, <1>6 DEF InItsRange, Parameters, a, c
<1> QED BY <1>4, <1>5, <1>6

\* Whatever the file and the arguments say, what qmanager starts with is in range: a
\* depth that is refused, or a policy nobody knows, stops the module.
LEMMA OptionsInRange ==
    ASSUME NEW conf, NEW args, qmanager_options(conf, args).ok
    PROVE  LET o == qmanager_options(conf, args)
           IN  \A n \in DOMAIN o.queues : InItsRange(o.queues[n])
<1> DEFINE c == qmanager_process_config_file(qmanager_set_default, conf)
           a == qmanager_process_args(c.opts, args)
           e == enforce_queues(a.opts)
           o == qmanager_canonicalize(a.opts)
           made == [n \in DOMAIN o.per_queue |->
                      apply_params(create_queue_policy(o.per_queue[n].queue_policy), o.per_queue[n])]
<1>1. e.ok /\ qmanager_options(conf, args).queues = e.queues
  <2>1. qmanager_options(conf, args) =
           IF c.ok /\ a.ok /\ e.ok THEN [ok |-> TRUE, queues |-> e.queues, parents |-> a.opts.parents]
           ELSE [ok |-> FALSE, queues |-> Empty, parents |-> Empty]
    BY Zenon DEF qmanager_options
  <2> HIDE DEF c, a, e
  <2> QED BY <2>1
<1> HIDE DEF a
<1>2. /\ \A n \in DOMAIN made : o.per_queue[n].queue_policy \in known_queue_policy /\ made[n].ok
      /\ e.queues = [n \in DOMAIN made |-> made[n].q]
  BY <1>1 DEF enforce_queues
<1> HIDE DEF o, e
<1>3. \A n \in DOMAIN made : InItsRange(made[n].q)
  BY <1>2, ApplyInRange
<1> HIDE DEF made
<1> QED BY <1>1, <1>2, <1>3

QmFields == {"st", "parents", "todo", "quiet", "queues"}

QueueFields ==
    {"par", "pending", "provisional", "active", "sched", "limit", "alloced", "rejected", "running"}

\* What the theorem about the depths rests on: the fields of the queue manager and of
\* its queues, and the parameters every queue was made with.
QueuesInRange ==
    qm # Off => /\ DOMAIN qm = QmFields
                /\ \A n \in DOMAIN qm.queues : /\ DOMAIN qm.queues[n] = QueueFields
                                               /\ InItsRange(qm.queues[n].par)

\* b is a with queues that may have changed, but not in their parameters.
SameQueues(a, b) ==
    /\ DOMAIN b = QmFields /\ DOMAIN b.queues = DOMAIN a.queues
    /\ \A n \in DOMAIN a.queues : DOMAIN b.queues[n] = QueueFields /\ b.queues[n].par = a.queues[n].par

\* A step that changes the queues and not their parameters keeps them in range.
LEMMA SameQueuesInRange ==
    ASSUME QueuesInRange, qm # Off, SameQueues(qm, qm')
    PROVE  QueuesInRange'
  BY DEF QueuesInRange, SameQueues

\* run_sched_loop and what the answers of the resource module do leave the parameters.
LEMMA QueueSteps ==
    ASSUME NEW q, DOMAIN q = QueueFields, NEW m
    PROVE  /\ DOMAIN run_sched_loop(q) = QueueFields /\ run_sched_loop(q).par = q.par
           /\ DOMAIN handle_match_success(q, m) = QueueFields /\ handle_match_success(q, m).par = q.par
           /\ DOMAIN handle_match_failure(q, m) = QueueFields /\ handle_match_failure(q, m).par = q.par
<1>1. DOMAIN run_sched_loop(q) = QueueFields /\ run_sched_loop(q).par = q.par
  BY DEF run_sched_loop, QueueFields
<1>2. DOMAIN handle_match_success(q, m) = QueueFields /\ handle_match_success(q, m).par = q.par
  BY DEF handle_match_success, QueueFields
<1>3. DOMAIN handle_match_failure(q, m) = QueueFields /\ handle_match_failure(q, m).par = q.par
  BY DEF handle_match_failure, QueueFields
<1> QED BY <1>1, <1>2, <1>3

\* Every step of the three modules keeps the depths in range.
LEMMA QueuesInRangeStep ==
    ASSUME QueuesInRange, [Next]_vars
    PROVE  QueuesInRange'
<1>1. CASE UNCHANGED qm
  BY <1>1 DEF QueuesInRange
<1>2. ASSUME NEW c, load_qmanager(c) PROVE QueuesInRange'
  <2> DEFINE o == qmanager_options(c.conf, c.args)
             Q == [n \in DOMAIN o.queues |-> Queue(o.queues[n])]
  <2>1. qm' = IF o.ok THEN [st |-> "resource", parents |-> o.parents, todo |-> {}, quiet |-> 0,
                            queues |-> Q]
              ELSE Off
    BY <1>2 DEF load_qmanager
  <2>2. \A n \in DOMAIN Q : DOMAIN Q[n] = QueueFields /\ Q[n].par = o.queues[n]
    BY DEF Queue, QueueFields
  <2>3. o.ok => \A n \in DOMAIN o.queues : InItsRange(o.queues[n])
    BY OptionsInRange
  <2>4. DOMAIN Q = DOMAIN o.queues
    OBVIOUS
  <2> HIDE DEF Q, o
  <2> QED BY <2>1, <2>2, <2>3, <2>4 DEF QueuesInRange, QmFields
<1>3. CASE qmanager_destroy
  BY <1>3 DEF qmanager_destroy, QueuesInRange
<1>4. CASE update_on_resource_response
  <2>1. CASE qmanager_destroy
    BY <2>1, <1>3
  <2>2. CASE ~qmanager_destroy
    <3> DEFINE woken == [n \in DOMAIN qm.queues |-> [qm.queues[n] EXCEPT !.sched = TRUE]]
    <3>1. /\ qm # Off
          /\ qm' = [qm EXCEPT !.queues = woken, !.todo = IF qm.st = "resource" THEN Running ELSE @,
                              !.st = IF qm.st = "resource" /\ Running # {} THEN "jobs" ELSE "ready"]
      BY <1>4, <2>2 DEF update_on_resource_response
    <3>2. /\ DOMAIN woken = DOMAIN qm.queues
          /\ \A n \in DOMAIN qm.queues : DOMAIN woken[n] = QueueFields /\ woken[n].par = qm.queues[n].par
      BY <3>1 DEF QueuesInRange, QueueFields
    <3> HIDE DEF woken
    <3>3. DOMAIN qm' = QmFields /\ qm'.queues = woken
      BY <3>1 DEF QueuesInRange, QmFields
    <3> QED BY <3>1, <3>2, <3>3, SameQueuesInRange DEF SameQueues
  <2> QED BY <2>1, <2>2
<1>5. ASSUME NEW j, jobmanager_hello_cb(j) PROVE QueuesInRange'
  <2> DEFINE n == queue_of(j)
             u == IF n \notin DOMAIN qm.queues THEN Error(rm)
                  ELSE reapi_update_allocate(rm, j, WithFreeRanks(HelloR(j), jm[j].freed))
             Q == IF u.ok THEN [qm.queues EXCEPT ![n].running = @ \cup {j}] ELSE qm.queues
  <2>1. /\ qm # Off
        /\ qm' = [qm EXCEPT !.todo = @ \ {j}, !.st = IF qm.todo = {j} THEN "ready" ELSE @, !.queues = Q]
    BY <1>5 DEF jobmanager_hello_cb
  <2> HIDE DEF u, n
  <2>2. /\ DOMAIN Q = DOMAIN qm.queues
        /\ \A k \in DOMAIN qm.queues : DOMAIN Q[k] = QueueFields /\ Q[k].par = qm.queues[k].par
    BY <2>1 DEF QueuesInRange, QueueFields
  <2> HIDE DEF Q
  <2>3. DOMAIN qm' = QmFields /\ qm'.queues = Q
    BY <2>1 DEF QueuesInRange, QmFields
  <2> QED BY <2>1, <2>2, <2>3, SameQueuesInRange DEF SameQueues
<1>6. ASSUME NEW j, jobmanager_alloc_cb(j) PROVE QueuesInRange'
  <2> DEFINE n == queue_of(j)
             Q == [qm.queues EXCEPT ![n].provisional = Append(@, j), ![n].sched = TRUE]
  <2>1. CASE UNCHANGED qm
    BY <2>1 DEF QueuesInRange
  <2>2. CASE ~UNCHANGED qm
    <3>1. /\ qm # Off
          /\ qm' = [qm EXCEPT !.queues[n].provisional = Append(@, j), !.queues[n].sched = TRUE]
      BY <1>6, <2>2 DEF jobmanager_alloc_cb
    <3> HIDE DEF n
    <3>2. DOMAIN qm' = QmFields /\ qm'.queues = Q
      BY <3>1 DEF QueuesInRange, QmFields
    <3>3. /\ DOMAIN Q = DOMAIN qm.queues
          /\ \A k \in DOMAIN qm.queues : DOMAIN Q[k] = QueueFields /\ Q[k].par = qm.queues[k].par
      BY <3>1 DEF QueuesInRange, QueueFields
    <3> HIDE DEF Q
    <3> QED BY <3>1, <3>2, <3>3, SameQueuesInRange DEF SameQueues
  <2> QED BY <2>1, <2>2
<1>7. ASSUME NEW j, NEW ranks, jobmanager_free_cb(j, ranks) PROVE QueuesInRange'
  <2> DEFINE rest == jm[j].R.ranks \ jm[j].freed
             final == ranks = rest
             c == IF final THEN reapi_cancel(rm, j) ELSE reapi_cancel_R(rm, j, ranks)
             known == {n \in DOMAIN qm.queues : j \in qm.queues[n].running}
             done == c.ok /\ (final \/ c.full)
             Q == [n \in DOMAIN qm.queues |->
                     IF n \notin known \/ ~c.ok THEN qm.queues[n]
                     ELSE [qm.queues[n] EXCEPT !.sched = TRUE, !.running = IF done THEN @ \ {j} ELSE @]]
  <2>1. qm # Off /\ qm' = [qm EXCEPT !.queues = Q]
    BY <1>7 DEF jobmanager_free_cb
  <2> HIDE DEF known, done, c
  <2>2. /\ DOMAIN Q = DOMAIN qm.queues
        /\ \A k \in DOMAIN qm.queues : DOMAIN Q[k] = QueueFields /\ Q[k].par = qm.queues[k].par
    BY <2>1 DEF QueuesInRange, QueueFields
  <2> HIDE DEF Q
  <2>3. DOMAIN qm' = QmFields /\ qm'.queues = Q
    BY <2>1 DEF QueuesInRange, QmFields
  <2> QED BY <2>1, <2>2, <2>3, SameQueuesInRange DEF SameQueues
<1>8. CASE check_watcher_cb
  <2> DEFINE names == DOMAIN qm.queues
             any == \E n \in names : qm.queues[n].sched
             looped == [n \in names |-> IF any THEN run_sched_loop(qm.queues[n]) ELSE qm.queues[n]]
             Q == [n \in names |-> [looped[n] EXCEPT !.alloced = << >>, !.rejected = << >>]]
  <2>1. qm # Off /\ qm' = [qm EXCEPT !.queues = Q]
    BY <1>8 DEF check_watcher_cb
  <2>2. \A n \in names : DOMAIN looped[n] = QueueFields /\ looped[n].par = qm.queues[n].par
    BY <2>1, QueueSteps DEF QueuesInRange
  <2> HIDE DEF looped
  <2>3. /\ DOMAIN Q = DOMAIN qm.queues
        /\ \A k \in DOMAIN qm.queues : DOMAIN Q[k] = QueueFields /\ Q[k].par = qm.queues[k].par
    BY <2>2 DEF QueueFields
  <2> HIDE DEF Q
  <2>4. DOMAIN qm' = QmFields /\ qm'.queues = Q
    BY <2>1 DEF QueuesInRange, QmFields
  <2> QED BY <2>1, <2>3, <2>4, SameQueuesInRange DEF SameQueues
<1>9. CASE match_multi_then
  <2> DEFINE msg == Head(toQm)
             q == qm.queues[msg.queue]
             r == IF msg.m.err = "" THEN handle_match_success(q, msg.m) ELSE handle_match_failure(q, msg.m)
             Q == [qm.queues EXCEPT ![msg.queue] = r]
  <2>1. qm # Off /\ qm' = [qm EXCEPT !.queues = Q]
    BY <1>9 DEF match_multi_then, QueuesInRange, QmFields
  <2>2. msg.queue \in DOMAIN qm.queues => DOMAIN r = QueueFields /\ r.par = q.par
    BY <2>1, QueueSteps DEF QueuesInRange
  <2> HIDE DEF r
  <2>3. /\ DOMAIN Q = DOMAIN qm.queues
        /\ \A k \in DOMAIN qm.queues : DOMAIN Q[k] = QueueFields /\ Q[k].par = qm.queues[k].par
    BY <2>1, <2>2 DEF QueuesInRange
  <2> HIDE DEF Q
  <2>4. DOMAIN qm' = QmFields /\ qm'.queues = Q
    BY <2>1 DEF QueuesInRange, QmFields
  <2> QED BY <2>1, <2>3, <2>4, SameQueuesInRange DEF SameQueues
<1>10. CASE quiescent_request_cb \/ process_pending_quiescent_requests
  <2>1. /\ qm # Off /\ DOMAIN qm' = DOMAIN qm
        /\ qm'.queues = qm.queues
    BY <1>10 DEF quiescent_request_cb, process_pending_quiescent_requests, QueuesInRange, QmFields
  <2> QED BY <2>1, SameQueuesInRange DEF SameQueues, QueuesInRange
<1>11. CASE CoreNext
  BY <1>11, <1>1 DEF CoreNext, CoreUp, CoreDown, CoreLost, CoreExpiration, Tell
<1>12. CASE ModuleNext
  BY <1>12, <1>1, <1>2, <1>3 DEF ModuleNext, load_resource, load_feasibility, unload_resource,
         unload_feasibility, unload_qmanager, LeaveFz
<1>13. CASE AdminNext
  BY <1>13, <1>1, <1>10 DEF AdminNext, set_status_request_cb, set_property_request_cb,
         remove_property_request_cb, add_subgraph_request_cb, remove_subgraph_request_cb,
         status_request_cb, Edit
<1>14. CASE HandlerNext
  <2>1. CASE update_resource_then \/ notify_request_cb \/ match_multi_request_cb
    BY <2>1, <1>1 DEF update_resource_then, notify_request_cb, match_multi_request_cb
  <2>2. CASE feasibility_notified
    BY <2>2, <1>1 DEF feasibility_notified, LeaveFz
  <2> QED BY <1>14, <2>1, <2>2, <1>4, <1>8, <1>9, <1>10 DEF HandlerNext
<1>15. CASE JobNext
  BY <1>15, <1>1, <1>5, <1>6, <1>7 DEF JobNext, Submit
<1>16. CASE UNCHANGED vars
  BY <1>16, <1>1 DEF vars
<1> QED BY <1>11, <1>12, <1>13, <1>14, <1>15, <1>16 DEF Next

\* No queue looks deeper than its own maximum, whatever the order and the source of
\* the parameters and whatever happens to the modules (enforce_queues, apply_params).
THEOREM DepthsStayInRange == Spec => []DepthsInRange
<1>1. Init => QueuesInRange
  BY DEF Init, QueuesInRange
<1>2. QueuesInRange /\ [Next]_vars => QueuesInRange'
  BY QueuesInRangeStep
<1>3. QueuesInRange => DepthsInRange
  BY DEF QueuesInRange, DepthsInRange, InItsRange
<1> QED BY <1>1, <1>2, <1>3, PTL DEF Spec

-----------------------------------------------------------------------------
(***************************************************************************)
(* Jobs in a context: what a match, an update and a removal change.        *)
(***************************************************************************)
\* What a job was given: R_lite, and a scheduling key that names the same ranks.
GoodR(R) ==
    /\ R \in [ranks : SUBSET Rank, start : {0}, end : {0}, writer : {"none", "jgf", "jgf_shorthand"},
              key : SUBSET Rank, free : SUBSET Rank]
    /\ R.writer # "none" => R.key = R.ranks

\* A context that holds nothing for a job it does not track, and nothing on a rank
\* that is not there.
Sound(ctx) ==
    /\ DOMAIN ctx = CtxFields /\ ctx.initialized /\ ctx.root
    /\ ctx.ranks \subseteq Rank /\ ctx.booked \in [Rank -> Job \cup {Nobody}]
    /\ ctx.allocations \subseteq Job /\ DOMAIN ctx.jobs \subseteq Job
    /\ \A j \in DOMAIN ctx.jobs : DOMAIN ctx.jobs[j] = {"state", "R"}
    /\ \A r \in Rank : ctx.booked[r] # Nobody
          => r \in ctx.ranks /\ ctx.booked[r] \in DOMAIN ctx.jobs /\ ctx.booked[r] \in ctx.allocations

\* What is kept of the jobs is the same but for the jobs J.
SameJobs(ctx, c, J) ==
    \A k \in Job \ J : /\ k \in DOMAIN c.jobs <=> k \in DOMAIN ctx.jobs
                       /\ k \in DOMAIN ctx.jobs => c.jobs[k] = ctx.jobs[k]

\* c is ctx after the job j was given the free ranks, and is tracked with R.
Taken(ctx, c, j, R, ranks) ==
    /\ Only(ctx, c, {"booked", "jobs", "allocations"})
    /\ ranks \subseteq ctx.ranks /\ \A r \in ranks : ctx.booked[r] = Nobody
    /\ c.booked = [r \in Rank |-> IF r \in ranks THEN j ELSE ctx.booked[r]]
    /\ SameJobs(ctx, c, {j}) /\ DOMAIN c.jobs = DOMAIN ctx.jobs \cup {j}
    /\ c.jobs[j].R = R /\ c.allocations = ctx.allocations \cup {j}

\* The R that is written for some ranks names them.
LEMMA EmitGood ==
    ASSUME NEW ctx, NEW ranks \in SUBSET Rank
    PROVE  GoodR(Emit(ctx, ranks)) /\ Emit(ctx, ranks).ranks = ranks
<1>1. WriterOf(ctx) \in {"none", "jgf", "jgf_shorthand"}
  BY DEF WriterOf
<1> QED BY <1>1 DEF Emit, GoodR

\* Booking ranks that are free and tracking the job.
LEMMA BookAndTrack ==
    ASSUME NEW ctx, Sound(ctx), NEW j \in Job, NEW ranks \in SUBSET Rank, NEW R,
           ranks \subseteq ctx.ranks, \A r \in ranks : ctx.booked[r] = Nobody
    PROVE  LET c == track_schedule_info(Book(ctx, j, ranks), j, R)
           IN  Taken(ctx, c, j, R, ranks) /\ Sound(c)
<1> DEFINE b == Book(ctx, j, ranks)
           c == track_schedule_info(b, j, R)
           F == {"booked", "jobs", "allocations"}
<1>1. /\ Only(ctx, b, F) /\ b.booked = [r \in Rank |-> IF r \in ranks THEN j ELSE ctx.booked[r]]
      /\ b.jobs = ctx.jobs /\ b.allocations = ctx.allocations
  BY DEF Book, Only, CtxFields, Sound
<1> HIDE DEF b
<1>2. /\ Only(b, c, F) /\ c.booked = b.booked /\ c.allocations = b.allocations \cup {j}
      /\ c.jobs = With(b.jobs, j, [state |-> "ALLOCATED", R |-> R])
  BY <1>1 DEF track_schedule_info, Only, CtxFields
<1> HIDE DEF c
<1>3. Only(ctx, c, F)
  BY <1>1, <1>2 DEF Only
<1>4. /\ DOMAIN c.jobs = DOMAIN ctx.jobs \cup {j} /\ c.jobs[j] = [state |-> "ALLOCATED", R |-> R]
      /\ \A k \in DOMAIN ctx.jobs : k # j => c.jobs[k] = ctx.jobs[k]
  BY <1>1, <1>2 DEF With
<1>5. SameJobs(ctx, c, {j})
  BY <1>4 DEF SameJobs
<1>6. Taken(ctx, c, j, R, ranks)
  BY <1>1, <1>2, <1>3, <1>4, <1>5 DEF Taken
<1>7. DOMAIN c = CtxFields /\ c.initialized /\ c.root /\ c.ranks = ctx.ranks
  BY <1>3 DEF Only, CtxFields, Sound
<1>8. c.booked \in [Rank -> Job \cup {Nobody}] /\ c.allocations \subseteq Job /\ DOMAIN c.jobs \subseteq Job
  BY <1>1, <1>2, <1>4 DEF Sound
<1>9. ASSUME NEW k \in DOMAIN c.jobs PROVE DOMAIN c.jobs[k] = {"state", "R"}
  BY <1>4, <1>9 DEF Sound
<1>10. ASSUME NEW r \in Rank, c.booked[r] # Nobody
       PROVE  r \in c.ranks /\ c.booked[r] \in DOMAIN c.jobs /\ c.booked[r] \in c.allocations
  BY <1>1, <1>2, <1>4, <1>7, <1>10 DEF Sound
<1>11. Sound(c)
  BY <1>7, <1>8, <1>9, <1>10, MatchAssumption DEF Sound
<1> QED BY <1>6, <1>11 DEF b, c

\* A match takes ranks that are free, or takes nothing and says why.
LEMMA MatchEffect ==
    ASSUME NEW ctx, Sound(ctx), NEW j \in Job
    PROVE  LET m == run_match(ctx, j, "allocate_with_satisfiability")
           IN  /\ m.err \in {"", "ENODEV", "EBUSY"}
               /\ m.err # "" => m.ctx = ctx
               /\ m.err = "" => Taken(ctx, m.ctx, j, m.R, m.R.ranks) /\ Sound(m.ctx) /\ GoodR(m.R)
<1> DEFINE t == traverser_run(ctx, j, "allocate_with_satisfiability")
           free == {r \in Suits(ctx, j) \cap ctx.up : ctx.booked[r] = Nobody}
           R == Emit(ctx, t.ranks)
           c == track_schedule_info(Book(ctx, j, t.ranks), j, R)
           m == run_match(ctx, j, "allocate_with_satisfiability")
<1>1. t.err \in {"", "ENODEV", "EBUSY"} /\ t.ranks \subseteq free
  BY DEF traverser_run, FirstOf
<1>2. free \subseteq ctx.ranks /\ (\A r \in free : ctx.booked[r] = Nobody) /\ free \subseteq Rank
  BY DEF Suits, Sound
<1>3. m = [err |-> t.err, R |-> R, ctx |-> IF t.err = "" THEN c ELSE ctx]
  BY DEF run_match
<1> HIDE DEF t, free, m
<1>4. GoodR(R) /\ R.ranks = t.ranks
  BY <1>1, <1>2, EmitGood
<1>5. Taken(ctx, c, j, R, t.ranks) /\ Sound(c)
  <2>1. /\ t.ranks \in SUBSET Rank /\ t.ranks \subseteq ctx.ranks
        /\ \A r \in t.ranks : ctx.booked[r] = Nobody
    BY <1>1, <1>2
  <2> HIDE DEF R
  <2> QED BY <2>1, BookAndTrack
<1> HIDE DEF R, c
<1>6. m.err = t.err /\ m.R = R /\ m.ctx = IF t.err = "" THEN c ELSE ctx
  BY <1>3
<1>7. /\ m.err \in {"", "ENODEV", "EBUSY"}
      /\ m.err # "" => m.ctx = ctx
      /\ m.err = "" => Taken(ctx, m.ctx, j, m.R, m.R.ranks) /\ Sound(m.ctx) /\ GoodR(m.R)
  BY <1>1, <1>4, <1>5, <1>6
<1> QED BY <1>7 DEF m

\* An update finds the job with the same R_lite, or takes what its R names, or changes
\* nothing and fails.
LEMMA UpdateEffect ==
    ASSUME NEW ctx, Sound(ctx), NEW j \in Job, NEW R
    PROVE  LET u == update_request_cb(ctx, j, R)
               p == parse_R(R)
               free == p.ok /\ p.ranks \subseteq ctx.ranks /\ \A r \in p.ranks : ctx.booked[r] = Nobody
           IN  /\ j \in DOMAIN ctx.jobs => u.ctx = ctx /\ (u.ok <=> R.ranks = ctx.jobs[j].R.ranks)
               /\ j \notin DOMAIN ctx.jobs /\ ~free => u.ctx = ctx /\ ~u.ok
               /\ j \notin DOMAIN ctx.jobs /\ free =>
                     /\ u.ok /\ Taken(ctx, u.ctx, j, Emit(ctx, p.ranks), p.ranks) /\ Sound(u.ctx)
                     /\ Emit(ctx, p.ranks).ranks = p.ranks
<1> DEFINE u == update_request_cb(ctx, j, R)
           p == parse_R(R)
           free == p.ok /\ p.ranks \subseteq ctx.ranks /\ \A r \in p.ranks : ctx.booked[r] = Nobody
           E == Emit(ctx, p.ranks)
           c == track_schedule_info(Book(ctx, j, p.ranks), j, E)
<1>1. CASE j \in DOMAIN ctx.jobs
  BY <1>1 DEF update_request_cb, is_existent_jobid, Rlite_equal, Done, Error
<1>2. CASE j \notin DOMAIN ctx.jobs /\ ~free
  BY <1>2 DEF update_request_cb, is_existent_jobid, run_update, Error
<1>3. CASE j \notin DOMAIN ctx.jobs /\ free
  <2>1. u = [ok |-> TRUE, ctx |-> c]
    BY <1>3 DEF update_request_cb, is_existent_jobid, run_update, Done
  <2>2. Taken(ctx, c, j, E, p.ranks) /\ Sound(c)
    <3>1. p.ranks \in SUBSET Rank /\ p.ranks \subseteq ctx.ranks /\ \A r \in p.ranks : ctx.booked[r] = Nobody
      BY <1>3 DEF Sound
    <3> HIDE DEF E, p
    <3> QED BY <3>1, BookAndTrack
  <2>3. E.ranks = p.ranks
    BY <1>3, EmitGood DEF Sound
  <2> HIDE DEF E, c, u, p
  <2> QED BY <1>3, <2>1, <2>2, <2>3 DEF u, p, E
<1> QED BY <1>1, <1>2, <1>3

\* What ctx has booked when the job j has released some ranks.
Without(ctx, j, ranks) ==
    [r \in Rank |-> IF ctx.booked[r] = j /\ r \in ranks THEN Nobody ELSE ctx.booked[r]]

\* A context that books only what is there.
Booked(ctx) ==
    /\ DOMAIN ctx = CtxFields /\ ctx.ranks \subseteq Rank
    /\ ctx.booked \in [Rank -> Job \cup {Nobody}] /\ DOMAIN ctx.jobs \subseteq Job
    /\ \A k \in DOMAIN ctx.jobs : DOMAIN ctx.jobs[k] = {"state", "R"}
    /\ \A r \in Rank : ctx.booked[r] # Nobody => r \in ctx.ranks

\* c is ctx when the job j has released some ranks; full: it holds nothing any more.
Removed(ctx, c, j, ranks, full) ==
    /\ Only(ctx, c, {"booked", "jobs"}) /\ c.booked = Without(ctx, j, ranks)
    /\ SameJobs(ctx, c, {j}) /\ DOMAIN c.jobs \subseteq DOMAIN ctx.jobs
    /\ \A k \in DOMAIN c.jobs : DOMAIN c.jobs[k] = {"state", "R"}
    /\ j \in DOMAIN ctx.jobs /\ j \notin DOMAIN c.jobs => full
    /\ full => \A r \in Rank : c.booked[r] # j

\* Removing a job, or its part on some ranks, frees what it holds there; when there is
\* nothing to remove, nothing was held.
LEMMA RemoveEffect ==
    ASSUME NEW ctx, Booked(ctx), NEW j \in Job, NEW ranks, NEW part \in BOOLEAN
    PROVE  LET x == run_remove(ctx, j, ranks, part)
           IN  Removed(ctx, x.ctx, j, IF part THEN ranks ELSE Rank, x.full)
<1> USE DEF Booked
<1> DEFINE mine == Held(ctx, j)
           gone == IF part THEN mine \cap ranks ELSE mine
           ok   == mine # {} /\ (part => ranks \cap ctx.ranks # {})
           b == [r \in Rank |-> IF r \in gone THEN Nobody ELSE ctx.booked[r]]
           left0 == [ctx EXCEPT !.booked = b]
           full == ~part \/ gone = mine
           x == run_remove(ctx, j, ranks, part)
           c == x.ctx
           K == IF part THEN ranks ELSE Rank
           B == Without(ctx, j, K)
<1>0. j # Nobody
  BY MatchAssumption
<1>1. x = IF ~ok THEN [ok |-> FALSE, ctx |-> Errored(ctx, j), full |-> FALSE]
          ELSE [ok |-> TRUE, ctx |-> IF full THEN Forget(left0, j) ELSE left0, full |-> full]
  BY DEF run_remove
<1>2. mine \subseteq ctx.ranks /\ \A r \in Rank : r \in mine <=> ctx.booked[r] = j
  BY <1>0 DEF Held
<1> HIDE DEF mine
<1>3. B = b
  <2>1. ASSUME NEW r \in Rank PROVE B[r] = b[r]
    BY <1>2 DEF Without
  <2> QED BY <2>1 DEF Without
<1> HIDE DEF B, K
<1>4. CASE ~ok
  <2>1. x.ctx = Errored(ctx, j) /\ ~x.full
    BY <1>1, <1>4
  <2>2. b = ctx.booked
    <3>1. \A r \in Rank : r \notin gone
      BY <1>2, <1>4
    <3> QED BY <3>1
  <2> DEFINE e == Errored(ctx, j)
  <2>3. /\ Only(ctx, e, {"jobs"}) /\ DOMAIN e.jobs = DOMAIN ctx.jobs
        /\ \A k \in DOMAIN ctx.jobs : k # j => e.jobs[k] = ctx.jobs[k]
        /\ \A k \in DOMAIN ctx.jobs : DOMAIN e.jobs[k] = {"state", "R"}
    BY DEF Errored, is_existent_jobid, Only, CtxFields
  <2> HIDE DEF e, b, x
  <2>4. e.booked = ctx.booked /\ Only(ctx, e, {"booked", "jobs"})
    BY <2>3 DEF Only, CtxFields
  <2>5. SameJobs(ctx, e, {j})
    BY <2>3 DEF SameJobs
  <2>6. x.ctx = e
    BY <2>1 DEF e
  <2>7. Removed(ctx, x.ctx, j, K, x.full)
    BY <1>3, <2>1, <2>2, <2>3, <2>4, <2>5, <2>6 DEF Removed, B
  <2> QED BY <2>7 DEF x, K
<1>5. CASE ok
  <2>1. /\ DOMAIN left0 = CtxFields /\ left0.booked = b /\ left0.jobs = ctx.jobs
        /\ Only(ctx, left0, {"booked", "jobs"})
    BY DEF Only, CtxFields
  <2> HIDE DEF left0
  <2> DEFINE f == Forget(left0, j)
  <2>2. /\ f.booked = b /\ f.jobs = [k \in DOMAIN ctx.jobs \ {j} |-> ctx.jobs[k]]
        /\ Only(ctx, f, {"booked", "jobs"})
    BY <2>1 DEF Forget, Only, CtxFields
  <2> HIDE DEF f
  <2>3. x.ctx = (IF full THEN f ELSE left0) /\ (x.full <=> full)
    <3>1. x = [ok |-> TRUE, ctx |-> IF full THEN f ELSE left0, full |-> full]
      BY <1>1, <1>5 DEF f
    <3> HIDE DEF x, full
    <3> QED BY <3>1
  <2>4. full => \A r \in Rank : b[r] # j
    BY <1>0, <1>2
  <2> HIDE DEF b, x, full
  <2>5. CASE full
    <3>1. /\ DOMAIN f.jobs = DOMAIN ctx.jobs \ {j} /\ \A k \in DOMAIN f.jobs : f.jobs[k] = ctx.jobs[k]
      BY <2>2
    <3>2. SameJobs(ctx, f, {j})
      BY <3>1 DEF SameJobs
    <3>3. x.ctx = f /\ x.full
      BY <2>3, <2>5
    <3>4. Removed(ctx, x.ctx, j, K, x.full)
      BY <1>3, <2>2, <2>4, <2>5, <3>1, <3>2, <3>3 DEF Removed, B
    <3> QED BY <3>4 DEF x, K
  <2>6. CASE ~full
    <3>1. SameJobs(ctx, left0, {j})
      BY <2>1 DEF SameJobs
    <3>2. x.ctx = left0 /\ ~x.full
      BY <2>3, <2>6
    <3>3. Removed(ctx, x.ctx, j, K, x.full)
      BY <1>3, <2>1, <3>1, <3>2 DEF Removed, B
    <3> QED BY <3>3 DEF x, K
  <2> QED BY <2>5, <2>6
<1> QED BY <1>4, <1>5

\* However the queue manager's release ends, the job holds nothing of what it has
\* released, and nothing else changes: a failure means that there was nothing to free.
LEMMA ReleaseEffect ==
    ASSUME NEW ctx, Sound(ctx), ctx # Off, NEW j \in Job, NEW ranks, NEW final \in BOOLEAN
    PROVE  LET x == IF final THEN reapi_cancel(ctx, j) ELSE reapi_cancel_R(ctx, j, ranks)
               c == x.ctx
           IN  /\ Only(ctx, c, {"booked", "jobs", "allocations"}) /\ SameJobs(ctx, c, {j}) /\ Sound(c)
               /\ c.booked = Without(ctx, j, IF final THEN Rank ELSE ranks)
               /\ x.full => \A r \in Rank : c.booked[r] # j
<1> DEFINE x == IF final THEN reapi_cancel(ctx, j) ELSE reapi_cancel_R(ctx, j, ranks)
           K == IF final THEN Rank ELSE ranks
           B == Without(ctx, j, K)
           F == {"booked", "jobs", "allocations"}
           Goal(c, full) == /\ Only(ctx, c, F) /\ SameJobs(ctx, c, {j}) /\ Sound(c)
                            /\ c.booked = B
                            /\ full => \A r \in Rank : c.booked[r] # j
<1> SUFFICES Goal(x.ctx, x.full)
  OBVIOUS
<1> HIDE DEF x, K, B
<1>0. j # Nobody /\ Booked(ctx)
  BY MatchAssumption DEF Booked, Sound
<1>1. CASE j \notin ctx.allocations
  <2>1. x.ctx = ctx /\ x.full = FALSE
    <3>1. reapi_cancel(ctx, j) = NoEntOk(NoEntry(ctx)) /\ reapi_cancel_R(ctx, j, ranks) = NoEntOk(NoEntry(ctx))
      BY <1>1 DEF reapi_cancel, reapi_cancel_R, cancel_request_cb, partial_cancel_request_cb
    <3>2. NoEntOk(NoEntry(ctx)).ctx = ctx /\ NoEntOk(NoEntry(ctx)).full = FALSE
      BY DEF NoEntOk, NoEntry
    <3> QED BY <3>1, <3>2 DEF x
  <2>2. \A r \in Rank : ctx.booked[r] # j
    BY <1>0, <1>1 DEF Sound
  <2>3. B = ctx.booked
    BY <2>2 DEF Sound, B, Without
  <2>4. Only(ctx, ctx, F) /\ SameJobs(ctx, ctx, {j})
    BY DEF Only, SameJobs, Sound
  <2> QED BY <2>1, <2>3, <2>4
<1>2. CASE j \in ctx.allocations
  <2> DEFINE out == [ctx EXCEPT !.allocations = @ \ {j}]
             a == run_remove(out, j, {}, FALSE)
             p == run_remove(ctx, j, ranks, TRUE)
             q == IF p.full THEN [p EXCEPT !.ctx.allocations = @ \ {j}] ELSE p
  <2>1. x.ctx = (IF final THEN a.ctx ELSE q.ctx) /\ x.full = (IF final THEN a.full ELSE q.full)
    <3>1. reapi_cancel(ctx, j) = NoEntOk(a)
      BY <1>2, Zenon DEF reapi_cancel, cancel_request_cb
    <3>2. reapi_cancel_R(ctx, j, ranks) = NoEntOk(q)
      BY <1>2, Zenon DEF reapi_cancel_R, partial_cancel_request_cb
    <3> HIDE DEF a, q
    <3>3. /\ NoEntOk(a).ctx = a.ctx /\ NoEntOk(a).full = a.full
          /\ NoEntOk(q).ctx = q.ctx /\ NoEntOk(q).full = q.full
      BY DEF NoEntOk
    <3> QED BY <3>1, <3>2, <3>3 DEF x
  <2>2. CASE final
    <3>1. /\ Only(ctx, out, {"allocations"}) /\ out.allocations = ctx.allocations \ {j}
          /\ DOMAIN out = CtxFields /\ out.ranks = ctx.ranks /\ out.booked = ctx.booked /\ out.jobs = ctx.jobs
      BY DEF Only, CtxFields, Sound
    <3> HIDE DEF out
    <3> DEFINE c == a.ctx
    <3>2. Removed(out, c, j, Rank, a.full)
      <4>1. Booked(out)
        BY <1>0, <3>1 DEF Booked
      <4>2. PICK t \in BOOLEAN : t = FALSE
        OBVIOUS
      <4>3. a = run_remove(out, j, {}, t)
        BY <4>2
      <4>4. Rank = IF t THEN {} ELSE Rank
        BY <4>2
      <4> HIDE DEF a
      <4>5. Removed(out, c, j, IF t THEN {} ELSE Rank, a.full)
        BY <4>1, <4>3, RemoveEffect
      <4> QED BY <4>4, <4>5
    <3> HIDE DEF a
    <3>3. c.booked = B
      BY <2>2, <3>1, <3>2 DEF Removed, Without, B, K
    <3>4. Only(ctx, c, F) /\ c.allocations = ctx.allocations \ {j}
      BY <3>1, <3>2 DEF Only, CtxFields, Removed
    <3>5. SameJobs(ctx, c, {j})
      BY <3>1, <3>2 DEF SameJobs, Removed
    <3>6. DOMAIN c = CtxFields /\ c.initialized /\ c.root /\ c.ranks = ctx.ranks /\ DOMAIN c.jobs \subseteq Job
      BY <3>1, <3>2, <3>4 DEF Only, CtxFields, Sound, Removed
    <3>7. c.booked \in [Rank -> Job \cup {Nobody}] /\ c.allocations \subseteq Job
      BY <3>3, <3>4 DEF Sound, B, Without
    <3>8. ASSUME NEW r \in Rank, c.booked[r] # Nobody
          PROVE  r \in c.ranks /\ c.booked[r] \in DOMAIN c.jobs /\ c.booked[r] \in c.allocations
      <4>1. c.booked[r] = ctx.booked[r] /\ c.booked[r] # j
        BY <2>2, <3>3, <3>8 DEF B, Without, K
      <4> QED BY <3>4, <3>5, <3>6, <3>8, <4>1 DEF Sound, SameJobs
    <3>9. Sound(c)
      BY <3>2, <3>6, <3>7, <3>8 DEF Sound, Removed
    <3>10. x.ctx = c /\ x.full = a.full
      BY <2>1, <2>2
    <3> HIDE DEF c
    <3> QED BY <3>2, <3>3, <3>4, <3>5, <3>9, <3>10 DEF Removed
  <2>3. CASE ~final
    <3> DEFINE d == p.ctx
               c == q.ctx
    <3>1. Removed(ctx, d, j, ranks, p.full)
      <4>2. PICK t \in BOOLEAN : t = TRUE
        OBVIOUS
      <4>3. p = run_remove(ctx, j, ranks, t)
        BY <4>2
      <4>4. ranks = IF t THEN ranks ELSE Rank
        BY <4>2
      <4> HIDE DEF p
      <4>5. Removed(ctx, d, j, IF t THEN ranks ELSE Rank, p.full)
        BY <1>0, <4>3, RemoveEffect
      <4> QED BY <4>4, <4>5
    <3>3. DOMAIN p = {"ok", "ctx", "full"}
      BY DEF run_remove
    <3> HIDE DEF p
    <3>4. /\ Only(d, c, {"allocations"}) /\ q.full = p.full
          /\ c.allocations = IF p.full THEN d.allocations \ {j} ELSE d.allocations
      BY <3>1, <3>3 DEF Only, CtxFields, Removed
    <3> HIDE DEF q, d, c
    <3>5. /\ Only(ctx, c, F) /\ c.booked = B /\ c.jobs = d.jobs /\ d.allocations = ctx.allocations
          /\ d.booked = c.booked
      BY <2>3, <3>1, <3>4 DEF Only, CtxFields, Removed, B, K
    <3>6. SameJobs(ctx, c, {j})
      BY <3>1, <3>5 DEF SameJobs, Removed
    <3>7. DOMAIN c = CtxFields /\ c.initialized /\ c.root /\ c.ranks = ctx.ranks /\ DOMAIN c.jobs \subseteq Job
      BY <3>1, <3>5 DEF Only, CtxFields, Sound, Removed
    <3>8. c.booked \in [Rank -> Job \cup {Nobody}] /\ c.allocations \subseteq Job
      BY <3>4, <3>5 DEF Sound, B, Without
    <3>9. ASSUME NEW r \in Rank, c.booked[r] # Nobody
          PROVE  r \in c.ranks /\ c.booked[r] \in DOMAIN c.jobs /\ c.booked[r] \in c.allocations
      <4>1. c.booked[r] = ctx.booked[r]
        BY <2>3, <3>5, <3>9 DEF B, Without
      <4>2. CASE c.booked[r] # j
        BY <3>4, <3>5, <3>6, <3>7, <3>9, <4>1, <4>2 DEF Sound, SameJobs
      <4>3. CASE c.booked[r] = j
        BY <3>1, <3>4, <3>5, <3>7, <3>9, <4>1, <4>3 DEF Sound, Removed
      <4> QED BY <4>2, <4>3
    <3>10. Sound(c)
      BY <3>1, <3>5, <3>7, <3>8, <3>9 DEF Sound, Removed
    <3>11. x.ctx = c /\ x.full = q.full
      BY <2>1, <2>3 DEF c
    <3> QED BY <3>1, <3>4, <3>5, <3>6, <3>10, <3>11 DEF Removed
  <2> QED BY <2>2, <2>3
<1> QED BY <1>1, <1>2

-----------------------------------------------------------------------------
(***************************************************************************)
(* A request for several jobs: what match_multi gives and what it leaves.  *)
(***************************************************************************)
\* The R of an answer; only that of a success is one.
GivenR ==
    [ranks : SUBSET Rank, start : {0}, end : {0}, writer : {"none", "jgf", "jgf_shorthand"},
     key : SUBSET Rank, free : SUBSET Rank] \cup {NoR}

\* The answer for one job.
Result ==
    [j : Job \cup {Nobody}, err : {"", "EINVAL", "ENODEV", "EBUSY", "ENODATA"},
     R : GivenR]

\* Between ctx and c the job j was given R, of ranks that were free.
Gave(ctx, c, j, R) ==
    /\ GoodR(R) /\ j \in Job /\ j \notin DOMAIN ctx.jobs /\ j \in DOMAIN c.jobs /\ c.jobs[j].R = R
    /\ \A r \in Rank : c.booked[r] = j <=> r \in R.ranks
    /\ \A r \in R.ranks : r \in ctx.ranks /\ ctx.booked[r] = Nobody

\* The answers that gave something.
Successes(out) == {i \in 1..Len(out) : out[i].err = ""}

\* What has changed between ctx and c is what the answers out say.
Accounted(ctx, c, out) ==
    /\ Sound(c) /\ Only(ctx, c, {"booked", "jobs", "allocations"})
    /\ \A i \in Successes(out) : Gave(ctx, c, out[i].j, out[i].R)
    /\ \A r \in Rank : c.booked[r] # ctx.booked[r] => \E i \in Successes(out) : r \in out[i].R.ranks
    /\ SameJobs(ctx, c, {out[i].j : i \in Successes(out)})

\* What holds of an accumulator of match_multi when k jobs have been looked at.
MatchInv(ctx, jobs, k, c, out, over) ==
    /\ Accounted(ctx, c, out)
    /\ Len(out) \in Nat /\ Len(out) <= k
    /\ \A i \in 1..Len(out) : /\ out[i].j = jobs[i] /\ out[i].err # "ENODATA"
                              /\ i < Len(out) => out[i].err = ""
    /\ ~over => Len(out) = k /\ \A i \in 1..Len(out) : out[i].err = ""

\* Forgetting a job that is not known changes nothing but the look of the table.
LEMMA ForgetNothing ==
    ASSUME NEW ctx, Sound(ctx), NEW j \in Job, j \notin DOMAIN ctx.jobs
    PROVE  LET c == Forget(ctx, j)
           IN  Sound(c) /\ Only(ctx, c, {"jobs"}) /\ SameJobs(ctx, c, {})
<1> DEFINE c == Forget(ctx, j)
<1>1. Only(ctx, c, {"jobs"}) /\ c.jobs = [k \in DOMAIN ctx.jobs \ {j} |-> ctx.jobs[k]]
  BY DEF Forget, Only, CtxFields, Sound
<1> HIDE DEF c
<1>2. DOMAIN c.jobs = DOMAIN ctx.jobs /\ \A k \in DOMAIN ctx.jobs : c.jobs[k] = ctx.jobs[k]
  BY <1>1
<1>3. /\ DOMAIN c = CtxFields /\ c.initialized /\ c.root /\ c.ranks = ctx.ranks /\ c.booked = ctx.booked
      /\ c.allocations = ctx.allocations
  BY <1>1 DEF Only, CtxFields, Sound
<1>4. Sound(c)
  BY <1>2, <1>3 DEF Sound
<1>5. SameJobs(ctx, c, {})
  BY <1>2 DEF SameJobs
<1> QED BY <1>1, <1>4, <1>5 DEF c

\* new is out with one more element.
Extended(out, new) ==
    Len(out) \in Nat /\ Len(new) = Len(out) + 1 /\ \A i \in 1..Len(out) : new[i] = out[i]

\* A sequence with one more element.
LEMMA Appended ==
    ASSUME NEW S, NEW s \in Seq(S), NEW x \in S
    PROVE  Append(s, x) \in Seq(S) /\ Extended(s, Append(s, x)) /\ Append(s, x)[Len(s) + 1] = x
  BY DEF Extended

\* The answers that gave something, with one more answer.
LEMMA ExtendedSuccesses ==
    ASSUME NEW out, NEW new, Extended(out, new)
    PROVE  /\ Successes(new) = Successes(out) \cup (IF new[Len(out) + 1].err = "" THEN {Len(out) + 1} ELSE {})
           /\ \A i \in Successes(out) : i \in 1..Len(out) /\ new[i] = out[i]
<1> DEFINE n == Len(out)
<1>0. n \in Nat /\ Len(new) = n + 1
  BY DEF Extended
<1>1. ASSUME NEW i PROVE i \in 1..(n + 1) <=> i \in 1..n \/ i = n + 1
  BY <1>0
<1>2. n + 1 \notin 1..n
  BY <1>0
<1> HIDE DEF n
<1>3. Successes(new) = {i \in 1..(n + 1) : new[i].err = ""} /\ Successes(out) = {i \in 1..n : out[i].err = ""}
  BY <1>0 DEF Successes, n
<1>4. \A i \in 1..n : new[i] = out[i]
  BY DEF n, Extended
<1>5. Successes(new) = Successes(out) \cup (IF new[n + 1].err = "" THEN {n + 1} ELSE {})
  BY <1>1, <1>2, <1>3, <1>4
<1> QED BY <1>3, <1>4, <1>5 DEF n

\* A job that is refused is accounted for with nothing.
LEMMA AccountedRefusal ==
    ASSUME NEW ctx, NEW c, NEW d, NEW out, NEW new, Accounted(ctx, c, out),
           Sound(d), Only(c, d, {"jobs"}), SameJobs(c, d, {}), Extended(out, new),
           new[Len(out) + 1].err # ""
    PROVE  Accounted(ctx, d, new)
<1>2. Successes(new) = Successes(out) /\ \A i \in Successes(out) : new[i] = out[i]
  <2>1. /\ Successes(new) = Successes(out) \cup (IF new[Len(out) + 1].err = "" THEN {Len(out) + 1} ELSE {})
        /\ \A i \in Successes(out) : i \in 1..Len(out) /\ new[i] = out[i]
    BY ExtendedSuccesses
  <2> QED BY <2>1
<1>3. Only(ctx, d, {"booked", "jobs", "allocations"}) /\ d.booked = c.booked
  BY DEF Accounted, Only, CtxFields
<1>4. ASSUME NEW i \in Successes(out) PROVE Gave(ctx, d, out[i].j, out[i].R)
  <2>1. Gave(ctx, c, out[i].j, out[i].R)
    BY <1>4 DEF Accounted
  <2>2. out[i].j \in DOMAIN d.jobs /\ d.jobs[out[i].j].R = out[i].R
    BY <2>1 DEF Gave, SameJobs
  <2> QED BY <1>3, <2>1, <2>2 DEF Gave
<1>5. {new[i].j : i \in Successes(new)} = {out[i].j : i \in Successes(out)}
  BY <1>2
<1>6. SameJobs(ctx, d, {out[i].j : i \in Successes(out)})
  BY DEF SameJobs, Accounted
<1>7. \A i \in Successes(new) : Gave(ctx, d, new[i].j, new[i].R)
  BY <1>2, <1>4
<1>8. \A r \in Rank : d.booked[r] # ctx.booked[r] => \E i \in Successes(new) : r \in new[i].R.ranks
  BY <1>2, <1>3 DEF Accounted
<1> QED BY <1>2, <1>3, <1>5, <1>6, <1>7, <1>8 DEF Accounted

\* new has one more answer than out: the job j was given R.
GivesLast(out, new, j, R) ==
    /\ Extended(out, new) /\ new[Len(out) + 1].err = "" /\ new[Len(out) + 1].j = j
    /\ new[Len(out) + 1].R = R

\* A job that is given something new is accounted for, and those before it still are.
LEMMA AccountedMatch ==
    ASSUME NEW ctx, NEW c, NEW d, NEW out, NEW new, NEW j \in Job, NEW R, Accounted(ctx, c, out),
           GivesLast(out, new, j, R),
           Sound(ctx), Sound(d), Taken(c, d, j, R, R.ranks), GoodR(R), j \notin DOMAIN c.jobs
    PROVE  Accounted(ctx, d, new)
<1> DEFINE n == Len(out)
<1>1. n \in Nat /\ new[n + 1].j = j /\ new[n + 1].R = R
  BY DEF GivesLast, Extended
<1>2. Successes(new) = Successes(out) \cup {n + 1} /\ \A i \in Successes(out) : new[i] = out[i]
  BY ExtendedSuccesses DEF GivesLast
<1> HIDE DEF n
<1>3. Only(ctx, d, {"booked", "jobs", "allocations"}) /\ c.ranks = ctx.ranks /\ Sound(c)
  BY DEF Accounted, Taken, Only, CtxFields
<1>4. R.ranks \subseteq Rank /\ j # Nobody
  BY MatchAssumption DEF GoodR
<1>5. \A r \in Rank : d.booked[r] = IF r \in R.ranks THEN j ELSE c.booked[r]
  BY DEF Taken
<1>6. \A r \in Rank : c.booked[r] # j
  BY <1>3, <1>4 DEF Sound
<1>7. \A r \in R.ranks : r \in ctx.ranks /\ c.booked[r] = Nobody
  BY <1>3 DEF Taken
<1>8. ASSUME NEW i \in Successes(out) PROVE Gave(ctx, d, out[i].j, out[i].R)
  <2>1. Gave(ctx, c, out[i].j, out[i].R)
    BY <1>8 DEF Accounted
  <2>2. out[i].j # j /\ out[i].j # Nobody
    BY <2>1, MatchAssumption DEF Gave
  <2>3. out[i].j \in DOMAIN d.jobs /\ d.jobs[out[i].j].R = out[i].R
    BY <2>1, <2>2 DEF Taken, SameJobs, Gave
  <2>4. \A r \in Rank : d.booked[r] = out[i].j <=> c.booked[r] = out[i].j
    BY <1>5, <1>7, <2>2
  <2> QED BY <2>1, <2>3, <2>4 DEF Gave
<1>9. \A r \in Rank : ctx.booked[r] # Nobody => c.booked[r] # Nobody
  <2> SUFFICES ASSUME NEW r \in Rank, ctx.booked[r] # Nobody, c.booked[r] = Nobody PROVE FALSE
    OBVIOUS
  <2>1. PICK i \in Successes(out) : r \in out[i].R.ranks
    BY DEF Accounted
  <2> QED BY <2>1 DEF Accounted, Gave
<1>10. Gave(ctx, d, j, R)
  <2>1. j \notin DOMAIN ctx.jobs
    <3>1. ASSUME j \in DOMAIN ctx.jobs PROVE FALSE
      <4>1. j \in {out[i].j : i \in Successes(out)}
        BY <3>1 DEF Accounted, SameJobs
      <4>2. PICK i \in Successes(out) : j = out[i].j
        BY <4>1
      <4> QED BY <4>2 DEF Accounted, Gave
    <3> QED BY <3>1
  <2>2. j \in DOMAIN d.jobs /\ d.jobs[j].R = R
    BY DEF Taken
  <2>3. \A r \in Rank : d.booked[r] = j <=> r \in R.ranks
    BY <1>5, <1>6
  <2>4. \A r \in R.ranks : r \in ctx.ranks /\ ctx.booked[r] = Nobody
    BY <1>4, <1>7, <1>9
  <2> QED BY <2>1, <2>2, <2>3, <2>4 DEF Gave
<1>11. ASSUME NEW r \in Rank, d.booked[r] # ctx.booked[r]
       PROVE  \E i \in Successes(new) : r \in new[i].R.ranks
  BY <1>1, <1>2, <1>5, <1>11 DEF Accounted
<1>12. {new[i].j : i \in Successes(new)} = {out[i].j : i \in Successes(out)} \cup {j}
  BY <1>1, <1>2
<1>13. SameJobs(ctx, d, {out[i].j : i \in Successes(out)} \cup {j})
  <2> DEFINE S == {out[i].j : i \in Successes(out)}
  <2>1. SameJobs(ctx, c, S) /\ SameJobs(c, d, {j})
    BY DEF Accounted, Taken
  <2> HIDE DEF S
  <2>2. SameJobs(ctx, d, S \cup {j})
    BY <2>1 DEF SameJobs
  <2> QED BY <2>2 DEF S
<1>14. ASSUME NEW i \in Successes(new) PROVE Gave(ctx, d, new[i].j, new[i].R)
  BY <1>1, <1>2, <1>8, <1>10, <1>14
<1> QED BY <1>3, <1>11, <1>12, <1>13, <1>14 DEF Accounted

\* new has one more answer than out, for the job j; it is the last one when it is an error.
Answers(out, new, j, last) ==
    /\ Extended(out, new) /\ new[Len(out) + 1].j = j /\ new[Len(out) + 1].err # "ENODATA"
    /\ last \/ new[Len(out) + 1].err = ""

\* One more answer, after those that were given without an error.
LEMMA MatchInvMore ==
    ASSUME NEW ctx, NEW jobs, NEW k \in Nat, NEW c, NEW out, NEW over \in BOOLEAN, ~over,
           MatchInv(ctx, jobs, k, c, out, over),
           NEW d, NEW new, NEW last \in BOOLEAN, Answers(out, new, jobs[k + 1], last),
           Accounted(ctx, d, new)
    PROVE  MatchInv(ctx, jobs, k + 1, d, new, last)
<1> DEFINE N == Len(new)
<1>1. Len(out) = k /\ Extended(out, new) /\ \A i \in 1..Len(out) : out[i].err = "" /\ out[i].j = jobs[i]
  BY DEF MatchInv, Answers
<1>2. N = k + 1
  BY <1>1 DEF Extended
<1>3. \A i \in 1..k : new[i].err = "" /\ new[i].j = jobs[i]
  BY <1>1 DEF Extended
<1>4. new[k + 1].j = jobs[k + 1] /\ new[k + 1].err # "ENODATA" /\ (last \/ new[k + 1].err = "")
  BY <1>1 DEF Answers
<1> HIDE DEF N
<1>5. N \in Nat /\ N <= k + 1
  BY <1>2
<1>6. ASSUME NEW i \in 1..N PROVE i \in 1..k \/ (i = k + 1 /\ ~(i < N))
  BY <1>2, <1>6
<1>7. ASSUME NEW i \in 1..N
      PROVE  /\ new[i].j = jobs[i] /\ new[i].err # "ENODATA" /\ (i < N => new[i].err = "")
             /\ ~last => new[i].err = ""
  BY <1>3, <1>4, <1>6, <1>7
<1> QED BY <1>2, <1>5, <1>7 DEF MatchInv, N

\* One more job (match_one): the accumulator goes on to account for what has changed.
LEMMA MatchInvStep ==
    ASSUME NEW ctx, Sound(ctx), NEW jobs, NEW k \in Nat, jobs[k + 1] \in Job, NEW a,
           DOMAIN a = {"ctx", "out", "over"}, a.over \in BOOLEAN, a.out \in Seq(Result),
           MatchInv(ctx, jobs, k, a.ctx, a.out, a.over)
    PROVE  LET b == match_one(a, jobs[k + 1])
           IN  /\ DOMAIN b = {"ctx", "out", "over"} /\ b.over \in BOOLEAN /\ b.out \in Seq(Result)
               /\ MatchInv(ctx, jobs, k + 1, b.ctx, b.out, b.over)
<1> DEFINE j == jobs[k + 1]
           b == match_one(a, j)
           c == a.ctx
           out == a.out
           over == a.over
           m == run_match(c, j, "allocate_with_satisfiability")
           F == {"ctx", "out", "over"}
<1> SUFFICES /\ DOMAIN b = F /\ b.over \in BOOLEAN /\ b.out \in Seq(Result)
             /\ MatchInv(ctx, jobs, k + 1, b.ctx, b.out, b.over)
  OBVIOUS
<1>0. j \in Job /\ over \in BOOLEAN /\ MatchInv(ctx, jobs, k, c, out, over)
  OBVIOUS
<1>a. out \in Seq(Result)
  OBVIOUS
<1>1. CASE over
  <2>1. b = a
    BY <1>1 DEF match_one
  <2> HIDE DEF j, c, out, over, b
  <2>2. MatchInv(ctx, jobs, k + 1, c, out, over)
    <3>1. Len(out) \in Nat /\ Len(out) <= k
      BY <1>0 DEF MatchInv
    <3>2. Len(out) <= k + 1
      BY <3>1
    <3> QED BY <1>0, <1>1, <3>2 DEF MatchInv
  <2> QED BY <1>a, <2>1, <2>2 DEF c, out, over
<1>2. CASE ~over /\ is_existent_jobid(c, j)
  <2> DEFINE x == [j |-> j, err |-> "EINVAL", R |-> NoR]
             new == Append(out, x)
  <2>1. b = [a EXCEPT !.over = TRUE, !.out = new]
    BY <1>2 DEF match_one
  <2>2. x.j = j /\ x.err = "EINVAL"
    OBVIOUS
  <2>3. x \in Result
    BY <1>0 DEF Result, GivenR
  <2> HIDE DEF x, new
  <2>4. DOMAIN b = F /\ b.over = TRUE /\ b.out = new /\ b.ctx = c
    BY <2>1
  <2> HIDE DEF j, c, out, over, b
  <2>5. Sound(c) /\ Accounted(ctx, c, out)
    BY <1>0 DEF MatchInv, Accounted
  <2>a. new \in Seq(Result) /\ Extended(out, new) /\ new[Len(out) + 1] = x
    BY <1>a, <2>3, Appended DEF new
  <2>6. Extended(out, new)
    BY <2>a
  <2>7. new[Len(out) + 1].j = j /\ new[Len(out) + 1].err = "EINVAL"
    BY <2>2, <2>a
  <2>8. Only(c, c, {"jobs"}) /\ SameJobs(c, c, {})
    BY <2>5 DEF Only, SameJobs, Sound
  <2>9. Accounted(ctx, c, new)
    BY <2>5, <2>6, <2>7, <2>8, AccountedRefusal
  <2>10. MatchInv(ctx, jobs, k + 1, c, new, TRUE)
    <3>1. PICK t \in BOOLEAN : t = TRUE
      OBVIOUS
    <3>2. MatchInv(ctx, jobs, k + 1, c, new, t)
      <4>1. Answers(out, new, jobs[k + 1], t)
        BY <2>6, <2>7, <3>1 DEF Answers, j
      <4> QED BY <1>0, <1>2, <2>9, <4>1, MatchInvMore
    <3> QED BY <3>1, <3>2
  <2> QED BY <2>a, <2>4, <2>10
<1>3. CASE ~over /\ ~is_existent_jobid(c, j) /\ m.err # ""
  <2> DEFINE e == m.err
             x == [j |-> j, err |-> e, R |-> NoR]
             new == Append(out, x)
             d == IF e = "EBUSY" THEN Forget(m.ctx, j) ELSE m.ctx
  <2>1. b = [over |-> TRUE, out |-> new, ctx |-> d]
    BY <1>3 DEF match_one
  <2> HIDE DEF j, c, out, over, b
  <2>2. Sound(c) /\ Accounted(ctx, c, out) /\ j \notin DOMAIN c.jobs
    BY <1>0, <1>3 DEF MatchInv, Accounted, is_existent_jobid
  <2>3. e \in {"", "ENODEV", "EBUSY"} /\ (e # "" => m.ctx = c)
    BY <1>0, <2>2, MatchEffect
  <2> HIDE DEF e, m
  <2>a. x \in Result
    BY <1>0, <2>3 DEF Result, GivenR
  <2>4. x.j = j /\ x.err = e
    OBVIOUS
  <2>5. Sound(d) /\ Only(c, d, {"jobs"}) /\ SameJobs(c, d, {})
    <3>1. CASE e = "EBUSY"
      BY <1>0, <2>2, <2>3, <3>1, ForgetNothing
    <3>2. CASE e # "EBUSY"
      BY <1>3, <2>2, <2>3, <3>2 DEF Only, SameJobs, Sound, e
    <3> QED BY <3>1, <3>2
  <2> HIDE DEF x, new, d
  <2>6. DOMAIN b = F /\ b.over = TRUE /\ b.out = new /\ b.ctx = d
    BY <2>1
  <2>b. new \in Seq(Result) /\ Extended(out, new) /\ new[Len(out) + 1] = x
    BY <1>a, <2>a, Appended DEF new
  <2>7. Extended(out, new)
    BY <2>b
  <2>8. new[Len(out) + 1].j = j /\ new[Len(out) + 1].err = e
    BY <2>4, <2>b
  <2>9. Accounted(ctx, d, new)
    <3>1. new[Len(out) + 1].err # ""
      BY <1>3, <2>8 DEF e
    <3> QED BY <2>2, <2>5, <2>7, <3>1, AccountedRefusal
  <2>10. MatchInv(ctx, jobs, k + 1, d, new, TRUE)
    <3>1. PICK t \in BOOLEAN : t = TRUE
      OBVIOUS
    <3>2. new[Len(out) + 1].err # "ENODATA"
      BY <2>3, <2>8
    <3>3. MatchInv(ctx, jobs, k + 1, d, new, t)
      <4>1. Answers(out, new, jobs[k + 1], t)
        BY <2>7, <2>8, <3>1, <3>2 DEF Answers, j
      <4> QED BY <1>0, <1>3, <2>9, <4>1, MatchInvMore
    <3> QED BY <3>1, <3>3
  <2> QED BY <2>b, <2>6, <2>10
<1>4. CASE ~over /\ ~is_existent_jobid(c, j) /\ m.err = ""
  <2> DEFINE R == m.R
             d == m.ctx
             x == [j |-> j, err |-> "", R |-> R]
             new == Append(out, x)
  <2>1. b = [over |-> FALSE, out |-> new, ctx |-> d]
    BY <1>4 DEF match_one
  <2> HIDE DEF j, c, out, over, b
  <2>2. Sound(c) /\ Accounted(ctx, c, out) /\ j \notin DOMAIN c.jobs
    BY <1>0, <1>4 DEF MatchInv, Accounted, is_existent_jobid
  <2>3. Taken(c, d, j, R, R.ranks) /\ Sound(d) /\ GoodR(R)
    BY <1>0, <1>4, <2>2, MatchEffect
  <2> HIDE DEF R, d, m
  <2>a. x \in Result
    BY <1>0, <2>3 DEF Result, GivenR, GoodR
  <2>4. x.j = j /\ x.err = "" /\ x.R = R
    OBVIOUS
  <2> HIDE DEF x, new
  <2>5. DOMAIN b = F /\ b.over = FALSE /\ b.out = new /\ b.ctx = d
    BY <2>1
  <2>b. new \in Seq(Result) /\ Extended(out, new) /\ new[Len(out) + 1] = x
    BY <1>a, <2>a, Appended DEF new
  <2>6. Extended(out, new)
    BY <2>b
  <2>7. new[Len(out) + 1].j = j /\ new[Len(out) + 1].err = "" /\ new[Len(out) + 1].R = R
    BY <2>4, <2>b
  <2>8. Accounted(ctx, d, new)
    <3>1. GivesLast(out, new, j, R)
      BY <2>6, <2>7 DEF GivesLast
    <3> QED BY <1>0, <2>2, <2>3, <3>1, AccountedMatch
  <2>9. MatchInv(ctx, jobs, k + 1, d, new, FALSE)
    <3>1. PICK t \in BOOLEAN : t = FALSE
      OBVIOUS
    <3>2. MatchInv(ctx, jobs, k + 1, d, new, t)
      <4>1. Answers(out, new, jobs[k + 1], t)
        BY <2>6, <2>7 DEF Answers, j
      <4> QED BY <1>0, <1>4, <2>8, <4>1, MatchInvMore
    <3> QED BY <3>1, <3>2
  <2> QED BY <2>b, <2>5, <2>9
<1> QED BY <1>1, <1>2, <1>3, <1>4

\* An accumulator of match_multi when k jobs have been looked at.
Accumulator(ctx, jobs, k, a) ==
    /\ DOMAIN a = {"ctx", "out", "over"} /\ a.over \in BOOLEAN /\ a.out \in Seq(Result)
    /\ MatchInv(ctx, jobs, k, a.ctx, a.out, a.over)

\* What match_multi answers: one answer for each job in order, of which only the last
\* may be an error, or the end of the answers.
Matched(ctx, jobs, c, out) ==
    /\ Accounted(ctx, c, out) /\ Len(out) \in Nat
    /\ \A i \in 1..Len(out) :
          /\ out[i].err = "ENODATA" => out[i].j = Nobody
          /\ out[i].err # "ENODATA" => i <= Len(jobs) /\ out[i].j = jobs[i]
          /\ i < Len(out) => out[i].err = ""

\* Nothing has been matched yet.
LEMMA FirstAccumulator ==
    ASSUME NEW ctx, Sound(ctx), NEW jobs
    PROVE  Accumulator(ctx, jobs, 0, [ctx |-> ctx, out |-> << >>, over |-> FALSE])
<1>1. << >> \in Seq(Result) /\ Len(<< >>) = 0
  OBVIOUS
<1> DEFINE e == << >>
<1> HIDE DEF e
<1>2. Len(e) = 0
  BY <1>1 DEF e
<1>3. 1..Len(e) = {}
  BY <1>2
<1>4. Successes(e) = {}
  BY <1>3 DEF Successes
<1>5. Only(ctx, ctx, {"booked", "jobs", "allocations"}) /\ SameJobs(ctx, ctx, {e[i].j : i \in Successes(e)})
  BY DEF Only, SameJobs, Sound
<1>6. Accounted(ctx, ctx, e)
  BY <1>4, <1>5 DEF Accounted
<1>7. PICK f \in BOOLEAN : f = FALSE
  OBVIOUS
<1>8. MatchInv(ctx, jobs, 0, ctx, e, f)
  BY <1>2, <1>3, <1>6 DEF MatchInv
<1> DEFINE a == [ctx |-> ctx, out |-> e, over |-> f]
<1>9. a.ctx = ctx /\ a.out = e /\ a.over = f /\ DOMAIN a = {"ctx", "out", "over"}
  OBVIOUS
<1>10. e \in Seq(Result)
  BY <1>1 DEF e
<1>11. a = [ctx |-> ctx, out |-> << >>, over |-> FALSE]
  BY <1>7 DEF e
<1> HIDE DEF a
<1>12. Accumulator(ctx, jobs, 0, a)
  BY <1>8, <1>9, <1>10 DEF Accumulator
<1> QED BY <1>11, <1>12

\* One job after the other.
LEMMA LastAccumulator ==
    ASSUME NEW ctx, Sound(ctx), NEW jobs, NEW n \in Nat, NEW h, Accumulator(ctx, jobs, 0, h[0]),
           \A k \in 1..n : jobs[k] \in Job /\ h[k] = match_one(h[k - 1], jobs[k])
    PROVE  Accumulator(ctx, jobs, n, h[n])
<1> DEFINE B == {k \in 0..n : ~Accumulator(ctx, jobs, k, h[k])}
<1>1. ASSUME B # {} PROVE FALSE
  <2>1. B \subseteq Nat
    OBVIOUS
  <2>2. PICK k \in B : \A i \in B : k <= i
    BY <1>1, <2>1, LeastIndex
  <2>3. k \in 0..n /\ ~Accumulator(ctx, jobs, k, h[k]) /\ k # 0
    BY <2>2
  <2> DEFINE p == k - 1
  <2>4. p \in Nat /\ p \in 0..n /\ p + 1 = k /\ k \in 1..n /\ ~(k <= p)
    BY <2>3
  <2>5. p \notin B
    BY <2>2, <2>4
  <2>6. Accumulator(ctx, jobs, p, h[p])
    BY <2>4, <2>5
  <2> HIDE DEF B
  <2>7. jobs[p + 1] \in Job /\ h[p + 1] = match_one(h[p], jobs[p + 1])
    BY <2>4
  <2> HIDE DEF p
  <2> DEFINE a == h[p]
  <2>8. /\ DOMAIN a = {"ctx", "out", "over"} /\ a.over \in BOOLEAN /\ a.out \in Seq(Result)
        /\ MatchInv(ctx, jobs, p, a.ctx, a.out, a.over)
    BY <2>6 DEF Accumulator
  <2> HIDE DEF a
  <2> DEFINE b == match_one(a, jobs[p + 1])
  <2>9. /\ DOMAIN b = {"ctx", "out", "over"} /\ b.over \in BOOLEAN /\ b.out \in Seq(Result)
        /\ MatchInv(ctx, jobs, p + 1, b.ctx, b.out, b.over)
    BY <2>4, <2>7, <2>8, MatchInvStep
  <2> HIDE DEF b
  <2>10. Accumulator(ctx, jobs, p + 1, b)
    BY <2>9 DEF Accumulator
  <2> QED BY <2>3, <2>4, <2>7, <2>10 DEF a, b
<1>2. n \in 0..n /\ n \notin B
  BY <1>1
<1> QED BY <1>2

\* match_multi answers for the jobs in order, and what has changed is what it answered.
LEMMA MatchesEffect ==
    ASSUME NEW ctx, Sound(ctx), NEW jobs \in Seq(Job)
    PROVE  LET r == match_multi(ctx, jobs)
           IN  r.out \in Seq(Result) /\ Matched(ctx, jobs, r.ctx, r.out)
<1> DEFINE n == Len(jobs)
           z == [j |-> Nobody, err |-> "ENODATA", R |-> NoR]
           r == match_multi(ctx, jobs)
<1>1. PICK h : /\ h[0] = [ctx |-> ctx, out |-> << >>, over |-> FALSE]
               /\ \A k \in 1..n : h[k] = match_one(h[k - 1], jobs[k])
               /\ r = [ctx |-> h[n].ctx, out |-> IF h[n].over THEN h[n].out ELSE Append(h[n].out, z)]
  BY RunOfMatches
<1>2. n \in Nat /\ \A k \in 1..n : jobs[k] \in Job
  OBVIOUS
<1>3. z \in Result /\ z.j = Nobody /\ z.err = "ENODATA"
  BY DEF Result, GivenR
<1> HIDE DEF n, z, r
<1>4. Accumulator(ctx, jobs, 0, h[0])
  BY <1>1, FirstAccumulator
<1>5. Accumulator(ctx, jobs, n, h[n])
  BY <1>1, <1>2, <1>4, LastAccumulator
<1> DEFINE a == h[n]
           c == a.ctx
           out == a.out
           over == a.over
           new == Append(out, z)
<1>6. over \in BOOLEAN /\ out \in Seq(Result) /\ MatchInv(ctx, jobs, n, c, out, over)
  BY <1>5 DEF Accumulator
<1>7. r = [ctx |-> c, out |-> IF over THEN out ELSE new]
  BY <1>1
<1>8. r.ctx = c /\ r.out = IF over THEN out ELSE new
  BY <1>7
<1> HIDE DEF a, c, out, over, new
<1>9. CASE over
  <2>1. Matched(ctx, jobs, c, out)
    <3> DEFINE N == Len(out)
    <3> HIDE DEF N
    <3>1. N \in Nat /\ N <= n
      BY <1>6 DEF MatchInv, N
    <3>2. ASSUME NEW i \in 1..N PROVE i <= n
      BY <1>2, <3>1
    <3>3. /\ Accounted(ctx, c, out)
          /\ \A i \in 1..N : out[i].j = jobs[i] /\ out[i].err # "ENODATA" /\ (i < N => out[i].err = "")
      BY <1>6 DEF MatchInv, N
    <3> QED BY <3>1, <3>2, <3>3 DEF Matched, N, n
  <2> QED BY <1>6, <1>8, <1>9, <2>1 DEF r
<1>10. CASE ~over
  <2>1. new \in Seq(Result) /\ Extended(out, new) /\ new[Len(out) + 1] = z
    BY <1>3, <1>6, Appended DEF new
  <2>2. Len(out) = n /\ Len(new) = n + 1
    BY <1>6, <1>10, <2>1 DEF MatchInv, Extended
  <2>3. Accounted(ctx, c, out) /\ Extended(out, new) /\ new[Len(out) + 1].err # ""
    BY <1>3, <1>6, <2>1 DEF MatchInv
  <2>4. Accounted(ctx, c, new)
    <3>1. Sound(c)
      BY <2>3 DEF Accounted
    <3>2. Only(c, c, {"jobs"}) /\ SameJobs(c, c, {})
      BY <3>1 DEF Only, SameJobs, Sound
    <3> QED BY <2>3, <3>1, <3>2, AccountedRefusal
  <2>5. \A i \in 1..n : new[i] = out[i] /\ out[i].j = jobs[i] /\ out[i].err = ""
    BY <1>6, <1>10, <2>2, <2>3 DEF MatchInv, Extended
  <2> DEFINE N == Len(new)
  <2> HIDE DEF N
  <2>6. N = n + 1 /\ N \in Nat
    BY <1>2, <2>2 DEF N
  <2>7. ASSUME NEW i \in 1..N PROVE (i \in 1..n /\ i <= n) \/ (i = n + 1 /\ ~(i < N))
    BY <1>2, <2>6, <2>7
  <2>8. ASSUME NEW i \in 1..N
        PROVE  /\ new[i].err = "ENODATA" => new[i].j = Nobody
               /\ new[i].err # "ENODATA" => i <= n /\ new[i].j = jobs[i]
               /\ i < N => new[i].err = ""
    BY <1>3, <2>1, <2>2, <2>5, <2>7, <2>8
  <2>9. Matched(ctx, jobs, c, new)
    BY <2>4, <2>6, <2>8 DEF Matched, N, n
  <2> QED BY <1>8, <1>10, <2>1, <2>9 DEF r
<1> QED BY <1>6, <1>9, <1>10

-----------------------------------------------------------------------------
(***************************************************************************)
(* Types of what is underway between the modules.                          *)
(***************************************************************************)
\* What core says after the first response of resource.acquire.
Update == [res : {NoR}, up : SUBSET Rank, down : SUBSET Rank, lost : SUBSET Rank, exp : Int]

\* The names of the queues of any configuration.
Names == UNION {DOMAIN qmanager_options(c.conf, c.args).queues : c \in UNION {s.qms : s \in Scenarios}}

NotifyRequest == [k : {"notify"}, who : {"fz", "qm"}]

MatchRequest == [k : {"match"}, queue : Names, alive : BOOLEAN, jobs : Seq(Job)]

MatchAnswer == [k : {"match"}, queue : Names, m : Result]

CoreTyped ==
    /\ sc \in Scenarios /\ core \in [ranks : SUBSET Rank, up : SUBSET Rank, exp : Nat]
    /\ core.up \subseteq core.ranks

AcqTyped == acq \in Seq(Update)

ReqsTyped == reqs \in Seq(NotifyRequest \cup MatchRequest)

ToQmTyped == toQm \in Seq({EmptyResponse, StreamError} \cup MatchAnswer)

\* Why a job is rejected, and how it stands with a job.
Notes == {"unsatisfiable", "denied"}

States == Notes \cup {"new", "infeasible", "idle", "waiting", "running", "gone", "killed"}

JmTyped == jm \in [Job -> [st : States, R : GivenR, freed : SUBSET Rank]]

\* What a queue that is empty would reject.
NoJob == Head(<< >>)

QueueTyped(q) ==
    /\ DOMAIN q = QueueFields /\ q.pending \in Seq(Job) /\ q.provisional \in Seq(Job)
    /\ q.alloced \in Seq([j : Job, R : GivenR])
    /\ q.rejected \in Seq([j : Job \cup {NoJob}, note : Notes])
    /\ q.running \subseteq Job /\ q.par.queue_depth \in Nat

QmTyped ==
    qm # Off => /\ DOMAIN qm = QmFields /\ qm.todo \subseteq Job
                /\ DOMAIN qm.queues \subseteq Names /\ IsFiniteSet(DOMAIN qm.queues)
                /\ \A n \in DOMAIN qm.queues : QueueTyped(qm.queues[n])

RmSound == rm # Off => Sound(rm)

Typed == CoreTyped /\ AcqTyped /\ ReqsTyped /\ ToQmTyped /\ JmTyped /\ QmTyped /\ RmSound

\* A sequence without its first element.
LEMMA Shorter ==
    ASSUME NEW S, NEW s \in Seq(S), s # << >>
    PROVE  /\ Tail(s) \in Seq(S) /\ Head(s) \in S /\ Len(s) \in Nat /\ Len(Tail(s)) = Len(s) - 1
           /\ Head(s) = s[1]
           /\ \A i \in 1..(Len(s) - 1) : Tail(s)[i] = s[i + 1]
  OBVIOUS

\* The tail of any sequence is one.
LEMMA TailOf ==
    ASSUME NEW S, NEW s \in Seq(S)
    PROVE  Tail(s) \in Seq(S)
<1>1. CASE s = << >>
  BY <1>1
<1> QED BY <1>1

\* What is in a sequence.
LEMMA Elements ==
    ASSUME NEW S, NEW s \in Seq(S)
    PROVE  ToSet(s) \subseteq S
<1>1. \A i \in DOMAIN s : s[i] \in S
  OBVIOUS
<1> QED BY <1>1 DEF ToSet

\* Two sequences in a row.
LEMMA InARow ==
    ASSUME NEW S, NEW s \in Seq(S), NEW t \in Seq(S)
    PROVE  /\ s \o t \in Seq(S) /\ Len(s \o t) = Len(s) + Len(t)
           /\ \A i \in 1..Len(s) : (s \o t)[i] = s[i]
           /\ \A i \in 1..Len(t) : (s \o t)[Len(s) + i] = t[i]
  OBVIOUS

\* What follows a sequence is behind it.
LEMMA InEither ==
    ASSUME NEW S, NEW s \in Seq(S), NEW t \in Seq(S), NEW i \in DOMAIN (s \o t)
    PROVE  (i \in DOMAIN s /\ (s \o t)[i] = s[i]) \/ (\E x \in DOMAIN t : (s \o t)[i] = t[x])
<1> DEFINE n == Len(s)
           m == Len(t)
           u == s \o t
<1>1. n \in Nat /\ m \in Nat /\ DOMAIN s = 1..n /\ DOMAIN t = 1..m
  OBVIOUS
<1>2. /\ u \in Seq(S) /\ Len(u) = n + m
      /\ \A k \in 1..n : u[k] = s[k]
      /\ \A k \in 1..m : u[n + k] = t[k]
  BY InARow
<1> HIDE DEF n, m, u
<1>3. DOMAIN u = 1..Len(u)
  BY <1>2
<1>4. i \in 1..(n + m)
  BY <1>2, <1>3 DEF u
<1>5. i \in 1..n \/ (i - n \in 1..m /\ n + (i - n) = i)
  BY <1>1, <1>4
<1> QED BY <1>1, <1>2, <1>5 DEF u

\* A function on the indices of a sequence is a sequence.
LEMMA SameLength ==
    ASSUME NEW S, NEW T, NEW s \in Seq(S), NEW f, DOMAIN f = DOMAIN s, \A i \in DOMAIN s : f[i] \in T,
           f = [i \in DOMAIN s |-> f[i]]
    PROVE  f \in Seq(T) /\ Len(f) = Len(s)
<1>1. Len(s) \in Nat /\ DOMAIN s = 1..Len(s)
  OBVIOUS
<1>2. f \in [1..Len(s) -> T]
  BY <1>1
<1> QED BY <1>1, <1>2

-----------------------------------------------------------------------------
\* What core has stays in its types.
LEMMA CoreTypedStep ==
    ASSUME CoreTyped, [Next]_vars
    PROVE  CoreTyped'
<1>1. CASE UNCHANGED <<sc, core>>
  BY <1>1 DEF CoreTyped
<1>2. CASE CoreNext
  <2>1. ASSUME NEW r \in Rank, CoreUp(r) \/ CoreDown(r) \/ CoreLost(r) PROVE CoreTyped'
    BY <2>1 DEF CoreUp, CoreDown, CoreLost, Tell, CoreTyped
  <2>2. ASSUME NEW e \in sc.expirations, CoreExpiration(e) PROVE CoreTyped'
    <3>1. e \in Nat
      BY ScenarioAssumption DEF CoreTyped
    <3> QED BY <2>2, <3>1 DEF CoreExpiration, Tell, CoreTyped
  <2> QED BY <1>2, <2>1, <2>2 DEF CoreNext
<1>3. CASE ModuleNext
  BY <1>3, <1>1 DEF ModuleNext, load_resource, load_feasibility, load_qmanager, unload_resource,
         unload_feasibility, unload_qmanager, LeaveFz, qmanager_destroy
<1>4. CASE AdminNext
  BY <1>4, <1>1 DEF AdminNext, set_status_request_cb, set_property_request_cb,
         remove_property_request_cb, add_subgraph_request_cb, remove_subgraph_request_cb,
         status_request_cb, quiescent_request_cb, Edit
<1>5. CASE HandlerNext
  BY <1>5, <1>1 DEF HandlerNext, update_resource_then, notify_request_cb, match_multi_request_cb,
         feasibility_notified, LeaveFz, update_on_resource_response, check_watcher_cb, match_multi_then,
         process_pending_quiescent_requests, qmanager_destroy
<1>6. CASE JobNext
  BY <1>6, <1>1 DEF JobNext, Submit, jobmanager_alloc_cb, jobmanager_hello_cb, jobmanager_free_cb
<1>7. CASE UNCHANGED vars
  BY <1>7, <1>1 DEF vars
<1> QED BY <1>2, <1>3, <1>4, <1>5, <1>6, <1>7 DEF Next

\* What core says stays in its types.
LEMMA AcqTypedStep ==
    ASSUME CoreTyped, AcqTyped, [Next]_vars
    PROVE  AcqTyped'
<1>1. CASE UNCHANGED acq
  BY <1>1 DEF AcqTyped
<1>2. ASSUME NEW c, NEW m \in Update, Tell(c, m) PROVE AcqTyped'
  <2>1. Append(acq, m) \in Seq(Update)
    BY <1>2 DEF AcqTyped
  <2> QED BY <1>2, <2>1 DEF Tell, AcqTyped
<1>3. CASE CoreNext
  <2>1. ASSUME NEW r \in Rank, CoreUp(r) \/ CoreDown(r) \/ CoreLost(r) PROVE AcqTyped'
    <3>1. /\ [Nothing EXCEPT !.up = {r}] \in Update
          /\ [Nothing EXCEPT !.down = {r}] \in Update
          /\ [Nothing EXCEPT !.down = {r}, !.lost = {r}] \in Update
      <4>1. PICK e \in Int : e = -1
        OBVIOUS
      <4>2. Nothing = [res |-> NoR, up |-> {}, down |-> {}, lost |-> {}, exp |-> e]
        BY <4>1 DEF Nothing
      <4>3. [Nothing EXCEPT !.up = {r}] \in Update
        BY <4>2 DEF Update
      <4>4. [Nothing EXCEPT !.down = {r}] \in Update
        BY <4>2 DEF Update
      <4>5. [Nothing EXCEPT !.down = {r}, !.lost = {r}] \in Update
        BY <4>2 DEF Update
      <4> QED BY <4>3, <4>4, <4>5
    <3> QED BY <1>2, <2>1, <3>1 DEF CoreUp, CoreDown, CoreLost
  <2>2. ASSUME NEW e \in sc.expirations, CoreExpiration(e) PROVE AcqTyped'
    <3>1. e \in Nat
      BY ScenarioAssumption DEF CoreTyped
    <3>2. [Nothing EXCEPT !.exp = e] \in Update
      BY <3>1 DEF Nothing, Update
    <3> QED BY <1>2, <2>2, <3>2 DEF CoreExpiration
  <2> QED BY <1>3, <2>1, <2>2 DEF CoreNext
<1>4. CASE acq' = << >>
  BY <1>4 DEF AcqTyped
<1>5. CASE acq' = Tail(acq)
  BY <1>5, TailOf DEF AcqTyped
<1>6. CASE ModuleNext
  BY <1>6, <1>1, <1>4 DEF ModuleNext, load_resource, load_feasibility, load_qmanager, unload_resource,
         unload_feasibility, unload_qmanager, LeaveFz, qmanager_destroy
<1>7. CASE AdminNext
  BY <1>7, <1>1 DEF AdminNext, set_status_request_cb, set_property_request_cb,
         remove_property_request_cb, add_subgraph_request_cb, remove_subgraph_request_cb,
         status_request_cb, quiescent_request_cb, Edit
<1>8. CASE HandlerNext
  BY <1>8, <1>1, <1>5 DEF HandlerNext, update_resource_then, notify_request_cb, match_multi_request_cb,
         feasibility_notified, LeaveFz, update_on_resource_response, check_watcher_cb, match_multi_then,
         process_pending_quiescent_requests, qmanager_destroy
<1>9. CASE JobNext
  BY <1>9, <1>1 DEF JobNext, Submit, jobmanager_alloc_cb, jobmanager_hello_cb, jobmanager_free_cb
<1>10. CASE UNCHANGED vars
  BY <1>10, <1>1 DEF vars
<1> QED BY <1>3, <1>6, <1>7, <1>8, <1>9, <1>10 DEF Next

\* A finite set can be enumerated (SetToSeq), each element once.
LEMMA Enumerated ==
    ASSUME NEW S, IsFiniteSet(S)
    PROVE  /\ SetToSeq(S) \in Seq(S)
           /\ \A i, k \in DOMAIN SetToSeq(S) : i # k => SetToSeq(S)[i] # SetToSeq(S)[k]
<1> DEFINE n == Cardinality(S)
           s == SetToSeq(S)
<1>1. n \in Nat /\ ExistsBijection(1..n, S)
  BY FS_CardinalityType
<1>2. PICK f \in Bijection(1..n, S) : TRUE
  BY <1>1 DEF ExistsBijection
<1>3. f \in [1..n -> S] /\ IsInjective(f)
  BY <1>2 DEF Bijection, Injection, Surjection, IsInjective
<1>4. s \in [1..n -> S] /\ IsInjective(s)
  BY <1>3 DEF SetToSeq
<1> HIDE DEF s, n
<1>5. s \in Seq(S)
  BY <1>1, <1>4
<1> QED BY <1>4, <1>5 DEF IsInjective, s

-----------------------------------------------------------------------------
\* The requests stay in their types.
LEMMA ReqsTypedStep ==
    ASSUME CoreTyped, ReqsTyped, QmTyped, [Next]_vars
    PROVE  ReqsTyped'
<1> DEFINE Request == NotifyRequest \cup MatchRequest
<1>1. CASE UNCHANGED reqs
  BY <1>1 DEF ReqsTyped
<1>2. CASE reqs' = << >>
  BY <1>2 DEF ReqsTyped
<1>3. CASE reqs' = Tail(reqs)
  BY <1>3, TailOf DEF ReqsTyped
<1>4. ASSUME NEW who \in {"fz", "qm"}, reqs' = Append(reqs, [k |-> "notify", who |-> who]) PROVE ReqsTyped'
  <2> DEFINE x == [k |-> "notify", who |-> who]
  <2>1. x \in NotifyRequest
    BY DEF NotifyRequest
  <2> HIDE DEF x
  <2>2. Append(reqs, x) \in Seq(Request)
    BY <2>1 DEF ReqsTyped
  <2> QED BY <1>4, <2>2 DEF ReqsTyped, x
<1>5. CASE qmanager_destroy
  <2> DEFINE f == [i \in DOMAIN reqs |-> IF reqs[i].k = "match" THEN [reqs[i] EXCEPT !.alive = FALSE]
                                         ELSE reqs[i]]
  <2>1. ASSUME NEW i \in DOMAIN reqs PROVE f[i] \in Request
    <3> DEFINE x == reqs[i]
    <3>1. x \in Request
      BY <2>1 DEF ReqsTyped
    <3>2. f[i] = IF x.k = "match" THEN [x EXCEPT !.alive = FALSE] ELSE x
      BY <2>1
    <3> HIDE DEF x, f
    <3>3. CASE x \in NotifyRequest
      BY <3>2, <3>3 DEF NotifyRequest
    <3>4. CASE x \in MatchRequest
      <4>1. [x EXCEPT !.alive = FALSE] \in MatchRequest
        BY <3>4 DEF MatchRequest
      <4> QED BY <3>2, <3>4, <4>1
    <3> QED BY <3>1, <3>3, <3>4
  <2>2. DOMAIN f = DOMAIN reqs /\ f = [i \in DOMAIN reqs |-> f[i]]
    OBVIOUS
  <2> HIDE DEF f
  <2>3. f \in Seq(Request)
    BY <2>1, <2>2, SameLength DEF ReqsTyped
  <2> QED BY <1>5, <2>3 DEF qmanager_destroy, ReqsTyped, f
<1>6. CASE check_watcher_cb
  <2> DEFINE names == DOMAIN qm.queues
             any == \E n \in names : qm.queues[n].sched
             looped == [n \in names |-> IF any THEN run_sched_loop(qm.queues[n]) ELSE qm.queues[n]]
             new == {n \in names : looped[n].active /\ ~qm.queues[n].active}
             started == SetToSeq(new)
             f == [i \in DOMAIN started |-> [k |-> "match", queue |-> started[i], alive |-> TRUE,
                                             jobs |-> pack_jobs(looped[started[i]])]]
  <2>1. qm # Off /\ (reqs' = reqs \/ reqs' = reqs \o f)
    BY <1>6 DEF check_watcher_cb
  <2>2. new \subseteq names /\ IsFiniteSet(new) /\ names \subseteq Names
    BY <2>1, FS_Subset DEF QmTyped
  <2>3. ASSUME NEW n \in names PROVE pack_jobs(looped[n]) \in Seq(Job)
    <3> DEFINE q == qm.queues[n]
               l == looped[n]
    <3>1. QueueTyped(q)
      BY <2>1 DEF QmTyped
    <3>2. l = IF any THEN run_sched_loop(q) ELSE q
      OBVIOUS
    <3> HIDE DEF q, l
    <3>3. q.pending \o q.provisional \in Seq(Job)
      BY <3>1 DEF QueueTyped
    <3>4. l.pending \in Seq(Job) /\ l.par.queue_depth \in Nat
      BY <3>1, <3>2, <3>3 DEF run_sched_loop, QueueTyped, QueueFields
    <3> DEFINE s == l.pending
               d == l.par.queue_depth
               m == Len(s)
    <3>5. s \in Seq(Job) /\ d \in Nat /\ m \in Nat
      BY <3>4
    <3>6. pack_jobs(l) = SubSeq(s, 1, IF m < d THEN m ELSE d)
      BY DEF pack_jobs, Lesser
    <3> HIDE DEF s, d
    <3>7. SubSeq(s, 1, IF m < d THEN m ELSE d) \in Seq(Job)
      <4>1. CASE m < d
        BY <3>5, <4>1
      <4>2. CASE ~(m < d)
        BY <3>5, <4>2
      <4> QED BY <4>1, <4>2
    <3> QED BY <3>6, <3>7 DEF l
  <2> HIDE DEF new, looped
  <2>4. started \in Seq(new)
    BY <2>2, Enumerated
  <2>5. ASSUME NEW i \in DOMAIN started PROVE f[i] \in Request
    <3> DEFINE n == started[i]
               p == pack_jobs(looped[n])
    <3>1. n \in names /\ n \in Names
      BY <2>2, <2>4, <2>5
    <3>2. p \in Seq(Job)
      BY <2>3, <3>1
    <3>3. f[i] = [k |-> "match", queue |-> n, alive |-> TRUE, jobs |-> p]
      BY <2>5
    <3> HIDE DEF n, p, f
    <3> QED BY <3>1, <3>2, <3>3 DEF MatchRequest
  <2>6. DOMAIN f = DOMAIN started /\ f = [i \in DOMAIN started |-> f[i]]
    OBVIOUS
  <2> HIDE DEF f, started
  <2>7. f \in Seq(Request)
    BY <2>4, <2>5, <2>6, SameLength
  <2>8. reqs \o f \in Seq(Request)
    BY <2>7, InARow DEF ReqsTyped
  <2> QED BY <1>1, <2>1, <2>8 DEF ReqsTyped
<1>7. CASE CoreNext
  BY <1>7, <1>1 DEF CoreNext, CoreUp, CoreDown, CoreLost, CoreExpiration, Tell
<1>8. CASE ModuleNext
  <2>1. ASSUME NEW c, load_feasibility(c) \/ load_qmanager(c) PROVE ReqsTyped'
    BY <2>1, <1>1, <1>4 DEF load_feasibility, load_qmanager
  <2> QED BY <1>8, <1>1, <1>2, <1>5, <2>1 DEF ModuleNext, load_resource, unload_resource,
         unload_feasibility, unload_qmanager, LeaveFz
<1>9. CASE AdminNext
  BY <1>9, <1>1 DEF AdminNext, set_status_request_cb, set_property_request_cb,
         remove_property_request_cb, add_subgraph_request_cb, remove_subgraph_request_cb,
         status_request_cb, quiescent_request_cb, Edit
<1>10. CASE HandlerNext
  <2>1. CASE update_on_resource_response
    BY <2>1, <1>1, <1>5 DEF update_on_resource_response
  <2> QED BY <1>10, <1>1, <1>3, <1>6, <2>1 DEF HandlerNext, update_resource_then, notify_request_cb,
         match_multi_request_cb, feasibility_notified, LeaveFz, match_multi_then,
         process_pending_quiescent_requests
<1>11. CASE JobNext
  BY <1>11, <1>1 DEF JobNext, Submit, jobmanager_alloc_cb, jobmanager_hello_cb, jobmanager_free_cb
<1>12. CASE UNCHANGED vars
  BY <1>12, <1>1 DEF vars
<1> QED BY <1>7, <1>8, <1>9, <1>10, <1>11, <1>12 DEF Next

-----------------------------------------------------------------------------
\* What the loops and the answers do to a queue stays in its types.
LEMMA QueueTypedSteps ==
    ASSUME NEW q, QueueTyped(q), NEW m \in Result
    PROVE  /\ QueueTyped(run_sched_loop(q))
           /\ QueueTyped(handle_match_success(q, m)) /\ QueueTyped(handle_match_failure(q, m))
<1> DEFINE A == [j : Job, R : GivenR]
           D == [j : Job \cup {NoJob}, note : Notes]
           p == q.pending
<1>1. /\ DOMAIN q = QueueFields /\ p \in Seq(Job) /\ q.provisional \in Seq(Job) /\ q.alloced \in Seq(A)
      /\ q.rejected \in Seq(D) /\ q.running \subseteq Job /\ q.par.queue_depth \in Nat
  BY DEF QueueTyped
<1>2. p \o q.provisional \in Seq(Job) /\ << >> \in Seq(Job) /\ Tail(p) \in Seq(Job)
  BY <1>1, TailOf
<1>3. QueueTyped(run_sched_loop(q))
  BY <1>1, <1>2 DEF run_sched_loop, QueueTyped, QueueFields
<1>4. QueueTyped(handle_match_success(q, m))
  <2>1. CASE ~q.active \/ p = << >> \/ Head(p) # m.j
    BY <2>1 DEF handle_match_success
  <2>2. CASE q.active /\ p # << >> /\ Head(p) = m.j
    <3> DEFINE x == [j |-> m.j, R |-> m.R]
    <3>1. m.j \in Job /\ m.R \in GivenR
      <4>1. m.R \in GivenR
        BY DEF Result
      <4>2. Head(p) \in Job
        BY <1>1, <2>2
      <4> QED BY <2>2, <4>1, <4>2
    <3>2. x \in A
      BY <3>1
    <3> HIDE DEF x, A
    <3>3. Append(q.alloced, x) \in Seq(A)
      BY <1>1, <3>2
    <3>4. handle_match_success(q, m) = [q EXCEPT !.pending = Tail(p), !.alloced = Append(q.alloced, x),
                                                 !.running = q.running \cup {m.j}]
      BY <1>1, <2>2 DEF handle_match_success, x, QueueFields
    <3> HIDE DEF p
    <3> DEFINE y == q.alloced
               z == Append(y, x)
               t == Tail(p)
    <3>5. y \in Seq(A) /\ z \in Seq(A) /\ t \in Seq(Job)
      BY <1>1, <1>2, <3>3
    <3> HIDE DEF y, z, t
    <3> QED BY <1>1, <3>1, <3>4, <3>5 DEF QueueTyped, QueueFields, A, y, z, t
  <2> QED BY <2>1, <2>2
<1>5. QueueTyped(handle_match_failure(q, m))
  <2>1. CASE ~q.active
    BY <2>1 DEF handle_match_failure
  <2>2. CASE q.active
    <3> DEFINE e == m.err
               reject == e \notin {"EBUSY", "ENODATA"}
               x == [j |-> Head(p), note |-> IF e = "ENODEV" THEN "unsatisfiable" ELSE "denied"]
               rej == q.rejected
               z == IF reject THEN Append(rej, x) ELSE rej
               t == IF reject THEN Tail(p) ELSE p
               s == q.sched \/ e = "ENODEV" \/ (e = "ENODATA" /\ q.limit)
               l == q.limit /\ e # "ENODATA"
    <3>1. handle_match_failure(q, m) =
             [q EXCEPT !.pending = t, !.rejected = z, !.sched = s, !.limit = l, !.active = FALSE]
      BY <1>1, <2>2 DEF handle_match_failure, QueueFields
    <3>2. Head(p) \in Job \cup {NoJob}
      <4>1. CASE p = << >>
        BY <4>1 DEF NoJob
      <4> QED BY <1>1, <4>1
    <3>3. x \in D
      <4> DEFINE h == Head(p)
                 n == IF e = "ENODEV" THEN "unsatisfiable" ELSE "denied"
      <4>1. h \in Job \cup {NoJob} /\ n \in Notes
        BY <3>2 DEF Notes
      <4> HIDE DEF h, n
      <4>2. [j |-> h, note |-> n] \in D
        BY <4>1
      <4> QED BY <4>2 DEF h, n
    <3> HIDE DEF x, D
    <3>4. z \in Seq(D)
      BY <1>1, <3>3
    <3>5. t \in Seq(Job)
      BY <1>1, <1>2
    <3> HIDE DEF z, t, s, l
    <3> QED BY <1>1, <3>1, <3>4, <3>5 DEF QueueTyped, QueueFields, D
  <2> QED BY <2>1, <2>2
<1> QED BY <1>3, <1>4, <1>5

\* The queue manager after a step: the same queues, each in its types.
LEMMA QmTypedFrom ==
    ASSUME QmTyped, qm # Off, DOMAIN qm' = QmFields, qm'.todo \subseteq Job,
           DOMAIN qm'.queues = DOMAIN qm.queues, \A n \in DOMAIN qm.queues : QueueTyped(qm'.queues[n])
    PROVE  QmTyped'
  BY DEF QmTyped

\* The queue manager stays in its types.
LEMMA QmTypedStep ==
    ASSUME CoreTyped, ToQmTyped, QmTyped, [Next]_vars
    PROVE  QmTyped'
<1>1. CASE UNCHANGED qm
  BY <1>1 DEF QmTyped
<1>2. ASSUME NEW c \in sc.qms, load_qmanager(c) PROVE QmTyped'
  <2> DEFINE o == qmanager_options(c.conf, c.args)
             Q == [n \in DOMAIN o.queues |-> Queue(o.queues[n])]
  <2>1. qm' = IF o.ok THEN [st |-> "resource", parents |-> o.parents, todo |-> {}, quiet |-> 0,
                            queues |-> Q]
              ELSE Off
    BY <1>2 DEF load_qmanager
  <2>2. o.ok => \A n \in DOMAIN o.queues : InItsRange(o.queues[n])
    BY OptionsInRange
  <2>3. ASSUME NEW n \in DOMAIN Q, o.ok PROVE QueueTyped(Q[n])
    <3>1. Q[n] = Queue(o.queues[n]) /\ InItsRange(o.queues[n])
      BY <2>2, <2>3
    <3> DEFINE par == o.queues[n]
    <3> HIDE DEF par, Q
    <3>2. par.queue_depth \in Nat
      BY <3>1 DEF InItsRange, par
    <3> QED BY <3>1, <3>2 DEF Queue, QueueTyped, QueueFields, par
  <2>4. DOMAIN Q = DOMAIN o.queues
    OBVIOUS
  <2>5. IsFiniteSet(DOMAIN o.queues) /\ DOMAIN o.queues \subseteq Names
    BY ScenarioAssumption DEF CoreTyped, Names
  <2> HIDE DEF Q, o
  <2>6. CASE o.ok
    <3>1. DOMAIN qm' = QmFields /\ qm'.todo = {} /\ qm'.queues = Q
      BY <2>1, <2>6 DEF QmFields
    <3> QED BY <2>3, <2>4, <2>5, <2>6, <3>1 DEF QmTyped
  <2>7. CASE ~o.ok
    BY <2>1, <2>7 DEF QmTyped
  <2> QED BY <2>6, <2>7
<1>3. CASE qmanager_destroy
  BY <1>3 DEF qmanager_destroy, QmTyped
<1>4. CASE update_on_resource_response
  <2>1. CASE qmanager_destroy
    BY <2>1, <1>3
  <2>2. CASE ~qmanager_destroy
    <3> DEFINE woken == [n \in DOMAIN qm.queues |-> [qm.queues[n] EXCEPT !.sched = TRUE]]
    <3>1. /\ qm # Off
          /\ qm' = [qm EXCEPT !.queues = woken, !.todo = IF qm.st = "resource" THEN Running ELSE @,
                              !.st = IF qm.st = "resource" /\ Running # {} THEN "jobs" ELSE "ready"]
      BY <1>4, <2>2 DEF update_on_resource_response
    <3>2. ASSUME NEW n \in DOMAIN qm.queues PROVE QueueTyped(woken[n])
      <4> DEFINE q == qm.queues[n]
      <4>1. QueueTyped(q) /\ woken[n] = [q EXCEPT !.sched = TRUE]
        BY <3>1, <3>2 DEF QmTyped
      <4> HIDE DEF q, woken
      <4> QED BY <4>1 DEF QueueTyped, QueueFields
    <3>3. DOMAIN woken = DOMAIN qm.queues /\ Running \subseteq Job
      BY DEF Running
    <3> HIDE DEF woken
    <3>4. DOMAIN qm' = QmFields /\ qm'.queues = woken /\ qm'.todo \subseteq Job
      BY <3>1, <3>3 DEF QmTyped, QmFields
    <3> QED BY <3>1, <3>2, <3>3, <3>4, QmTypedFrom
  <2> QED BY <2>1, <2>2
<1>5. ASSUME NEW j \in Job, jobmanager_hello_cb(j) PROVE QmTyped'
  <2> DEFINE n == queue_of(j)
             u == IF n \notin DOMAIN qm.queues THEN Error(rm)
                  ELSE reapi_update_allocate(rm, j, WithFreeRanks(HelloR(j), jm[j].freed))
             Q == IF u.ok THEN [qm.queues EXCEPT ![n].running = @ \cup {j}] ELSE qm.queues
  <2>1. /\ qm # Off
        /\ qm' = [qm EXCEPT !.todo = @ \ {j}, !.st = IF qm.todo = {j} THEN "ready" ELSE @, !.queues = Q]
    BY <1>5 DEF jobmanager_hello_cb
  <2> HIDE DEF u, n
  <2>2. ASSUME NEW k \in DOMAIN qm.queues PROVE QueueTyped(Q[k])
    <3> DEFINE q == qm.queues[k]
    <3>1. QueueTyped(q) /\ (Q[k] = q \/ Q[k] = [q EXCEPT !.running = q.running \cup {j}])
      BY <2>1, <2>2 DEF QmTyped, QueueTyped, QueueFields
    <3> HIDE DEF q, Q
    <3> QED BY <3>1 DEF QueueTyped, QueueFields
  <2>3. DOMAIN Q = DOMAIN qm.queues
    OBVIOUS
  <2> HIDE DEF Q
  <2>4. DOMAIN qm' = QmFields /\ qm'.queues = Q /\ qm'.todo \subseteq Job
    BY <2>1 DEF QmTyped, QmFields
  <2> QED BY <2>1, <2>2, <2>3, <2>4, QmTypedFrom
<1>6. ASSUME NEW j \in Job, jobmanager_alloc_cb(j) PROVE QmTyped'
  <2> DEFINE n == queue_of(j)
             Q == [qm.queues EXCEPT ![n].provisional = Append(@, j), ![n].sched = TRUE]
  <2>1. CASE UNCHANGED qm
    BY <2>1, <1>1
  <2>2. CASE ~UNCHANGED qm
    <3>1. /\ qm # Off
          /\ qm' = [qm EXCEPT !.queues[n].provisional = Append(@, j), !.queues[n].sched = TRUE]
      BY <1>6, <2>2 DEF jobmanager_alloc_cb
    <3> HIDE DEF n
    <3>2. DOMAIN qm' = QmFields /\ qm'.queues = Q /\ qm'.todo = qm.todo
      BY <3>1 DEF QmTyped, QmFields
    <3>3. ASSUME NEW k \in DOMAIN qm.queues PROVE QueueTyped(Q[k])
      <4> DEFINE q == qm.queues[k]
                 s == q.provisional
                 t == Append(s, j)
      <4>1. QueueTyped(q) /\ (Q[k] = q \/ Q[k] = [q EXCEPT !.provisional = t, !.sched = TRUE])
        BY <3>1, <3>3 DEF QmTyped, QueueTyped, QueueFields
      <4>2. t \in Seq(Job)
        BY <4>1 DEF QueueTyped
      <4> HIDE DEF q, Q, t
      <4> QED BY <4>1, <4>2 DEF QueueTyped, QueueFields
    <3>4. DOMAIN Q = DOMAIN qm.queues /\ qm.todo \subseteq Job
      BY <3>1 DEF QmTyped
    <3> HIDE DEF Q
    <3> QED BY <3>1, <3>2, <3>3, <3>4, QmTypedFrom
  <2> QED BY <2>1, <2>2
<1>7. ASSUME NEW j \in Job, NEW ranks, jobmanager_free_cb(j, ranks) PROVE QmTyped'
  <2> DEFINE rest == jm[j].R.ranks \ jm[j].freed
             final == ranks = rest
             c == IF final THEN reapi_cancel(rm, j) ELSE reapi_cancel_R(rm, j, ranks)
             known == {n \in DOMAIN qm.queues : j \in qm.queues[n].running}
             done == c.ok /\ (final \/ c.full)
             Q == [n \in DOMAIN qm.queues |->
                     IF n \notin known \/ ~c.ok THEN qm.queues[n]
                     ELSE [qm.queues[n] EXCEPT !.sched = TRUE, !.running = IF done THEN @ \ {j} ELSE @]]
  <2>1. qm # Off /\ qm' = [qm EXCEPT !.queues = Q]
    BY <1>7 DEF jobmanager_free_cb
  <2> HIDE DEF known, done, c
  <2>2. ASSUME NEW n \in DOMAIN qm.queues PROVE QueueTyped(Q[n])
    <3> DEFINE q == qm.queues[n]
    <3>1. /\ QueueTyped(q)
          /\ Q[n] = q \/ Q[n] = [q EXCEPT !.sched = TRUE, !.running = IF done THEN @ \ {j} ELSE @]
      BY <2>1, <2>2 DEF QmTyped
    <3> HIDE DEF q, Q
    <3> QED BY <3>1 DEF QueueTyped, QueueFields
  <2>3. DOMAIN Q = DOMAIN qm.queues /\ qm.todo \subseteq Job
    BY <2>1 DEF QmTyped
  <2> HIDE DEF Q
  <2>4. DOMAIN qm' = QmFields /\ qm'.queues = Q /\ qm'.todo = qm.todo
    BY <2>1 DEF QmTyped, QmFields
  <2> QED BY <2>1, <2>2, <2>3, <2>4, QmTypedFrom
<1>8. CASE check_watcher_cb
  <2> DEFINE names == DOMAIN qm.queues
             any == \E n \in names : qm.queues[n].sched
             looped == [n \in names |-> IF any THEN run_sched_loop(qm.queues[n]) ELSE qm.queues[n]]
             Q == [n \in names |-> [looped[n] EXCEPT !.alloced = << >>, !.rejected = << >>]]
  <2>1. qm # Off /\ qm' = [qm EXCEPT !.queues = Q]
    BY <1>8 DEF check_watcher_cb
  <2>2. ASSUME NEW n \in names PROVE QueueTyped(Q[n])
    <3> DEFINE q == qm.queues[n]
               l == looped[n]
    <3>1. QueueTyped(q) /\ (l = q \/ l = run_sched_loop(q))
      BY <2>1, <2>2 DEF QmTyped
    <3>2. Q[n] = [l EXCEPT !.alloced = << >>, !.rejected = << >>]
      BY <2>2
    <3> HIDE DEF q, l, Q
    <3>3. PICK m \in Result : TRUE
      <4>1. [j |-> Nobody, err |-> "", R |-> NoR] \in Result
        BY DEF Result, GivenR
      <4> QED BY <4>1
    <3>4. QueueTyped(l)
      BY <3>1, <3>3, QueueTypedSteps
    <3> QED BY <3>2, <3>4 DEF QueueTyped, QueueFields
  <2>3. DOMAIN Q = DOMAIN qm.queues /\ qm.todo \subseteq Job
    BY <2>1 DEF QmTyped
  <2> HIDE DEF Q
  <2>4. DOMAIN qm' = QmFields /\ qm'.queues = Q /\ qm'.todo = qm.todo
    BY <2>1 DEF QmTyped, QmFields
  <2> QED BY <2>1, <2>2, <2>3, <2>4, QmTypedFrom
<1>9. CASE match_multi_then
  <2> DEFINE msg == Head(toQm)
             q == qm.queues[msg.queue]
             r == IF msg.m.err = "" THEN handle_match_success(q, msg.m) ELSE handle_match_failure(q, msg.m)
             Q == [qm.queues EXCEPT ![msg.queue] = r]
  <2>1. qm # Off /\ qm' = [qm EXCEPT !.queues = Q]
    BY <1>9 DEF match_multi_then, QmTyped, QmFields
  <2>2. msg \in {EmptyResponse, StreamError} \cup MatchAnswer /\ msg.k = "match"
    BY <1>9, Shorter DEF match_multi_then, ToQmTyped
  <2>3. msg \in MatchAnswer
    <3> HIDE DEF msg
    <3> QED BY <2>2 DEF EmptyResponse, StreamError
  <2>4. msg.m \in Result
    BY <2>3 DEF MatchAnswer
  <2>5. msg.queue \in DOMAIN qm.queues => QueueTyped(q)
    BY <2>1 DEF QmTyped
  <2> DEFINE m == msg.m
             n == msg.queue
  <2>6. n \in DOMAIN qm.queues => QueueTyped(r)
    <3> HIDE DEF msg, q, m
    <3>1. r = IF m.err = "" THEN handle_match_success(q, m) ELSE handle_match_failure(q, m)
      BY DEF m
    <3>2. m \in Result
      BY <2>4 DEF m
    <3> HIDE DEF r
    <3> QED BY <2>5, <3>1, <3>2, QueueTypedSteps
  <2>7. DOMAIN Q = DOMAIN qm.queues /\ qm.todo \subseteq Job
    BY <2>1 DEF QmTyped
  <2>8. \A k \in DOMAIN qm.queues : Q[k] = IF k = n THEN r ELSE qm.queues[k]
    OBVIOUS
  <2> HIDE DEF Q, r, n, msg
  <2>9. \A k \in DOMAIN qm.queues : QueueTyped(Q[k])
    BY <2>1, <2>6, <2>8 DEF QmTyped
  <2>10. DOMAIN qm' = QmFields /\ qm'.queues = Q /\ qm'.todo = qm.todo
    BY <2>1 DEF QmTyped, QmFields
  <2> QED BY <2>1, <2>7, <2>9, <2>10, QmTypedFrom
<1>10. CASE quiescent_request_cb \/ process_pending_quiescent_requests
  <2>1. /\ qm # Off /\ DOMAIN qm' = DOMAIN qm /\ qm'.queues = qm.queues /\ qm'.todo = qm.todo
    BY <1>10 DEF quiescent_request_cb, process_pending_quiescent_requests, QmTyped, QmFields
  <2> QED BY <2>1, QmTypedFrom DEF QmTyped
<1>11. CASE CoreNext
  BY <1>11, <1>1 DEF CoreNext, CoreUp, CoreDown, CoreLost, CoreExpiration, Tell
<1>12. CASE ModuleNext
  BY <1>12, <1>1, <1>2, <1>3 DEF ModuleNext, load_resource, load_feasibility, unload_resource,
         unload_feasibility, unload_qmanager, LeaveFz
<1>13. CASE AdminNext
  BY <1>13, <1>1, <1>10 DEF AdminNext, set_status_request_cb, set_property_request_cb,
         remove_property_request_cb, add_subgraph_request_cb, remove_subgraph_request_cb,
         status_request_cb, Edit
<1>14. CASE HandlerNext
  <2>1. CASE update_resource_then \/ notify_request_cb \/ match_multi_request_cb
    BY <2>1, <1>1 DEF update_resource_then, notify_request_cb, match_multi_request_cb
  <2>2. CASE feasibility_notified
    BY <2>2, <1>1 DEF feasibility_notified, LeaveFz
  <2> QED BY <1>14, <2>1, <2>2, <1>4, <1>8, <1>9, <1>10 DEF HandlerNext
<1>15. CASE JobNext
  BY <1>15, <1>1, <1>5, <1>6, <1>7 DEF JobNext, Submit
<1>16. CASE UNCHANGED vars
  BY <1>16, <1>1 DEF vars
<1> QED BY <1>11, <1>12, <1>13, <1>14, <1>15, <1>16 DEF Next

-----------------------------------------------------------------------------
(***************************************************************************)
(* The context of the resource module, and the caches behind its status.   *)
(***************************************************************************)
\* The caches that are not due for a search still say what is there and what is down.
Cached(ctx) ==
    /\ ~ctx.updated => ctx.ranks \subseteq ctx.r_all
    /\ ~ctx.down_updated => ctx.r_down \cap ctx.ranks = ctx.ranks \ ctx.up

\* c is a good context too, if ctx is one.
Kept(ctx, c) == Sound(c) /\ (Cached(ctx) => Cached(c))

CachesInv == (rm # Off /\ "graph" \notin edited) => Cached(rm)

\* What no other step of the context touches can change freely.
LEMMA SoundOnly ==
    ASSUME NEW ctx, NEW c, NEW F, Sound(ctx), Only(ctx, c, F),
           F \cap {"initialized", "root", "ranks", "booked", "jobs", "allocations"} = {}
    PROVE  Sound(c)
<1>1. /\ c.initialized = ctx.initialized /\ c.root = ctx.root /\ c.ranks = ctx.ranks
      /\ c.booked = ctx.booked /\ c.jobs = ctx.jobs /\ c.allocations = ctx.allocations
      /\ DOMAIN c = CtxFields
  BY DEF Only, CtxFields
<1> QED BY <1>1 DEF Sound

\* What the caches are about has not changed.
LEMMA CachedOnly ==
    ASSUME NEW ctx, NEW c, NEW F, Cached(ctx), Only(ctx, c, F),
           F \cap {"updated", "down_updated", "ranks", "up", "r_all", "r_down"} = {}
    PROVE  Cached(c)
<1>1. /\ c.updated = ctx.updated /\ c.down_updated = ctx.down_updated /\ c.ranks = ctx.ranks
      /\ c.up = ctx.up /\ c.r_all = ctx.r_all /\ c.r_down = ctx.r_down
  BY DEF Only, CtxFields
<1> QED BY <1>1 DEF Cached

\* What core says (update_resource).
LEMMA FollowKept ==
    ASSUME NEW ctx, Sound(ctx), NEW m \in Update
    PROVE  Kept(ctx, update_resource(ctx, m).ctx)
<1> DEFINE c == update_resource(ctx, m).ctx
           lost == m.lost
<1>1. DOMAIN ctx = CtxFields /\ ctx.initialized /\ m.res = NoR /\ lost \subseteq Rank
  BY DEF Sound, Update
<1>2. /\ Only(ctx, c, {"up", "nodes_up", "down_updated", "booked", "ranks", "props", "end",
                       "notify_lost", "notify_expiration"})
      /\ c.ranks = ctx.ranks \ lost
      /\ c.booked = IF lost = {} THEN ctx.booked
                    ELSE [r \in Rank |-> IF r \in lost THEN Nobody ELSE ctx.booked[r]]
      /\ c.down_updated \/ (c.down_updated = ctx.down_updated /\ c.up = ctx.up \ lost)
  BY <1>1, Follow
<1> HIDE DEF c, lost
<1>3. /\ c.initialized = ctx.initialized /\ c.root = ctx.root /\ c.jobs = ctx.jobs
      /\ c.allocations = ctx.allocations /\ DOMAIN c = CtxFields
      /\ c.updated = ctx.updated /\ c.r_all = ctx.r_all /\ c.r_down = ctx.r_down
  BY <1>2 DEF Only, CtxFields
<1>4. /\ c.booked \in [Rank -> Job \cup {Nobody}]
      /\ \A r \in Rank : c.booked[r] # Nobody => r \notin lost /\ c.booked[r] = ctx.booked[r]
  BY <1>2 DEF Sound
<1>5. Sound(c)
  BY <1>2, <1>3, <1>4 DEF Sound
<1>6. Cached(ctx) => Cached(c)
  BY <1>2, <1>3 DEF Cached
<1> QED BY <1>5, <1>6 DEF Kept, c

\* Jobs are matched (match_multi).
LEMMA MatchKept ==
    ASSUME NEW ctx, Sound(ctx), NEW jobs \in Seq(Job)
    PROVE  Kept(ctx, match_multi(ctx, jobs).ctx)
<1> DEFINE r == match_multi(ctx, jobs)
           c == r.ctx
           out == r.out
<1>1. Matched(ctx, jobs, c, out)
  BY MatchesEffect
<1> HIDE DEF r, c, out
<1>2. Sound(c) /\ Only(ctx, c, {"booked", "jobs", "allocations"})
  BY <1>1 DEF Matched, Accounted
<1>3. Cached(ctx) => Cached(c)
  BY <1>2, CachedOnly
<1> QED BY <1>2, <1>3 DEF Kept, r, c

\* A job that had resources when the queue manager came (update_request_cb).
LEMMA UpdateKept ==
    ASSUME NEW ctx, Sound(ctx), NEW j \in Job, NEW R
    PROVE  Kept(ctx, update_request_cb(ctx, j, R).ctx)
<1> DEFINE u == update_request_cb(ctx, j, R)
           c == u.ctx
           p == parse_R(R)
           E == Emit(ctx, p.ranks)
<1>1. c = ctx \/ (Taken(ctx, c, j, E, p.ranks) /\ Sound(c))
  BY UpdateEffect
<1> HIDE DEF u, c, p, E
<1>2. CASE c = ctx
  BY <1>2 DEF Kept, c, u
<1>3. CASE c # ctx
  <2>1. Only(ctx, c, {"booked", "jobs", "allocations"}) /\ Sound(c)
    BY <1>1, <1>3 DEF Taken
  <2>2. Cached(ctx) => Cached(c)
    BY <2>1, CachedOnly
  <2> QED BY <2>1, <2>2 DEF Kept, c, u
<1> QED BY <1>2, <1>3

\* A release (cancel_request_cb, partial_cancel_request_cb).
LEMMA ReleaseKept ==
    ASSUME NEW ctx, Sound(ctx), ctx # Off, NEW j \in Job, NEW ranks, NEW final \in BOOLEAN
    PROVE  Kept(ctx, (IF final THEN reapi_cancel(ctx, j) ELSE reapi_cancel_R(ctx, j, ranks)).ctx)
<1> DEFINE x == IF final THEN reapi_cancel(ctx, j) ELSE reapi_cancel_R(ctx, j, ranks)
           c == x.ctx
<1>1. Only(ctx, c, {"booked", "jobs", "allocations"}) /\ Sound(c)
  BY ReleaseEffect
<1> HIDE DEF x, c
<1>2. Cached(ctx) => Cached(c)
  BY <1>1, CachedOnly
<1> QED BY <1>1, <1>2 DEF Kept, c, x

\* The context a module starts with (init_resource_graph).
LEMMA LoadedKept ==
    ASSUME CoreTyped, NEW o, init_resource_graph(resource_ctx_t(o, TRUE), Acquired).ok
    PROVE  LET c == init_resource_graph(resource_ctx_t(o, TRUE), Acquired).ctx
           IN  Sound(c) /\ Cached(c) /\ DOMAIN c.jobs = {} /\ \A r \in Rank : c.booked[r] = Nobody
<1> DEFINE n == resource_ctx_t(o, TRUE)
           c == init_resource_graph(n, Acquired).ctx
           m == Acquired
<1>1. /\ m.res = [ranks |-> core.ranks, start |-> 0, end |-> core.exp, writer |-> "none",
                  key |-> {}, free |-> {}]
      /\ m.up = core.up /\ m.down = {} /\ m.lost = {} /\ m.exp = -1
  BY DEF Acquired, Nothing
<1>2. m.res \in Machine
  BY <1>1 DEF Machine, CoreTyped
<1>3. m.res # NoR
  BY <1>2, MatchAssumption DEF Machine
<1>4. m.up \subseteq m.res.ranks
  BY <1>1 DEF CoreTyped
<1> HIDE DEF m
<1>5. /\ Only(n, c, {"root", "initialized", "ranks", "up", "nodes_up", "end", "updated", "ups",
                     "down_updated", "notify_resources"})
      /\ c.root /\ c.initialized /\ c.updated /\ c.down_updated
      /\ c.ranks \subseteq Rank
  BY <1>1, <1>2, <1>3, <1>4, Loaded DEF m
<1>6. n.booked = [r \in Rank |-> Nobody] /\ n.jobs = Empty /\ n.allocations = {}
  BY DEF resource_ctx_t
<1> HIDE DEF n, c
<1>7. c.booked = [r \in Rank |-> Nobody] /\ c.jobs = Empty /\ c.allocations = {} /\ DOMAIN c = CtxFields
  BY <1>5, <1>6 DEF Only, CtxFields
<1>8. Sound(c)
  BY <1>5, <1>7 DEF Sound, Empty
<1>9. Cached(c)
  BY <1>5 DEF Cached
<1>10. DOMAIN c.jobs = {} /\ \A r \in Rank : c.booked[r] = Nobody
  BY <1>7 DEF Empty
<1> QED BY <1>8, <1>9, <1>10 DEF c, n

\* Every step of the three modules keeps the context of the resource module good, and
\* its caches unless the graph is edited.
LEMMA RmStep ==
    ASSUME CoreTyped, AcqTyped, ReqsTyped, RmSound, CachesInv, [Next]_vars
    PROVE  RmSound' /\ CachesInv'
<1> DEFINE G == RmSound' /\ CachesInv'
<1>1. ASSUME rm # Off, Kept(rm, rm'), edited \subseteq edited' PROVE G
  BY <1>1 DEF RmSound, CachesInv, Kept
<1>2. CASE rm' = Off
  BY <1>2 DEF RmSound, CachesInv
<1>3. CASE UNCHANGED <<rm, edited>>
  BY <1>3 DEF RmSound, CachesInv
<1>4. ASSUME NEW c, load_resource(c) PROVE G
  <2>1. PICK o, i : /\ i = init_resource_graph(resource_ctx_t(o.opts, TRUE), Acquired)
                    /\ rm' = IF o.ok /\ i.ok THEN i.ctx ELSE Off
    BY <1>4 DEF load_resource
  <2>2. CASE o.ok /\ i.ok
    <3> DEFINE p == o.opts
    <3> HIDE DEF p
    <3>1. Sound(i.ctx) /\ Cached(i.ctx)
      <4>1. i = init_resource_graph(resource_ctx_t(p, TRUE), Acquired)
        BY <2>1 DEF p
      <4>2. init_resource_graph(resource_ctx_t(p, TRUE), Acquired).ok
        BY <2>2, <4>1
      <4> QED BY <4>1, <4>2, LoadedKept
    <3> QED BY <2>1, <2>2, <3>1 DEF RmSound, CachesInv
  <2>3. CASE ~(o.ok /\ i.ok)
    BY <1>2, <2>1, <2>3
  <2> QED BY <2>2, <2>3
<1>5. CASE update_resource_then
  <2> DEFINE m == Head(acq)
  <2>1. rm # Off /\ rm' = update_resource(rm, m).ctx /\ edited' = edited /\ acq # << >>
    BY <1>5 DEF update_resource_then
  <2>2. m \in Update
    BY <2>1, Shorter DEF AcqTyped
  <2> HIDE DEF m
  <2>3. Kept(rm, rm')
    BY <2>1, <2>2, FollowKept DEF RmSound
  <2> QED BY <1>1, <2>1, <2>3
<1>6. CASE match_multi_request_cb
  <2> DEFINE x == Head(reqs)
             s == x.jobs
  <2>1. rm # Off /\ rm' = match_multi(rm, s).ctx /\ edited' = edited /\ reqs # << >> /\ x.k = "match"
    BY <1>6 DEF match_multi_request_cb
  <2>2. x \in NotifyRequest \cup MatchRequest
    BY <2>1, Shorter DEF ReqsTyped
  <2> HIDE DEF x
  <2>3. s \in Seq(Job)
    BY <2>1, <2>2 DEF NotifyRequest, MatchRequest
  <2> HIDE DEF s
  <2>4. Kept(rm, rm')
    BY <2>1, <2>3, MatchKept DEF RmSound
  <2> QED BY <1>1, <2>1, <2>4
<1>7. ASSUME NEW who, rm' = disconnect_request_cb(who), edited' = edited PROVE G
  <2>1. CASE rm = Off
    BY <1>2, <1>7, <2>1 DEF disconnect_request_cb
  <2>2. CASE rm # Off
    <3>1. Only(rm, rm', {"notify_msgs"})
      BY <1>7, <2>2 DEF disconnect_request_cb, RmSound, Sound, Only, CtxFields
    <3>2. Kept(rm, rm')
      BY <2>2, <3>1, SoundOnly, CachedOnly DEF Kept, RmSound
    <3> QED BY <1>1, <1>7, <2>2, <3>2
  <2> QED BY <2>1, <2>2
<1>8. CASE notify_request_cb
  <2>1. rm # Off /\ edited' = edited
    BY <1>8 DEF notify_request_cb
  <2>2. CASE rm' = rm
    BY <1>3, <2>1, <2>2
  <2>3. CASE rm' # rm
    <3> DEFINE who == Head(reqs).who
    <3>1. rm' = [rm EXCEPT !.notify_msgs = @ \cup {who}]
      BY <1>8, <2>3 DEF notify_request_cb
    <3> HIDE DEF who
    <3>2. Only(rm, rm', {"notify_msgs"})
      BY <2>1, <3>1 DEF RmSound, Sound, Only, CtxFields
    <3>3. Kept(rm, rm')
      BY <2>1, <3>2, SoundOnly, CachedOnly DEF Kept, RmSound
    <3> QED BY <1>1, <2>1, <3>3
  <2> QED BY <2>2, <2>3
<1>9. CASE status_request_cb
  <2> DEFINE all == StatusAll(rm)
             down == StatusDown(rm)
  <2>1. /\ rm # Off /\ edited' = edited
        /\ \E z : rm' = [rm EXCEPT !.r_alloc = z, !.r_all = all, !.updated = FALSE,
                                   !.r_down = down, !.down_updated = FALSE]
    BY <1>9 DEF status_request_cb
  <2>2. PICK z : rm' = [rm EXCEPT !.r_alloc = z, !.r_all = all, !.updated = FALSE,
                                   !.r_down = down, !.down_updated = FALSE]
    BY <2>1
  <2>3. all = IF rm.updated THEN rm.ranks ELSE rm.r_all
    BY DEF StatusAll, run_find
  <2>4. down = IF rm.down_updated THEN rm.ranks \ rm.up ELSE rm.r_down
    BY DEF StatusDown, run_find
  <2> HIDE DEF all, down
  <2>5. /\ Only(rm, rm', {"r_alloc", "r_all", "updated", "r_down", "down_updated"})
        /\ rm'.r_all = all /\ rm'.r_down = down
    BY <2>1, <2>2 DEF RmSound, Sound, Only, CtxFields
  <2>6. rm'.ranks = rm.ranks /\ rm'.up = rm.up
    BY <2>5 DEF Only, CtxFields
  <2>7. Cached(rm) => Cached(rm')
    BY <2>3, <2>4, <2>5, <2>6 DEF Cached
  <2>8. Kept(rm, rm')
    BY <2>1, <2>5, <2>7, SoundOnly DEF Kept, RmSound
  <2> QED BY <1>1, <2>1, <2>8
<1>10. ASSUME NEW r, NEW up \in BOOLEAN, set_status_request_cb(r, up) PROVE G
  <2> DEFINE c == mark_now(rm, {r}, up)
  <2>1. rm # Off /\ edited \subseteq edited' /\ rm' = c
    BY <1>10 DEF set_status_request_cb, Edit
  <2>2. Only(rm, c, {"up", "nodes_up", "down_updated"}) /\ c.down_updated
    BY <2>1, MarkNow DEF RmSound, Sound
  <2> HIDE DEF c
  <2>3. c.ranks = rm.ranks /\ c.updated = rm.updated /\ c.r_all = rm.r_all
    BY <2>2 DEF Only, CtxFields
  <2>4. Kept(rm, c)
    BY <2>1, <2>2, <2>3, SoundOnly DEF Kept, RmSound, Cached
  <2> QED BY <1>1, <2>1, <2>4
<1>11. ASSUME NEW r, set_property_request_cb(r) \/ remove_property_request_cb(r) PROVE G
  <2>1. /\ rm # Off /\ edited \subseteq edited'
        /\ \E z : rm' = [rm EXCEPT !.props = z]
    BY <1>11 DEF set_property_request_cb, remove_property_request_cb, Edit
  <2>2. Only(rm, rm', {"props"})
    BY <2>1 DEF RmSound, Sound, Only, CtxFields
  <2>3. Kept(rm, rm')
    BY <2>1, <2>2, SoundOnly, CachedOnly DEF Kept, RmSound
  <2> QED BY <1>1, <2>1, <2>3
<1>12. ASSUME NEW r \in Rank, add_subgraph_request_cb(r) PROVE G
  <2> DEFINE x == [rm EXCEPT !.ranks = @ \cup {r}, !.up = @ \cup {r}]
  <2>1. rm # Off /\ "graph" \in edited' /\ rm' = InitTraverser(x).ctx
    BY <1>12 DEF add_subgraph_request_cb, Edit, run_add_subgraph
  <2>2. Only(rm, x, {"ranks", "up"}) /\ x.ranks = rm.ranks \cup {r}
    BY <2>1 DEF RmSound, Sound, Only, CtxFields
  <2> HIDE DEF x
  <2>3. rm' = IF x.root THEN [x EXCEPT !.initialized = TRUE] ELSE x
    BY <2>1 DEF InitTraverser, Done, Error
  <2>4. Only(rm, rm', {"ranks", "up", "initialized"}) /\ rm'.ranks = rm.ranks \cup {r} /\ rm'.initialized
    BY <2>1, <2>2, <2>3 DEF RmSound, Sound, Only, CtxFields
  <2>5. /\ rm'.root = rm.root /\ rm'.booked = rm.booked /\ rm'.jobs = rm.jobs
        /\ rm'.allocations = rm.allocations /\ DOMAIN rm' = CtxFields
    BY <2>4 DEF Only, CtxFields
  <2>6. Sound(rm')
    BY <2>1, <2>4, <2>5 DEF RmSound, Sound
  <2> QED BY <2>1, <2>6 DEF RmSound, CachesInv
<1>13. ASSUME NEW r \in Rank, remove_subgraph_request_cb(r) PROVE G
  <2> DEFINE x == [rm EXCEPT !.ranks = @ \ {r}, !.up = @ \ {r}, !.props = @ \ {r}]
  <2>1. rm # Off /\ "graph" \in edited' /\ rm' = InitTraverser(x).ctx /\ rm.booked[r] = Nobody
    BY <1>13 DEF remove_subgraph_request_cb, Edit, run_remove_subgraph
  <2>2. Only(rm, x, {"ranks", "up", "props"}) /\ x.ranks = rm.ranks \ {r}
    BY <2>1 DEF RmSound, Sound, Only, CtxFields
  <2> HIDE DEF x
  <2>3. rm' = IF x.root THEN [x EXCEPT !.initialized = TRUE] ELSE x
    BY <2>1 DEF InitTraverser, Done, Error
  <2>4. Only(rm, rm', {"ranks", "up", "props", "initialized"}) /\ rm'.ranks = rm.ranks \ {r} /\ rm'.initialized
    BY <2>1, <2>2, <2>3 DEF RmSound, Sound, Only, CtxFields
  <2>5. /\ rm'.root = rm.root /\ rm'.booked = rm.booked /\ rm'.jobs = rm.jobs
        /\ rm'.allocations = rm.allocations /\ DOMAIN rm' = CtxFields
    BY <2>4 DEF Only, CtxFields
  <2>6. Sound(rm')
    BY <2>1, <2>4, <2>5 DEF RmSound, Sound
  <2> QED BY <2>1, <2>6 DEF RmSound, CachesInv
<1>14. ASSUME NEW j \in Job, jobmanager_hello_cb(j) PROVE G
  <2> DEFINE R == WithFreeRanks(HelloR(j), jm[j].freed)
  <2>1. edited' = edited /\ rm' = (IF queue_of(j) \notin DOMAIN qm.queues THEN Error(rm)
                                   ELSE reapi_update_allocate(rm, j, R)).ctx
    BY <1>14 DEF jobmanager_hello_cb
  <2> HIDE DEF R
  <2>2. CASE rm' = rm
    BY <1>3, <2>1, <2>2
  <2>3. CASE rm' # rm
    <3>1. rm # Off /\ rm' = update_request_cb(rm, j, R).ctx
      BY <2>1, <2>3 DEF Error, reapi_update_allocate
    <3>2. Kept(rm, rm')
      BY <3>1, UpdateKept DEF RmSound
    <3> QED BY <1>1, <2>1, <3>1, <3>2
  <2> QED BY <2>2, <2>3
<1>15. ASSUME NEW j \in Job, NEW ranks, jobmanager_free_cb(j, ranks) PROVE G
  <2> DEFINE final == ranks = jm[j].R.ranks \ jm[j].freed
             c == IF final THEN reapi_cancel(rm, j) ELSE reapi_cancel_R(rm, j, ranks)
  <2>1. edited' = edited /\ (rm' = rm \/ rm' = c.ctx)
    BY <1>15 DEF jobmanager_free_cb
  <2>2. CASE rm' = rm
    BY <1>3, <2>1, <2>2
  <2>3. CASE rm' # rm
    <3>1. final \in BOOLEAN
      OBVIOUS
    <3> HIDE DEF final
    <3>2. rm # Off
      BY <2>1, <2>3 DEF reapi_cancel, reapi_cancel_R
    <3>3. Kept(rm, c.ctx)
      BY <3>1, <3>2, ReleaseKept DEF RmSound
    <3> QED BY <1>1, <2>1, <2>3, <3>2, <3>3
  <2> QED BY <2>2, <2>3
<1>16. CASE CoreNext
  BY <1>16, <1>3 DEF CoreNext, CoreUp, CoreDown, CoreLost, CoreExpiration, Tell
<1>17. CASE qmanager_destroy \/ LeaveFz
  BY <1>17, <1>7 DEF qmanager_destroy, LeaveFz
<1>18. CASE ModuleNext
  <2>1. ASSUME NEW c, load_feasibility(c) \/ load_qmanager(c) PROVE G
    BY <2>1, <1>3 DEF load_feasibility, load_qmanager
  <2>2. CASE unload_resource
    BY <2>2, <1>2 DEF unload_resource
  <2> QED BY <1>18, <1>4, <1>17, <2>1, <2>2 DEF ModuleNext, unload_feasibility, unload_qmanager
<1>19. CASE AdminNext
  <2>1. CASE quiescent_request_cb
    BY <2>1, <1>3 DEF quiescent_request_cb
  <2> QED BY <1>19, <1>9, <1>10, <1>11, <1>12, <1>13, <2>1 DEF AdminNext
<1>20. CASE HandlerNext
  <2>1. CASE feasibility_notified
    BY <2>1, <1>3, <1>17 DEF feasibility_notified
  <2>2. CASE update_on_resource_response
    BY <2>2, <1>3, <1>17 DEF update_on_resource_response
  <2>3. CASE check_watcher_cb \/ match_multi_then \/ process_pending_quiescent_requests
    BY <2>3, <1>3 DEF check_watcher_cb, match_multi_then, process_pending_quiescent_requests
  <2> QED BY <1>20, <1>5, <1>6, <1>8, <2>1, <2>2, <2>3 DEF HandlerNext
<1>21. CASE JobNext
  <2>1. ASSUME NEW j, Submit(j) \/ jobmanager_alloc_cb(j) PROVE G
    BY <2>1, <1>3 DEF Submit, jobmanager_alloc_cb
  <2> QED BY <1>21, <1>14, <1>15, <2>1 DEF JobNext
<1>22. CASE UNCHANGED vars
  BY <1>22, <1>3 DEF vars
<1> QED BY <1>16, <1>18, <1>19, <1>20, <1>21, <1>22 DEF Next

-----------------------------------------------------------------------------
\* The responses to the queue manager stay in their types.
LEMMA ToQmTypedStep ==
    ASSUME ReqsTyped, ToQmTyped, RmSound, [Next]_vars
    PROVE  ToQmTyped'
<1> DEFINE A == {EmptyResponse, StreamError} \cup MatchAnswer
<1>1. CASE UNCHANGED toQm
  BY <1>1 DEF ToQmTyped
<1>2. CASE toQm' = << >>
  BY <1>2 DEF ToQmTyped
<1>3. CASE toQm' = Tail(toQm)
  BY <1>3, TailOf DEF ToQmTyped
<1>4. ASSUME NEW x \in {EmptyResponse, StreamError}, toQm' = Append(toQm, x) PROVE ToQmTyped'
  <2> HIDE DEF A
  <2>1. x \in A /\ toQm \in Seq(A)
    BY DEF A, ToQmTyped
  <2>2. Append(toQm, x) \in Seq(A)
    BY <2>1
  <2> QED BY <1>4, <2>2 DEF ToQmTyped, A
<1>5. ASSUME NEW subs, NEW msg, Respond(subs, msg) PROVE ToQmTyped'
  BY <1>5, <1>1, <1>4 DEF Respond, Notified
<1>6. CASE notify_request_cb
  <2> DEFINE old == [Nothing EXCEPT !.res = rm.notify_resources]
             now == [Nothing EXCEPT !.up = rm.up, !.down = rm.ranks \ rm.up,
                                    !.lost = rm.notify_lost, !.exp = rm.notify_expiration]
             out == IF IsSet(rm.opts, "load-file") THEN <<StreamError>>
                    ELSE <<Payload(old), Payload(now)>>
             f == [i \in DOMAIN out |-> IF out[i] = StreamError THEN StreamError ELSE Notified]
  <2>1. toQm' = toQm \/ toQm' = toQm \o f
    BY <1>6 DEF notify_request_cb
  <2>2. PICK N : out \in Seq(N)
    <3> DEFINE N == {StreamError, Payload(old), Payload(now)}
    <3> HIDE DEF old, now
    <3> DEFINE a == Payload(old)
               b == Payload(now)
               e == StreamError
    <3>a. out = (IF IsSet(rm.opts, "load-file") THEN <<e>> ELSE <<a, b>>) /\ N = {e, a, b}
      OBVIOUS
    <3> HIDE DEF a, b, e, out, N
    <3>b. <<e>> \in Seq(N) /\ <<a, b>> \in Seq(N)
      BY <3>a
    <3>1. out \in Seq(N)
      BY <3>a, <3>b
    <3> QED BY <3>1
  <2> HIDE DEF A, out
  <2>3. \A i \in DOMAIN out : f[i] \in A
    BY DEF A, Notified
  <2>4. DOMAIN f = DOMAIN out /\ f = [i \in DOMAIN out |-> f[i]]
    OBVIOUS
  <2> HIDE DEF f
  <2>5. f \in Seq(A)
    BY <2>2, <2>3, <2>4, SameLength
  <2>6. toQm \o f \in Seq(A)
    BY <2>5, InARow DEF ToQmTyped, A
  <2> QED BY <1>1, <2>1, <2>6 DEF ToQmTyped, A
<1>7. CASE match_multi_request_cb
  <2> DEFINE x == Head(reqs)
             s == x.jobs
             n == x.queue
             r == match_multi(rm, s)
             out == r.out
             f == [i \in DOMAIN out |-> [k |-> "match", queue |-> n, m |-> out[i]]]
  <2>1. rm # Off /\ reqs # << >> /\ x.k = "match" /\ (toQm' = toQm \/ toQm' = toQm \o f)
    BY <1>7 DEF match_multi_request_cb
  <2>2. x \in NotifyRequest \cup MatchRequest
    BY <2>1, Shorter DEF ReqsTyped
  <2> HIDE DEF x, A
  <2>3. s \in Seq(Job) /\ n \in Names
    BY <2>1, <2>2 DEF NotifyRequest, MatchRequest
  <2> HIDE DEF s, n
  <2>4. out \in Seq(Result)
    BY <2>1, <2>3, MatchesEffect DEF RmSound
  <2> HIDE DEF out, r
  <2>5. ASSUME NEW i \in DOMAIN out PROVE f[i] \in A
    <3> DEFINE y == out[i]
    <3>1. y \in Result
      BY <2>4, <2>5
    <3>2. f[i] = [k |-> "match", queue |-> n, m |-> y]
      BY <2>5
    <3> HIDE DEF y, f
    <3>3. f[i] \in MatchAnswer
      BY <2>3, <3>1, <3>2 DEF MatchAnswer
    <3> QED BY <3>3 DEF A
  <2>6. DOMAIN f = DOMAIN out /\ f = [i \in DOMAIN out |-> f[i]]
    OBVIOUS
  <2> HIDE DEF f
  <2>7. f \in Seq(A)
    BY <2>4, <2>5, <2>6, SameLength
  <2>8. toQm \o f \in Seq(A)
    BY <2>7, InARow DEF ToQmTyped, A
  <2> QED BY <1>1, <2>1, <2>8 DEF ToQmTyped, A
<1>8. CASE CoreNext
  BY <1>8, <1>1 DEF CoreNext, CoreUp, CoreDown, CoreLost, CoreExpiration, Tell
<1>9. CASE qmanager_destroy
  BY <1>9, <1>2 DEF qmanager_destroy
<1>10. CASE LeaveFz
  BY <1>10, <1>1 DEF LeaveFz
<1>11. CASE ModuleNext
  <2>1. ASSUME NEW c, load_feasibility(c) \/ load_qmanager(c) PROVE ToQmTyped'
    BY <2>1, <1>1 DEF load_feasibility, load_qmanager
  <2>2. CASE unload_resource
    BY <2>2, <1>1, <1>4 DEF unload_resource
  <2>3. ASSUME NEW c, load_resource(c) PROVE ToQmTyped'
    BY <2>3, <1>2 DEF load_resource
  <2> QED BY <1>9, <1>10, <1>11, <2>1, <2>2, <2>3 DEF ModuleNext, unload_feasibility, unload_qmanager
<1>12. CASE AdminNext
  <2>1. ASSUME NEW r, NEW up, set_status_request_cb(r, up) PROVE ToQmTyped'
    BY <2>1, <1>5 DEF set_status_request_cb
  <2> QED BY <1>12, <1>1, <2>1 DEF AdminNext, set_property_request_cb, remove_property_request_cb,
         add_subgraph_request_cb, remove_subgraph_request_cb, status_request_cb, quiescent_request_cb
<1>13. CASE HandlerNext
  <2>1. CASE feasibility_notified
    BY <2>1, <1>1, <1>10 DEF feasibility_notified
  <2>2. CASE update_on_resource_response
    BY <2>2, <1>3, <1>9 DEF update_on_resource_response
  <2>3. CASE check_watcher_cb \/ process_pending_quiescent_requests
    BY <2>3, <1>1 DEF check_watcher_cb, process_pending_quiescent_requests
  <2>4. CASE match_multi_then
    BY <2>4, <1>3 DEF match_multi_then
  <2>5. CASE update_resource_then
    BY <2>5, <1>5 DEF update_resource_then
  <2> QED BY <1>13, <1>6, <1>7, <2>1, <2>2, <2>3, <2>4, <2>5 DEF HandlerNext
<1>14. CASE JobNext
  BY <1>14, <1>1 DEF JobNext, Submit, jobmanager_alloc_cb, jobmanager_hello_cb, jobmanager_free_cb
<1>15. CASE UNCHANGED vars
  BY <1>15, <1>1 DEF vars
<1> QED BY <1>8, <1>11, <1>12, <1>13, <1>14, <1>15 DEF Next

\* What the job manager knows stays in its types.
LEMMA JmTypedStep ==
    ASSUME JmTyped, QmTyped, [Next]_vars
    PROVE  JmTyped'
<1> DEFINE T == [st : States, R : GivenR, freed : SUBSET Rank]
<1>1. CASE UNCHANGED jm
  BY <1>1 DEF JmTyped
<1>2. ASSUME NEW j \in Job, NEW st \in States, jm' = [jm EXCEPT ![j].st = st] PROVE JmTyped'
  BY <1>2 DEF JmTyped
<1>3. ASSUME NEW j, Submit(j) PROVE JmTyped'
  <2>1. PICK st : st \in {"infeasible", "idle"} /\ jm' = [jm EXCEPT ![j].st = st]
    BY <1>3 DEF Submit
  <2>2. CASE j \in Job
    BY <1>2, <2>1, <2>2 DEF States
  <2>3. CASE j \notin Job
    BY <2>1, <2>3 DEF JmTyped
  <2> QED BY <2>2, <2>3
<1>4. CASE qmanager_destroy
  <2>1. jm' = [j \in Job |-> IF jm[j].st = "waiting" THEN [jm[j] EXCEPT !.st = "idle"] ELSE jm[j]]
    BY <1>4 DEF qmanager_destroy
  <2> QED BY <2>1 DEF JmTyped, States
<1>5. ASSUME NEW j \in Job, jobmanager_hello_cb(j) PROVE JmTyped'
  <2>1. jm' = jm \/ jm' = [jm EXCEPT ![j].st = "killed"]
    BY <1>5 DEF jobmanager_hello_cb
  <2>2. "killed" \in States
    BY DEF States
  <2> QED BY <1>1, <1>2, <2>1, <2>2
<1>6. ASSUME NEW j \in Job, jobmanager_alloc_cb(j) PROVE JmTyped'
  <2>1. jm' = [jm EXCEPT ![j].st = "denied"] \/ jm' = [jm EXCEPT ![j].st = "waiting"]
    BY <1>6 DEF jobmanager_alloc_cb
  <2>2. "denied" \in States /\ "waiting" \in States
    BY DEF States, Notes
  <2> QED BY <1>2, <2>1, <2>2
<1>7. ASSUME NEW j \in Job, NEW ranks \in SUBSET Rank, jobmanager_free_cb(j, ranks) PROVE JmTyped'
  <2> DEFINE final == ranks = jm[j].R.ranks \ jm[j].freed
  <2>1. jm' = [jm EXCEPT ![j].freed = @ \cup ranks, ![j].st = IF final THEN "gone" ELSE @]
    BY <1>7 DEF jobmanager_free_cb
  <2> HIDE DEF final
  <2>2. \A k \in Job : jm'[k] \in T
    <3> SUFFICES ASSUME NEW k \in Job PROVE jm'[k] \in T
      OBVIOUS
    <3> DEFINE x == jm[k]
    <3>1. x \in T
      BY DEF JmTyped
    <3>2. jm'[k] = x \/ jm'[k] = [x EXCEPT !.freed = @ \cup ranks, !.st = IF final THEN "gone" ELSE @]
      BY <2>1 DEF JmTyped
    <3> HIDE DEF x
    <3>3. [x EXCEPT !.freed = @ \cup ranks, !.st = IF final THEN "gone" ELSE @] \in T
      BY <3>1 DEF States
    <3> QED BY <3>1, <3>2, <3>3
  <2> HIDE DEF T
  <2>3. DOMAIN jm' = Job /\ jm' = [k \in Job |-> jm'[k]]
    BY <2>1 DEF JmTyped
  <2>4. jm' \in [Job -> T]
    BY <2>2, <2>3
  <2> QED BY <2>4 DEF JmTyped, T
<1>8. CASE check_watcher_cb
  <2> DEFINE names == DOMAIN qm.queues
             any == \E n \in names : qm.queues[n].sched
             looped == [n \in names |-> IF any THEN run_sched_loop(qm.queues[n]) ELSE qm.queues[n]]
             given == UNION {ToSet(looped[n].alloced) : n \in DOMAIN looped}
             denied == UNION {ToSet(looped[n].rejected) : n \in DOMAIN looped}
             r(j) == (CHOOSE a \in given : a.j = j).R
             w(j) == (CHOOSE d \in denied : d.j = j).note
             new(j) == IF \E a \in given : a.j = j
                       THEN [jm[j] EXCEPT !.st = "running", !.R = r(j)]
                       ELSE IF \E d \in denied : d.j = j THEN [jm[j] EXCEPT !.st = w(j)]
                       ELSE jm[j]
  <2>1. qm # Off /\ jm' = [j \in Job |-> new(j)]
    BY <1>8 DEF check_watcher_cb, post_sched_loop
  <2>2. ASSUME NEW n \in names
        PROVE  ToSet(looped[n].alloced) \subseteq [j : Job, R : GivenR]
               /\ ToSet(looped[n].rejected) \subseteq [j : Job \cup {NoJob}, note : Notes]
    <3> DEFINE q == qm.queues[n]
               l == looped[n]
    <3>1. QueueTyped(q) /\ (l = q \/ l = run_sched_loop(q))
      BY <2>1, <2>2 DEF QmTyped
    <3> HIDE DEF q, l
    <3>2. l.alloced = q.alloced /\ l.rejected = q.rejected
      BY <3>1 DEF run_sched_loop, QueueTyped, QueueFields
    <3>3. q.alloced \in Seq([j : Job, R : GivenR]) /\ q.rejected \in Seq([j : Job \cup {NoJob}, note : Notes])
      BY <3>1 DEF QueueTyped
    <3>4. ToSet(q.alloced) \subseteq [j : Job, R : GivenR]
      BY <3>3, Elements
    <3>5. ToSet(q.rejected) \subseteq [j : Job \cup {NoJob}, note : Notes]
      BY <3>3, Elements
    <3> QED BY <3>2, <3>4, <3>5 DEF l
  <2>3. DOMAIN looped = names
    OBVIOUS
  <2> HIDE DEF looped
  <2>4. given \subseteq [j : Job, R : GivenR] /\ denied \subseteq [j : Job \cup {NoJob}, note : Notes]
    BY <2>2, <2>3
  <2> HIDE DEF given, denied
  <2>5. ASSUME NEW j \in Job PROVE new(j) \in T
    <3>1. jm[j] \in T
      BY DEF JmTyped
    <3>2. CASE \E a \in given : a.j = j
      <4>1. r(j) \in GivenR
        <5> DEFINE x == CHOOSE a \in given : a.j = j
        <5>1. x \in given
          BY <3>2
        <5>2. x \in [j : Job, R : GivenR]
          BY <2>4, <5>1
        <5> HIDE DEF x
        <5>3. x.R \in GivenR
          BY <5>2
        <5> QED BY <5>3 DEF x
      <4> HIDE DEF r
      <4>2. [jm[j] EXCEPT !.st = "running", !.R = r(j)] \in T
        BY <3>1, <4>1 DEF States
      <4> QED BY <3>2, <4>2
    <3>3. CASE ~(\E a \in given : a.j = j) /\ \E d \in denied : d.j = j
      <4>1. w(j) \in Notes
        <5> DEFINE x == CHOOSE d \in denied : d.j = j
        <5>1. x \in denied
          BY <3>3
        <5>2. x \in [j : Job \cup {NoJob}, note : Notes]
          BY <2>4, <5>1
        <5> HIDE DEF x
        <5>3. x.note \in Notes
          BY <5>2
        <5> QED BY <5>3 DEF x
      <4> HIDE DEF w, r
      <4>2. [jm[j] EXCEPT !.st = w(j)] \in T
        BY <3>1, <4>1 DEF States
      <4> QED BY <3>3, <4>2
    <3>4. CASE ~(\E a \in given : a.j = j) /\ ~\E d \in denied : d.j = j
      <4> HIDE DEF w, r
      <4> QED BY <3>1, <3>4
    <3> QED BY <3>2, <3>3, <3>4
  <2> HIDE DEF new, T
  <2>6. jm' \in [Job -> T]
    BY <2>1, <2>5
  <2> QED BY <2>6 DEF JmTyped, T
<1>9. CASE CoreNext
  BY <1>9, <1>1 DEF CoreNext, CoreUp, CoreDown, CoreLost, CoreExpiration, Tell
<1>10. CASE ModuleNext
  BY <1>10, <1>1, <1>4 DEF ModuleNext, load_resource, load_feasibility, load_qmanager, unload_resource,
         unload_feasibility, unload_qmanager, LeaveFz
<1>11. CASE AdminNext
  BY <1>11, <1>1 DEF AdminNext, set_status_request_cb, set_property_request_cb,
         remove_property_request_cb, add_subgraph_request_cb, remove_subgraph_request_cb,
         status_request_cb, quiescent_request_cb, Edit
<1>12. CASE HandlerNext
  <2>1. CASE update_on_resource_response
    BY <2>1, <1>1, <1>4 DEF update_on_resource_response
  <2> QED BY <1>12, <1>1, <1>8, <2>1 DEF HandlerNext, update_resource_then, notify_request_cb,
         match_multi_request_cb, feasibility_notified, LeaveFz, match_multi_then,
         process_pending_quiescent_requests
<1>13. CASE JobNext
  BY <1>13, <1>3, <1>5, <1>6, <1>7 DEF JobNext
<1>14. CASE UNCHANGED vars
  BY <1>14, <1>1 DEF vars
<1> QED BY <1>9, <1>10, <1>11, <1>12, <1>13, <1>14 DEF Next

-----------------------------------------------------------------------------
\* The types hold in every state.
LEMMA TypedAlways ==
    Spec => [](Typed /\ CachesInv)
<1>1. Init => Typed /\ CachesInv
  <2> SUFFICES ASSUME Init PROVE Typed /\ CachesInv
    OBVIOUS
  <2>1. CoreTyped
    BY ScenarioAssumption DEF Init, CoreTyped
  <2>2. JmTyped
    BY DEF Init, JmTyped, States, GivenR
  <2>3. AcqTyped /\ ReqsTyped /\ ToQmTyped
    BY DEF Init, AcqTyped, ReqsTyped, ToQmTyped
  <2>4. QmTyped /\ RmSound /\ CachesInv
    BY DEF Init, QmTyped, RmSound, CachesInv
  <2> QED BY <2>1, <2>2, <2>3, <2>4 DEF Typed
<1>2. Typed /\ CachesInv /\ [Next]_vars => (Typed /\ CachesInv)'
  BY CoreTypedStep, AcqTypedStep, ReqsTypedStep, QmTypedStep, RmStep, ToQmTypedStep, JmTypedStep DEF Typed
<1> QED BY <1>1, <1>2, PTL DEF Spec

\* The answer of a status request is never out of date: whatever happened to the nodes
\* since the caches were filled, it has every node and knows which are down, unless the
\* graph was edited (status_request_cb, mark_now, update_resource).
THEOREM StatusIsCurrent == Spec => []StatusCurrent
<1>1. CachesInv => StatusCurrent
  <2> SUFFICES ASSUME CachesInv, rm # Off, "graph" \notin edited
               PROVE  /\ rm.ranks \subseteq StatusAll(rm)
                      /\ StatusDown(rm) \cap rm.ranks = rm.ranks \ rm.up
    BY DEF StatusCurrent
  <2>1. Cached(rm)
    BY DEF CachesInv
  <2>2. StatusAll(rm) = IF rm.updated THEN rm.ranks ELSE rm.r_all
    BY DEF StatusAll, run_find
  <2>3. StatusDown(rm) = IF rm.down_updated THEN rm.ranks \ rm.up ELSE rm.r_down
    BY DEF StatusDown, run_find
  <2> QED BY <2>1, <2>2, <2>3 DEF Cached
<1> QED BY <1>1, TypedAlways, PTL

-----------------------------------------------------------------------------
(***************************************************************************)
(* Streams of updates.  s is a stream of messages, of which those behind    *)
(* the first o count; a reader has the ranks R, of which U are up, and the   *)
(* end E.                                                                   *)
(***************************************************************************)
Says(m, r) == r \in m.up \cup m.down \cup m.lost

\* When the reader has read the stream it has the ranks T.
RanksLead(s, o, R, T) == T = {r \in R : \A i \in DOMAIN s : i > o => r \notin s[i].lost}

\* No message says that a rank is up which is not there by then.
Timely(s, o, R) ==
    \A i \in DOMAIN s : i > o => \A r \in s[i].up :
       r \in R /\ \A k \in DOMAIN s : o < k /\ k < i => r \notin s[k].lost

\* The last message about a rank says that it is up; or there is none and it is.
Rises(s, o, U, r) ==
    \/ \E i \in DOMAIN s : /\ i > o /\ r \in s[i].up \ (s[i].down \cup s[i].lost)
                           /\ \A k \in DOMAIN s : k > i => ~Says(s[k], r)
    \/ r \in U /\ \A i \in DOMAIN s : i > o => ~Says(s[i], r)

\* When the reader has read the stream, V are up.
UpLeads(s, o, R, U, V) == \A r \in R : r \in V <=> Rises(s, o, U, r)

\* When the reader has read the stream its end is e.
EndLeads(s, o, E, e) ==
    \/ \E i \in DOMAIN s : /\ i > o /\ ~(s[i].exp < 0) /\ EndOf(s[i].exp) = e
                           /\ \A k \in DOMAIN s : k > i => s[k].exp < 0
    \/ E = e /\ \A i \in DOMAIN s : i > o => s[i].exp < 0

\* t is s with one more message.
Longer(s, t, n) ==
    n \in Nat /\ DOMAIN s = 1..n /\ DOMAIN t = 1..(n + 1) /\ \A i \in 1..n : t[i] = s[i]

\* t is s without its first message.
Read(s, t, n) ==
    n \in Nat /\ DOMAIN s = 1..(n + 1) /\ DOMAIN t = 1..n /\ \A i \in 1..n : t[i] = s[i + 1]

\* One more message.
LEMMA PutMessage ==
    ASSUME NEW s, NEW t, NEW n, Longer(s, t, n), NEW o \in {0, 1}, o <= n, NEW m, m = t[n + 1],
           NEW R, NEW T, RanksLead(s, o, R, T)
    PROVE  /\ RanksLead(t, o, R, T \ m.lost)
           /\ Timely(s, o, R) /\ m.up \subseteq T => Timely(t, o, R)
           /\ \A U, V : UpLeads(s, o, R, U, V) => UpLeads(t, o, R, U, (V \cup m.up) \ (m.down \cup m.lost))
           /\ \A E : ~(m.exp < 0) => EndLeads(t, o, E, EndOf(m.exp))
           /\ \A E, e : m.exp < 0 /\ EndLeads(s, o, E, e) => EndLeads(t, o, E, e)
<1> DEFINE q == n + 1
<1>1. /\ n \in Nat /\ q \in Nat /\ o \in Nat /\ q > o /\ DOMAIN s \subseteq Nat /\ q \notin DOMAIN s
      /\ DOMAIN t = DOMAIN s \cup {q} /\ \A i \in DOMAIN s : q > i /\ ~(i > q) /\ t[i] = s[i]
  BY DEF Longer
<1>2. t[q] = m /\ ~(q > q) /\ q \in DOMAIN t
  BY <1>1
<1> HIDE DEF q
<1>3. RanksLead(t, o, R, T \ m.lost)
  BY <1>1, <1>2 DEF RanksLead
<1>4. ASSUME Timely(s, o, R), m.up \subseteq T PROVE Timely(t, o, R)
  <2> SUFFICES ASSUME NEW i \in DOMAIN t, i > o, NEW r \in t[i].up
               PROVE  r \in R /\ \A k \in DOMAIN t : o < k /\ k < i => r \notin t[k].lost
    BY DEF Timely
  <2>1. CASE i \in DOMAIN s
    <3>1. r \in R /\ \A k \in DOMAIN s : o < k /\ k < i => r \notin s[k].lost
      BY <1>1, <1>4, <2>1 DEF Timely
    <3>2. ~(q < i)
      BY <1>1, <2>1
    <3> QED BY <1>1, <3>1, <3>2
  <2>2. CASE i = q
    <3>1. r \in R /\ \A k \in DOMAIN s : k > o => r \notin s[k].lost
      BY <1>2, <1>4, <2>2 DEF RanksLead
    <3>2. \A k \in DOMAIN t : o < k /\ k < q => k \in DOMAIN s /\ k > o
      BY <1>1, <1>2
    <3> QED BY <1>1, <2>2, <3>1, <3>2
  <2> QED BY <1>1, <2>1, <2>2
<1>5. ASSUME NEW U, NEW V, UpLeads(s, o, R, U, V)
      PROVE  UpLeads(t, o, R, U, (V \cup m.up) \ (m.down \cup m.lost))
  <2> SUFFICES ASSUME NEW r \in R
               PROVE  r \in (V \cup m.up) \ (m.down \cup m.lost) <=> Rises(t, o, U, r)
    BY DEF UpLeads
  <2>1. r \in V <=> Rises(s, o, U, r)
    BY <1>5 DEF UpLeads
  <2>2. CASE Says(m, r)
    <3>1. r \in (V \cup m.up) \ (m.down \cup m.lost) <=> r \in m.up \ (m.down \cup m.lost)
      BY <2>2 DEF Says
    <3>2. \A i \in DOMAIN t : (\A k \in DOMAIN t : k > i => ~Says(t[k], r)) => i = q
      BY <1>1, <1>2, <2>2
    <3>3. \A k \in DOMAIN t : ~(k > q)
      BY <1>1, <1>2
    <3>4. ~\A i \in DOMAIN t : i > o => ~Says(t[i], r)
      BY <1>1, <1>2, <2>2
    <3>5. Rises(t, o, U, r) <=> r \in t[q].up \ (t[q].down \cup t[q].lost)
      BY <1>1, <1>2, <3>2, <3>3, <3>4 DEF Rises
    <3> QED BY <1>2, <3>1, <3>5
  <2>3. CASE ~Says(m, r)
    <3>1. r \in (V \cup m.up) \ (m.down \cup m.lost) <=> r \in V
      BY <2>3 DEF Says
    <3>2. r \notin t[q].up
      BY <1>2, <2>3 DEF Says
    <3>3. Rises(t, o, U, r) <=> Rises(s, o, U, r)
      BY <1>1, <1>2, <2>3, <3>2 DEF Rises
    <3> QED BY <2>1, <3>1, <3>3
  <2> QED BY <2>2, <2>3
<1>6. ASSUME NEW E, ~(m.exp < 0) PROVE EndLeads(t, o, E, EndOf(m.exp))
  <2>1. \A k \in DOMAIN t : ~(k > q)
    BY <1>1, <1>2
  <2> QED BY <1>1, <1>2, <1>6, <2>1 DEF EndLeads
<1>7. ASSUME NEW E, NEW e, m.exp < 0, EndLeads(s, o, E, e) PROVE EndLeads(t, o, E, e)
  BY <1>1, <1>2, <1>7 DEF EndLeads
<1> QED BY <1>3, <1>4, <1>5, <1>6, <1>7

\* The first message is read: what is left of the stream leads to the same.
LEMMA TakeMessage ==
    ASSUME NEW s, NEW t, NEW n, Read(s, t, n), NEW m, m = s[1],
           NEW R, NEW T, RanksLead(s, 0, R, T)
    PROVE  /\ RanksLead(t, 0, R \ m.lost, T)
           /\ Timely(s, 0, R) => m.up \subseteq R /\ Timely(t, 0, R \ m.lost)
           /\ \A U, V : UpLeads(s, 0, R, U, V)
                        => UpLeads(t, 0, R \ m.lost, (U \cup m.up) \ (m.down \cup m.lost), V)
           /\ \A E, e : EndLeads(s, 0, E, e)
                        => EndLeads(t, 0, IF m.exp < 0 THEN E ELSE EndOf(m.exp), e)
<1> DEFINE h == [i \in DOMAIN t |-> i + 1]
<1>1. /\ \A i \in DOMAIN t : h[i] \in DOMAIN s /\ t[i] = s[h[i]] /\ i > 0 /\ h[i] > 0 /\ h[i] > 1 /\ h[i] # 1
      /\ \A k \in DOMAIN s : k > 0 /\ (k = 1 \/ \E i \in DOMAIN t : h[i] = k)
      /\ 1 \in DOMAIN s /\ ~(1 > 1)
  <2>1. ASSUME NEW k \in DOMAIN s PROVE k > 0 /\ (k = 1 \/ \E i \in DOMAIN t : h[i] = k)
    <3>1. CASE k # 1
      <4>1. k - 1 \in DOMAIN t /\ (k - 1) + 1 = k
        BY <3>1 DEF Read
      <4> QED BY <4>1 DEF Read
    <3> QED BY <3>1
  <2> QED BY <2>1 DEF Read
<1>2. \A i, k \in DOMAIN t : ((k > i) <=> (h[k] > h[i])) /\ ((k < i) <=> (h[k] < h[i])) /\ 1 < h[i]
  BY DEF Read
<1> HIDE DEF h
<1>3. RanksLead(t, 0, R \ m.lost, T)
  <2>1. ASSUME NEW r \in R
        PROVE  (\A i \in DOMAIN s : i > 0 => r \notin s[i].lost)
               <=> (r \notin m.lost /\ \A i \in DOMAIN t : i > 0 => r \notin t[i].lost)
    BY <1>1
  <2> QED BY <2>1 DEF RanksLead
<1>4. ASSUME Timely(s, 0, R) PROVE m.up \subseteq R /\ Timely(t, 0, R \ m.lost)
  <2>1. \A i \in DOMAIN s : \A r \in s[i].up :
           r \in R /\ \A k \in DOMAIN s : k < i => r \notin s[k].lost
    BY <1>1, <1>4 DEF Timely
  <2>2. ASSUME NEW i \in DOMAIN t, NEW r \in t[i].up
        PROVE  r \in R \ m.lost /\ \A k \in DOMAIN t : k < i => r \notin t[k].lost
    <3>1. h[i] \in DOMAIN s /\ r \in s[h[i]].up /\ 1 < h[i]
      BY <1>1, <1>2
    <3>2. r \in R /\ \A k \in DOMAIN s : k < h[i] => r \notin s[k].lost
      BY <2>1, <3>1
    <3> QED BY <1>1, <1>2, <3>1, <3>2
  <2> QED BY <1>1, <2>1, <2>2 DEF Timely
<1>5. ASSUME NEW U, NEW V, UpLeads(s, 0, R, U, V)
      PROVE  UpLeads(t, 0, R \ m.lost, (U \cup m.up) \ (m.down \cup m.lost), V)
  <2> DEFINE W == (U \cup m.up) \ (m.down \cup m.lost)
  <2> SUFFICES ASSUME NEW r \in R \ m.lost PROVE Rises(s, 0, U, r) <=> Rises(t, 0, W, r)
    BY <1>5 DEF UpLeads
  <2>1. CASE \A i \in DOMAIN t : ~Says(t[i], r)
    <3>1. \A i \in DOMAIN s : i # 1 => ~Says(s[i], r)
      BY <1>1, <2>1
    <3>2. Rises(t, 0, W, r) <=> r \in W
      BY <2>1 DEF Rises, Says
    <3>3. \A i \in DOMAIN s : r \in s[i].up => i = 1
      BY <3>1 DEF Says
    <3>4. \A k \in DOMAIN s : k > 1 => ~Says(s[k], r)
      BY <1>1, <3>1
    <3>5. Rises(s, 0, U, r) <=> (r \in m.up \ (m.down \cup m.lost) \/ (r \in U /\ ~Says(m, r)))
      BY <1>1, <3>1, <3>3, <3>4 DEF Rises
    <3> QED BY <3>2, <3>5 DEF Says
  <2>2. CASE \E i \in DOMAIN t : Says(t[i], r)
    <3>1. PICK j \in DOMAIN t : Says(t[j], r)
      BY <2>2
    <3>2. h[j] \in DOMAIN s /\ h[j] > 1 /\ h[j] > 0 /\ Says(s[h[j]], r)
      BY <1>1, <3>1
    <3>3. Rises(s, 0, U, r) <=> \E i \in DOMAIN s : /\ r \in s[i].up \ (s[i].down \cup s[i].lost)
                                                    /\ \A k \in DOMAIN s : k > i => ~Says(s[k], r)
      BY <1>1, <3>2 DEF Rises
    <3>4. Rises(t, 0, W, r) <=> \E i \in DOMAIN t : /\ r \in t[i].up \ (t[i].down \cup t[i].lost)
                                                    /\ \A k \in DOMAIN t : k > i => ~Says(t[k], r)
      BY <1>1, <3>1 DEF Rises
    <3>5. ASSUME NEW i \in DOMAIN s, \A k \in DOMAIN s : k > i => ~Says(s[k], r),
                 r \in s[i].up \ (s[i].down \cup s[i].lost)
          PROVE  \E x \in DOMAIN t : /\ r \in t[x].up \ (t[x].down \cup t[x].lost)
                                     /\ \A k \in DOMAIN t : k > x => ~Says(t[k], r)
      <4>1. i # 1
        BY <3>2, <3>5
      <4>2. PICK x \in DOMAIN t : h[x] = i
        BY <1>1, <4>1
      <4>3. \A k \in DOMAIN t : k > x => ~Says(t[k], r)
        BY <1>1, <1>2, <3>5, <4>2
      <4> QED BY <1>1, <3>5, <4>2, <4>3
    <3>6. ASSUME NEW i \in DOMAIN t, \A k \in DOMAIN t : k > i => ~Says(t[k], r),
                 r \in t[i].up \ (t[i].down \cup t[i].lost)
          PROVE  \E x \in DOMAIN s : /\ r \in s[x].up \ (s[x].down \cup s[x].lost)
                                     /\ \A k \in DOMAIN s : k > x => ~Says(s[k], r)
      <4>1. h[i] \in DOMAIN s /\ t[i] = s[h[i]]
        BY <1>1
      <4>2. ~(1 > h[i])
        BY <1>2, <1>1 DEF h, Read
      <4>3. \A k \in DOMAIN s : k > h[i] => ~Says(s[k], r)
        BY <1>1, <1>2, <3>6, <4>2
      <4> QED BY <3>6, <4>1, <4>3
    <3> QED BY <3>3, <3>4, <3>5, <3>6
  <2> QED BY <2>1, <2>2
<1>6. ASSUME NEW E, NEW e, EndLeads(s, 0, E, e)
      PROVE  EndLeads(t, 0, IF m.exp < 0 THEN E ELSE EndOf(m.exp), e)
  <2> DEFINE F == IF m.exp < 0 THEN E ELSE EndOf(m.exp)
  <2>1. ASSUME NEW i \in DOMAIN s, ~(s[i].exp < 0), EndOf(s[i].exp) = e,
               \A k \in DOMAIN s : k > i => s[k].exp < 0
        PROVE  EndLeads(t, 0, F, e)
    <3>1. CASE i = 1
      <4>1. F = e
        BY <2>1, <3>1
      <4>2. \A k \in DOMAIN t : t[k].exp < 0
        BY <1>1, <2>1, <3>1
      <4> HIDE DEF F
      <4> QED BY <4>1, <4>2 DEF EndLeads
    <3>2. CASE i # 1
      <4>1. PICK x \in DOMAIN t : h[x] = i
        BY <1>1, <3>2
      <4>2. \A k \in DOMAIN t : k > x => t[k].exp < 0
        BY <1>1, <1>2, <2>1, <4>1
      <4>3. x > 0 /\ ~(t[x].exp < 0) /\ EndOf(t[x].exp) = e
        BY <1>1, <2>1, <4>1
      <4> HIDE DEF F
      <4> QED BY <4>2, <4>3 DEF EndLeads
    <3> QED BY <3>1, <3>2
  <2>2. ASSUME E = e, \A i \in DOMAIN s : s[i].exp < 0 PROVE EndLeads(t, 0, F, e)
    <3>1. F = e /\ \A i \in DOMAIN t : t[i].exp < 0
      BY <1>1, <2>2
    <3> HIDE DEF F
    <3> QED BY <3>1 DEF EndLeads
  <2> HIDE DEF F
  <2>3. \/ \E i \in DOMAIN s : /\ ~(s[i].exp < 0) /\ EndOf(s[i].exp) = e
                               /\ \A k \in DOMAIN s : k > i => s[k].exp < 0
        \/ E = e /\ \A i \in DOMAIN s : s[i].exp < 0
    BY <1>1, <1>6 DEF EndLeads
  <2>4. EndLeads(t, 0, F, e)
    BY <2>1, <2>2, <2>3
  <2> QED BY <2>4 DEF F
<1> QED BY <1>3, <1>4, <1>5, <1>6

\* The first message makes the graph: the others lead to the same.
LEMMA DropMessage ==
    ASSUME NEW s, NEW t, NEW n, Read(s, t, n), NEW R, NEW T, RanksLead(s, 1, R, T)
    PROVE  /\ RanksLead(t, 0, R, T)
           /\ Timely(s, 1, R) => Timely(t, 0, R)
           /\ \A U, V : UpLeads(s, 1, R, U, V) => UpLeads(t, 0, R, U, V)
           /\ \A E, e : EndLeads(s, 1, E, e) => EndLeads(t, 0, E, e)
<1> DEFINE h == [i \in DOMAIN t |-> i + 1]
<1>1. /\ \A i \in DOMAIN t : h[i] \in DOMAIN s /\ t[i] = s[h[i]] /\ i > 0 /\ h[i] > 1 /\ 0 < i /\ 1 < h[i]
      /\ \A k \in DOMAIN s : k > 1 => \E i \in DOMAIN t : h[i] = k
  <2>1. ASSUME NEW k \in DOMAIN s, k > 1 PROVE \E i \in DOMAIN t : h[i] = k
    <3>1. k - 1 \in DOMAIN t /\ (k - 1) + 1 = k
      BY <2>1 DEF Read
    <3> QED BY <3>1 DEF Read
  <2> QED BY <2>1 DEF Read
<1>2. \A i, k \in DOMAIN t : ((k > i) <=> (h[k] > h[i])) /\ ((k < i) <=> (h[k] < h[i]))
  BY DEF Read
<1>3. \A k \in DOMAIN s : \A i \in DOMAIN t : k > h[i] => k > 1
  BY DEF Read
<1> HIDE DEF h
<1>4. RanksLead(t, 0, R, T)
  <2>1. ASSUME NEW r \in R
        PROVE  (\A i \in DOMAIN s : i > 1 => r \notin s[i].lost)
               <=> (\A i \in DOMAIN t : i > 0 => r \notin t[i].lost)
    BY <1>1
  <2> QED BY <2>1 DEF RanksLead
<1>5. ASSUME Timely(s, 1, R) PROVE Timely(t, 0, R)
  BY <1>1, <1>2, <1>5 DEF Timely
<1>6. ASSUME NEW U, NEW V, UpLeads(s, 1, R, U, V) PROVE UpLeads(t, 0, R, U, V)
  <2> SUFFICES ASSUME NEW r \in R PROVE Rises(s, 1, U, r) <=> Rises(t, 0, U, r)
    BY <1>6 DEF UpLeads
  <2>1. (\A i \in DOMAIN s : i > 1 => ~Says(s[i], r)) <=> (\A i \in DOMAIN t : i > 0 => ~Says(t[i], r))
    BY <1>1
  <2>2. ASSUME NEW i \in DOMAIN s, i > 1, \A k \in DOMAIN s : k > i => ~Says(s[k], r),
               r \in s[i].up \ (s[i].down \cup s[i].lost)
        PROVE  \E x \in DOMAIN t : /\ x > 0 /\ r \in t[x].up \ (t[x].down \cup t[x].lost)
                                   /\ \A k \in DOMAIN t : k > x => ~Says(t[k], r)
    <3>1. PICK x \in DOMAIN t : h[x] = i
      BY <1>1, <2>2
    <3>2. \A k \in DOMAIN t : k > x => ~Says(t[k], r)
      BY <1>1, <1>2, <2>2, <3>1
    <3> QED BY <1>1, <2>2, <3>1, <3>2
  <2>3. ASSUME NEW i \in DOMAIN t, \A k \in DOMAIN t : k > i => ~Says(t[k], r),
               r \in t[i].up \ (t[i].down \cup t[i].lost)
        PROVE  \E x \in DOMAIN s : /\ x > 1 /\ r \in s[x].up \ (s[x].down \cup s[x].lost)
                                   /\ \A k \in DOMAIN s : k > x => ~Says(s[k], r)
    <3>1. h[i] \in DOMAIN s /\ t[i] = s[h[i]] /\ h[i] > 1
      BY <1>1
    <3>2. \A k \in DOMAIN s : k > h[i] => ~Says(s[k], r)
      BY <1>1, <1>2, <1>3, <2>3
    <3> QED BY <2>3, <3>1, <3>2
  <2> QED BY <2>1, <2>2, <2>3 DEF Rises
<1>7. ASSUME NEW E, NEW e, EndLeads(s, 1, E, e) PROVE EndLeads(t, 0, E, e)
  <2>1. ASSUME NEW i \in DOMAIN s, i > 1, ~(s[i].exp < 0), EndOf(s[i].exp) = e,
               \A k \in DOMAIN s : k > i => s[k].exp < 0
        PROVE  EndLeads(t, 0, E, e)
    <3>1. PICK x \in DOMAIN t : h[x] = i
      BY <1>1, <2>1
    <3>2. \A k \in DOMAIN t : k > x => t[k].exp < 0
      BY <1>1, <1>2, <2>1, <3>1
    <3> QED BY <1>1, <2>1, <3>1, <3>2 DEF EndLeads
  <2>2. ASSUME E = e, \A i \in DOMAIN s : i > 1 => s[i].exp < 0 PROVE EndLeads(t, 0, E, e)
    BY <1>1, <2>2 DEF EndLeads
  <2> QED BY <1>7, <2>1, <2>2 DEF EndLeads
<1> QED BY <1>4, <1>5, <1>6, <1>7

-----------------------------------------------------------------------------
(***************************************************************************)
(* What core, the resource module and the feasibility module know.         *)
(***************************************************************************)
\* A request of the feasibility module to subscribe.
Asks(x) == x.k = "notify" /\ x.who = "fz"

Subscribed == "fz" \in rm.notify_msgs

OnFile == IsSet(rm.opts, "load-file")

\* The message a stream starts with has core's resources and nothing else; those that
\* follow have none.
First(x) ==
    /\ x.k = "payload" /\ x.m.res \in Machine
    /\ x.m.up = {} /\ x.m.down = {} /\ x.m.lost = {} /\ x.m.exp = -1

Later(x) == x = EmptyResponse \/ (x.k = "payload" /\ x.m.res = NoR)

FzTyped ==
    /\ \E S : toFz \in Seq(S)
    /\ rm # Off /\ fz # Off => /\ DOMAIN fz = CtxFields /\ ~fz.core
                               /\ ~fz.initialized => Fresh(fz) /\ ~IsSet(fz.opts, "load-file")

\* The module asks once, before it has heard anything.
AsksInv ==
    \A i \in DOMAIN reqs : Asks(reqs[i]) =>
       /\ \A k \in DOMAIN reqs : Asks(reqs[k]) => k = i
       /\ rm # Off => fz # Off /\ ~fz.initialized /\ toFz = << >> /\ ~Subscribed

SourceInv == rm # Off => rm.core /\ (~OnFile => rm.notify_resources \in Machine)

StreamInv ==
    rm # Off => /\ fz = Off => toFz = << >> /\ ~Subscribed
                /\ ~Subscribed => \A i \in DOMAIN toFz : toFz[i] = StreamError
                /\ Subscribed => /\ ~OnFile
                                 /\ \A i \in DOMAIN toFz : fz.initialized \/ i > 1 => Later(toFz[i])
                                 /\ ~fz.initialized => toFz # << >> /\ First(toFz[1])

\* The stream s leads a reader to the ranks T, of which V are up, and to the end e;
\* after a change of the status by hand (ed), and when e is unset, not to those.
Leads(s, o, R, U, E, T, V, e, ed) ==
    /\ RanksLead(s, o, R, T) /\ Timely(s, o, R) /\ U \subseteq R
    /\ "status" \notin ed => UpLeads(s, o, R, U, V)
    /\ e # Never => EndLeads(s, o, E, e)

\* The resource module has, or hears of, what core has; and it keeps for later
\* subscribers what was lost and how long the resources last, if that is limited.
RmFollows ==
    (rm # Off /\ ~OnFile /\ "graph" \notin edited) =>
       /\ Leads(acq, 0, rm.ranks, rm.up, rm.end, core.ranks, core.up, EndOf(core.exp), edited)
       /\ rm.ranks = rm.notify_resources.ranks \ rm.notify_lost
       /\ rm.end # Never => \/ rm.notify_expiration \in Nat \ {0} /\ rm.end = rm.notify_expiration
                            \/ rm.notify_expiration = -1 /\ rm.end = EndOf(rm.notify_resources.end)

Updates == [i \in DOMAIN toFz |-> toFz[i].m]

\* The feasibility module has, or hears of, what the resource module has.
FzFollows ==
    (rm # Off /\ "graph" \notin edited /\ Subscribed) =>
       /\ fz.initialized => Leads(Updates, 0, fz.ranks, fz.up, fz.end, rm.ranks, rm.up, rm.end, edited)
       /\ ~fz.initialized => Leads(Updates, 1, toFz[1].m.res.ranks, toFz[1].m.res.ranks,
                                   EndOf(toFz[1].m.res.end), rm.ranks, rm.up, rm.end, edited)

StreamsInv == FzTyped /\ AsksInv /\ SourceInv /\ StreamInv /\ RmFollows /\ FzFollows

\* What the streams are about is the same.
SameGraph ==
    /\ rm'.opts = rm.opts /\ rm'.core = rm.core /\ rm'.ranks = rm.ranks /\ rm'.up = rm.up
    /\ rm'.end = rm.end /\ rm'.notify_resources = rm.notify_resources
    /\ rm'.notify_lost = rm.notify_lost /\ rm'.notify_expiration = rm.notify_expiration

SameView == SameGraph /\ (Subscribed' <=> Subscribed)

\* Who asks has asked before.
AsksKept ==
    \E f : \A i \in DOMAIN reqs' : Asks(reqs[i])' =>
              /\ f[i] \in DOMAIN reqs /\ Asks(reqs[f[i]])
              /\ \A k \in DOMAIN reqs' : f[k] = f[i] => k = i

\* Fewer questions.
LEMMA AsksFrom ==
    ASSUME AsksInv, AsksKept,
           rm' # Off => rm # Off /\ fz' = fz /\ toFz' = toFz /\ (Subscribed' <=> Subscribed)
    PROVE  AsksInv'
<1>1. PICK f : \A i \in DOMAIN reqs' : Asks(reqs[i])' =>
                  /\ f[i] \in DOMAIN reqs /\ Asks(reqs[f[i]])
                  /\ \A k \in DOMAIN reqs' : f[k] = f[i] => k = i
  BY DEF AsksKept
<1> SUFFICES ASSUME NEW i \in DOMAIN reqs', Asks(reqs[i])'
             PROVE  /\ \A k \in DOMAIN reqs' : Asks(reqs[k])' => k = i
                    /\ rm' # Off => fz' # Off /\ ~fz'.initialized /\ toFz' = << >> /\ ~Subscribed'
  BY DEF AsksInv
<1>2. f[i] \in DOMAIN reqs /\ Asks(reqs[f[i]])
  BY <1>1
<1>3. ASSUME NEW k \in DOMAIN reqs', Asks(reqs[k])' PROVE k = i
  <2>1. f[k] \in DOMAIN reqs /\ Asks(reqs[f[k]])
    BY <1>1, <1>3
  <2>2. f[k] = f[i]
    BY <1>2, <2>1 DEF AsksInv
  <2> QED BY <1>1, <2>2
<1>4. rm' # Off => fz' # Off /\ ~fz'.initialized /\ toFz' = << >> /\ ~Subscribed'
  BY <1>2 DEF AsksInv
<1> QED BY <1>3, <1>4

\* Fewer things have been left alone.
LEMMA LeadsEdited ==
    ASSUME NEW s, NEW o, NEW R, NEW U, NEW E, NEW T, NEW V, NEW e, NEW a, NEW b,
           Leads(s, o, R, U, E, T, V, e, a), a \subseteq b
    PROVE  Leads(s, o, R, U, E, T, V, e, b)
  BY DEF Leads

\* One more message, which the reader will read.
LEMMA LeadsPut ==
    ASSUME NEW s, NEW t, NEW n, Longer(s, t, n), NEW o \in {0, 1}, o <= n, NEW m, m = t[n + 1],
           NEW R, NEW U, NEW E, NEW T, NEW V, NEW e, NEW ed, Leads(s, o, R, U, E, T, V, e, ed),
           m.up \subseteq T,
           NEW f, f = IF m.exp < 0 THEN e ELSE EndOf(m.exp)
    PROVE  Leads(t, o, R, U, E, T \ m.lost, (V \cup m.up) \ (m.down \cup m.lost), f, ed)
<1>1. RanksLead(s, o, R, T)
  BY DEF Leads
<1>2. /\ RanksLead(t, o, R, T \ m.lost)
      /\ Timely(s, o, R) /\ m.up \subseteq T => Timely(t, o, R)
      /\ \A X, Y : UpLeads(s, o, R, X, Y) => UpLeads(t, o, R, X, (Y \cup m.up) \ (m.down \cup m.lost))
      /\ \A X : ~(m.exp < 0) => EndLeads(t, o, X, EndOf(m.exp))
      /\ \A X, x : m.exp < 0 /\ EndLeads(s, o, X, x) => EndLeads(t, o, X, x)
  BY <1>1, PutMessage
<1> QED BY <1>2 DEF Leads

\* The reader reads a message.
LEMMA LeadsTake ==
    ASSUME NEW s, NEW t, NEW n, Read(s, t, n), NEW m, m = s[1],
           NEW R, NEW U, NEW E, NEW T, NEW V, NEW e, NEW ed, Leads(s, 0, R, U, E, T, V, e, ed)
    PROVE  /\ m.up \subseteq R /\ U \subseteq R
           /\ Leads(t, 0, R \ m.lost, (U \cup m.up) \ (m.down \cup m.lost),
                    IF m.exp < 0 THEN E ELSE EndOf(m.exp), T, V, e, ed)
<1>1. RanksLead(s, 0, R, T)
  BY DEF Leads
<1> DEFINE F == IF m.exp < 0 THEN E ELSE EndOf(m.exp)
<1>2. /\ RanksLead(t, 0, R \ m.lost, T)
      /\ Timely(s, 0, R) => m.up \subseteq R /\ Timely(t, 0, R \ m.lost)
      /\ UpLeads(s, 0, R, U, V) => UpLeads(t, 0, R \ m.lost, (U \cup m.up) \ (m.down \cup m.lost), V)
      /\ EndLeads(s, 0, E, e) => EndLeads(t, 0, F, e)
  BY <1>1, TakeMessage
<1> HIDE DEF F
<1>3. /\ m.up \subseteq R /\ U \subseteq R
      /\ Leads(t, 0, R \ m.lost, (U \cup m.up) \ (m.down \cup m.lost), F, T, V, e, ed)
  BY <1>2 DEF Leads
<1> QED BY <1>3 DEF F

\* The reader makes its graph of the first message.
LEMMA LeadsDrop ==
    ASSUME NEW s, NEW t, NEW n, Read(s, t, n),
           NEW R, NEW U, NEW E, NEW T, NEW V, NEW e, NEW ed, Leads(s, 1, R, U, E, T, V, e, ed)
    PROVE  Leads(t, 0, R, U, E, T, V, e, ed)
<1>1. RanksLead(s, 1, R, T)
  BY DEF Leads
<1>2. /\ RanksLead(t, 0, R, T)
      /\ Timely(s, 1, R) => Timely(t, 0, R)
      /\ UpLeads(s, 1, R, U, V) => UpLeads(t, 0, R, U, V)
      /\ EndLeads(s, 1, E, e) => EndLeads(t, 0, E, e)
  BY <1>1, DropMessage
<1> QED BY <1>2 DEF Leads

\* Nothing is left to read.
LEMMA LeadsEnd ==
    ASSUME NEW s, DOMAIN s = {}, NEW R, NEW U, NEW E, NEW T, NEW V, NEW e, NEW ed
    PROVE  Leads(s, 0, R, U, E, T, V, e, ed)
           <=> /\ T = R /\ U \subseteq R
               /\ "status" \notin ed => U = V \cap R
               /\ e # Never => E = e
<1>1. /\ RanksLead(s, 0, R, T) <=> T = R
      /\ Timely(s, 0, R)
      /\ U \subseteq R => (UpLeads(s, 0, R, U, V) <=> U = V \cap R)
      /\ EndLeads(s, 0, E, e) <=> E = e
  BY DEF RanksLead, Timely, UpLeads, Rises, EndLeads
<1> QED BY <1>1 DEF Leads

\* A step that is not about core and the resource module.
LEMMA FrameRm ==
    ASSUME StreamsInv, rm' # Off => rm # Off /\ SameGraph, acq' = acq, core' = core, edited \subseteq edited'
    PROVE  SourceInv' /\ RmFollows'
<1> USE DEF StreamsInv
<1>1. SourceInv'
  BY DEF SourceInv, SameGraph, OnFile
<1>2. RmFollows'
  <2> SUFFICES ASSUME rm' # Off, ~OnFile', "graph" \notin edited'
               PROVE  /\ Leads(acq', 0, rm'.ranks, rm'.up, rm'.end, core'.ranks, core'.up, EndOf(core'.exp), edited')
                      /\ rm'.ranks = rm'.notify_resources.ranks \ rm'.notify_lost
                      /\ rm'.end # Never =>
                            \/ rm'.notify_expiration \in Nat \ {0} /\ rm'.end = rm'.notify_expiration
                            \/ rm'.notify_expiration = -1 /\ rm'.end = EndOf(rm'.notify_resources.end)
    BY DEF RmFollows, EndOf
  <2>1. rm # Off /\ ~OnFile /\ "graph" \notin edited
    BY DEF SameGraph, OnFile
  <2>2. Leads(acq, 0, rm.ranks, rm.up, rm.end, core.ranks, core.up, EndOf(core.exp), edited')
    BY <2>1, LeadsEdited DEF RmFollows
  <2> QED BY <2>1, <2>2 DEF SameGraph, RmFollows
<1> QED BY <1>1, <1>2

\* A step that is not about the feasibility module.
LEMMA FrameFz ==
    ASSUME StreamsInv, rm' # Off => rm # Off /\ SameView, fz' = fz, toFz' = toFz,
           edited \subseteq edited', AsksKept
    PROVE  FzTyped' /\ AsksInv' /\ StreamInv' /\ FzFollows'
<1> USE DEF StreamsInv
<1>1. FzTyped'
  BY DEF FzTyped
<1>2. AsksInv'
  BY AsksFrom DEF SameView
<1>3. StreamInv'
  BY DEF StreamInv, SameView, SameGraph, OnFile
<1>4. FzFollows'
  <2> SUFFICES ASSUME rm' # Off, "graph" \notin edited', Subscribed'
               PROVE  /\ fz'.initialized => Leads(Updates', 0, fz'.ranks, fz'.up, fz'.end, rm'.ranks, rm'.up, rm'.end, edited')
                      /\ ~fz'.initialized => Leads(Updates', 1, toFz'[1].m.res.ranks, toFz'[1].m.res.ranks,
                                                   EndOf(toFz'[1].m.res.end), rm'.ranks, rm'.up, rm'.end, edited')
    BY DEF FzFollows, EndOf
  <2>1. rm # Off /\ "graph" \notin edited /\ Subscribed /\ Updates' = Updates
    BY DEF SameView, Updates
  <2>2. fz.initialized => Leads(Updates, 0, fz.ranks, fz.up, fz.end, rm.ranks, rm.up, rm.end, edited')
    BY <2>1, LeadsEdited DEF FzFollows
  <2>3. ~fz.initialized => Leads(Updates, 1, toFz[1].m.res.ranks, toFz[1].m.res.ranks,
                                 EndOf(toFz[1].m.res.end), rm.ranks, rm.up, rm.end, edited')
    BY <2>1, LeadsEdited DEF FzFollows
  <2> QED BY <2>1, <2>2, <2>3 DEF SameView, SameGraph
<1> QED BY <1>1, <1>2, <1>3, <1>4

\* A step that is not about the streams.
LEMMA FrameStep ==
    ASSUME StreamsInv, rm' # Off => rm # Off /\ SameView, fz' = fz, toFz' = toFz, acq' = acq,
           core' = core, edited \subseteq edited', AsksKept
    PROVE  StreamsInv'
<1>1. rm' # Off => rm # Off /\ SameGraph
  BY DEF SameView
<1> QED BY <1>1, FrameRm, FrameFz DEF StreamsInv

\* Nobody asks in a request that is only changed, or behind the others.
LEMMA SameAsks ==
    ASSUME ReqsTyped, \/ reqs' = reqs
                      \/ reqs' = << >>
                      \/ reqs # << >> /\ reqs' = Tail(reqs)
                      \/ reqs' = Append(reqs, [k |-> "notify", who |-> "qm"])
                      \/ DOMAIN reqs' = DOMAIN reqs /\ \A i \in DOMAIN reqs : Asks(reqs[i])' => Asks(reqs[i])
                      \/ \E S : \E t \in Seq(S) : reqs' = reqs \o t /\ \A i \in DOMAIN t : ~Asks(t[i])
    PROVE  AsksKept
<1> DEFINE T == NotifyRequest \cup MatchRequest
           n == Len(reqs)
<1>0. reqs \in Seq(T)
  BY DEF ReqsTyped
<1> HIDE DEF T
<1>1. ASSUME NEW g, \A i \in DOMAIN reqs' : Asks(reqs[i])' =>
                       /\ g[i] \in DOMAIN reqs /\ Asks(reqs[g[i]])
                       /\ \A k \in DOMAIN reqs' : g[k] = g[i] => k = i
      PROVE  AsksKept
  BY <1>1 DEF AsksKept
<1>2. ASSUME \A i \in DOMAIN reqs' : Asks(reqs[i])' => i \in DOMAIN reqs /\ Asks(reqs[i]) PROVE AsksKept
  <2> DEFINE g == [i \in DOMAIN reqs' |-> i]
  <2>1. \A i \in DOMAIN reqs' : g[i] = i
    OBVIOUS
  <2> HIDE DEF g
  <2> QED BY <1>1, <1>2, <2>1
<1>3. CASE reqs' = reqs \/ reqs' = << >>
  BY <1>2, <1>3 DEF Asks
<1>4. CASE reqs # << >> /\ reqs' = Tail(reqs)
  <2> DEFINE t == Tail(reqs)
             g == [i \in DOMAIN t |-> i + 1]
  <2>1. /\ n \in Nat /\ n # 0 /\ t \in Seq(T) /\ Len(t) = n - 1 /\ DOMAIN reqs = 1..n
        /\ \A i \in 1..(n - 1) : t[i] = reqs[i + 1]
    BY <1>0, <1>4, Shorter
  <2>2. DOMAIN t = 1..Len(t)
    BY <2>1
  <2> HIDE DEF t, n
  <2>3. DOMAIN t = 1..(n - 1)
    BY <2>1, <2>2
  <2>4. \A i \in DOMAIN t : g[i] \in DOMAIN reqs /\ t[i] = reqs[g[i]] /\ \A k \in DOMAIN t : g[k] = g[i] => k = i
    BY <2>1, <2>3
  <2> HIDE DEF g
  <2>5. reqs' = t
    BY <1>4 DEF t
  <2>6. ASSUME NEW i \in DOMAIN reqs', Asks(reqs[i])'
        PROVE  /\ g[i] \in DOMAIN reqs /\ Asks(reqs[g[i]])
               /\ \A k \in DOMAIN reqs' : g[k] = g[i] => k = i
    <3>1. i \in DOMAIN t /\ Asks(t[i])
      BY <2>5, <2>6 DEF Asks
    <3> QED BY <2>4, <2>5, <3>1
  <2> QED BY <1>1, <2>6
<1>5. CASE DOMAIN reqs' = DOMAIN reqs /\ \A i \in DOMAIN reqs : Asks(reqs[i])' => Asks(reqs[i])
  BY <1>2, <1>5
<1>6. ASSUME NEW S, NEW t \in Seq(S), reqs' = reqs \o t, \A i \in DOMAIN t : ~Asks(t[i]) PROVE AsksKept
  <2> DEFINE B == S \cup T
  <2>1. reqs \in Seq(B) /\ t \in Seq(B)
    BY <1>0
  <2> HIDE DEF B
  <2>2. \A i \in DOMAIN (reqs \o t) : \/ i \in DOMAIN reqs /\ (reqs \o t)[i] = reqs[i]
                                      \/ \E x \in DOMAIN t : (reqs \o t)[i] = t[x]
    BY <2>1, InEither
  <2>3. ASSUME NEW i \in DOMAIN reqs', Asks(reqs[i])' PROVE i \in DOMAIN reqs /\ Asks(reqs[i])
    <3>1. \/ i \in DOMAIN reqs /\ reqs'[i] = reqs[i]
          \/ \E x \in DOMAIN t : reqs'[i] = t[x]
      BY <1>6, <2>2
    <3>2. Asks(reqs'[i])
      BY <2>3 DEF Asks
    <3> QED BY <1>6, <3>1, <3>2
  <2> QED BY <1>2, <2>3
<1>7. CASE reqs' = Append(reqs, [k |-> "notify", who |-> "qm"])
  <2> DEFINE x == [k |-> "notify", who |-> "qm"]
  <2>1. ~Asks(x)
    BY DEF Asks
  <2> HIDE DEF x
  <2>2. Append(reqs, x) = reqs \o <<x>> /\ <<x>> \in Seq({x}) /\ \A i \in DOMAIN <<x>> : <<x>>[i] = x
    BY <1>0
  <2>3. reqs' = reqs \o <<x>>
    BY <1>7, <2>2 DEF x
  <2> QED BY <1>6, <2>1, <2>2, <2>3
<1> QED BY <1>3, <1>4, <1>5, <1>6, <1>7

\* The context is the same where the streams look.
LEMMA ViewOnly ==
    ASSUME NEW F, Only(rm, rm', F),
           F \cap {"opts", "core", "ranks", "up", "end", "notify_resources", "notify_lost",
                   "notify_expiration", "notify_msgs"} = {}
    PROVE  SameView
<1>1. /\ rm'.opts = rm.opts /\ rm'.core = rm.core /\ rm'.ranks = rm.ranks /\ rm'.up = rm.up
      /\ rm'.end = rm.end /\ rm'.notify_resources = rm.notify_resources
      /\ rm'.notify_lost = rm.notify_lost /\ rm'.notify_expiration = rm.notify_expiration
      /\ rm'.notify_msgs = rm.notify_msgs
  BY DEF Only, CtxFields
<1> QED BY <1>1 DEF SameView, SameGraph, Subscribed

\* It is the same when the queue manager comes or goes.
LEMMA ViewMsgs ==
    ASSUME RmSound, rm # Off, NEW S, S \ {"qm"} = rm.notify_msgs \ {"qm"},
           rm' = [rm EXCEPT !.notify_msgs = S]
    PROVE  SameView
<1>1. DOMAIN rm = CtxFields
  BY DEF RmSound, Sound
<1>2. /\ rm'.opts = rm.opts /\ rm'.core = rm.core /\ rm'.ranks = rm.ranks /\ rm'.up = rm.up
      /\ rm'.end = rm.end /\ rm'.notify_resources = rm.notify_resources
      /\ rm'.notify_lost = rm.notify_lost /\ rm'.notify_expiration = rm.notify_expiration
      /\ rm'.notify_msgs = S
  BY <1>1 DEF CtxFields
<1>3. "fz" \in S <=> "fz" \in rm.notify_msgs
  OBVIOUS
<1> QED BY <1>2, <1>3 DEF SameView, SameGraph, Subscribed

\* The queue manager leaves.
LEMMA DestroyStreams ==
    ASSUME RmSound, ReqsTyped, StreamsInv, qmanager_destroy
    PROVE  StreamsInv'
<1>1. fz' = fz /\ toFz' = toFz /\ acq' = acq /\ core' = core /\ edited' = edited
  BY DEF qmanager_destroy
<1>2. rm' = disconnect_request_cb("qm")
  BY DEF qmanager_destroy
<1>3. rm' # Off => rm # Off /\ SameView
  <2> SUFFICES ASSUME rm # Off PROVE SameView
    BY <1>2 DEF disconnect_request_cb
  <2>1. rm' = [rm EXCEPT !.notify_msgs = rm.notify_msgs \ {"qm"}]
    BY <1>2 DEF disconnect_request_cb
  <2> DEFINE S == rm.notify_msgs \ {"qm"}
  <2>2. S \ {"qm"} = rm.notify_msgs \ {"qm"}
    OBVIOUS
  <2> QED BY <2>1, <2>2, ViewMsgs
<1>4. AsksKept
  <2>1. DOMAIN reqs' = DOMAIN reqs
        /\ \A i \in DOMAIN reqs : reqs'[i] = IF reqs[i].k = "match" THEN [reqs[i] EXCEPT !.alive = FALSE]
                                            ELSE reqs[i]
    BY DEF qmanager_destroy
  <2>2. ASSUME NEW i \in DOMAIN reqs, Asks(reqs[i])' PROVE Asks(reqs[i])
    <3> DEFINE x == reqs[i]
    <3>1. x \in NotifyRequest \cup MatchRequest
      BY DEF ReqsTyped
    <3>2. Asks(IF x.k = "match" THEN [x EXCEPT !.alive = FALSE] ELSE x)
      BY <2>1, <2>2 DEF Asks
    <3> HIDE DEF x
    <3>3. x.k = "match" => [x EXCEPT !.alive = FALSE].k = "match"
      BY <3>1 DEF NotifyRequest, MatchRequest
    <3>4. Asks(x)
      BY <3>2, <3>3 DEF Asks
    <3> QED BY <3>4 DEF x
  <2> QED BY <2>1, <2>2, SameAsks
<1> QED BY <1>1, <1>3, <1>4, FrameStep

\* Steps of the queue manager and of the jobs, and requests that leave the graph alone.
LEMMA FramedStep ==
    ASSUME Typed, StreamsInv,
           \/ \E c : load_qmanager(c)
           \/ unload_qmanager \/ update_on_resource_response \/ check_watcher_cb
           \/ match_multi_then \/ process_pending_quiescent_requests \/ quiescent_request_cb
           \/ match_multi_request_cb \/ status_request_cb
           \/ \E r : set_property_request_cb(r) \/ remove_property_request_cb(r)
           \/ JobNext
           \/ UNCHANGED vars
    PROVE  StreamsInv'
<1> USE DEF Typed
<1>1. ASSUME rm' = rm, fz' = fz, toFz' = toFz, acq' = acq, core' = core, edited' = edited, AsksKept
      PROVE  StreamsInv'
  <2>1. SameView
    BY <1>1 DEF SameView, SameGraph, Subscribed
  <2> QED BY <1>1, <2>1, FrameStep
<1>2. ASSUME NEW F, rm # Off, Only(rm, rm', F), fz' = fz, toFz' = toFz, acq' = acq, core' = core,
             edited \subseteq edited', AsksKept,
             F \cap {"opts", "core", "ranks", "up", "end", "notify_resources", "notify_lost",
                     "notify_expiration", "notify_msgs"} = {}
      PROVE  StreamsInv'
  BY <1>2, ViewOnly, FrameStep
<1>3. ASSUME NEW c, load_qmanager(c) PROVE StreamsInv'
  <2>1. /\ rm' = rm /\ fz' = fz /\ toFz' = toFz /\ acq' = acq /\ core' = core /\ edited' = edited
        /\ reqs' = reqs \/ reqs' = Append(reqs, [k |-> "notify", who |-> "qm"])
    BY <1>3 DEF load_qmanager
  <2> QED BY <1>1, <2>1, SameAsks
<1>4. CASE qmanager_destroy
  BY <1>4, DestroyStreams
<1>5. CASE update_on_resource_response
  <2>1. CASE ~qmanager_destroy
    <3>1. /\ rm' = rm /\ fz' = fz /\ toFz' = toFz /\ acq' = acq /\ core' = core /\ edited' = edited
          /\ reqs' = reqs
      BY <1>5, <2>1 DEF update_on_resource_response
    <3> QED BY <1>1, <3>1, SameAsks
  <2> QED BY <1>4, <2>1
<1>6. CASE match_multi_then \/ process_pending_quiescent_requests \/ quiescent_request_cb \/ UNCHANGED vars
  <2>1. /\ rm' = rm /\ fz' = fz /\ toFz' = toFz /\ acq' = acq /\ core' = core /\ edited' = edited
        /\ reqs' = reqs
    BY <1>6 DEF match_multi_then, process_pending_quiescent_requests, quiescent_request_cb, vars
  <2> QED BY <1>1, <2>1, SameAsks
<1>7. CASE check_watcher_cb
  <2> DEFINE names == DOMAIN qm.queues
             any == \E n \in names : qm.queues[n].sched
             looped == [n \in names |-> IF any THEN run_sched_loop(qm.queues[n]) ELSE qm.queues[n]]
             new == {n \in names : looped[n].active /\ ~qm.queues[n].active}
             started == SetToSeq(new)
             f == [i \in DOMAIN started |-> [k |-> "match", queue |-> started[i], alive |-> TRUE,
                                             jobs |-> pack_jobs(looped[started[i]])]]
             S == {f[i] : i \in DOMAIN started}
  <2>1. /\ qm # Off /\ (reqs' = reqs \/ reqs' = reqs \o f)
        /\ rm' = rm /\ fz' = fz /\ toFz' = toFz /\ acq' = acq /\ core' = core /\ edited' = edited
    BY <1>7 DEF check_watcher_cb
  <2>2. IsFiniteSet(new)
    BY <2>1, FS_Subset DEF QmTyped
  <2> HIDE DEF new, looped
  <2>3. started \in Seq(new)
    BY <2>2, Enumerated
  <2>4. /\ DOMAIN f = DOMAIN started /\ f = [i \in DOMAIN started |-> f[i]]
        /\ \A i \in DOMAIN started : f[i].k = "match" /\ f[i] \in S
    OBVIOUS
  <2> HIDE DEF f, started, S
  <2>5. f \in Seq(S)
    BY <2>3, <2>4, SameLength
  <2>6. \A i \in DOMAIN f : ~Asks(f[i])
    BY <2>4 DEF Asks
  <2>7. AsksKept
    BY <2>1, <2>5, <2>6, SameAsks
  <2> QED BY <1>1, <2>1, <2>7
<1>8. CASE match_multi_request_cb
  <2> DEFINE x == Head(reqs)
             s == x.jobs
             r == match_multi(rm, s)
             c == r.ctx
             out == r.out
  <2>1. /\ rm # Off /\ rm' = match_multi(rm, s).ctx /\ edited' = edited /\ reqs # << >> /\ x.k = "match"
        /\ fz' = fz /\ toFz' = toFz /\ acq' = acq /\ core' = core /\ reqs' = Tail(reqs)
    BY <1>8 DEF match_multi_request_cb
  <2>2. x \in NotifyRequest \cup MatchRequest
    BY <2>1, Shorter DEF ReqsTyped
  <2> HIDE DEF x
  <2>3. s \in Seq(Job)
    BY <2>1, <2>2 DEF NotifyRequest, MatchRequest
  <2> HIDE DEF s
  <2>4. Matched(rm, s, c, out)
    BY <2>1, <2>3, MatchesEffect DEF RmSound
  <2> HIDE DEF r, c, out
  <2>5. Only(rm, c, {"booked", "jobs", "allocations"})
    BY <2>4 DEF Matched, Accounted
  <2>6. Only(rm, rm', {"booked", "jobs", "allocations"})
    BY <2>1, <2>5 DEF c, r
  <2> QED BY <1>2, <2>1, <2>6, SameAsks
<1>9. CASE status_request_cb
  <2>1. /\ rm # Off /\ edited' = edited /\ reqs' = reqs
        /\ fz' = fz /\ toFz' = toFz /\ acq' = acq /\ core' = core
        /\ \E z, a, d : rm' = [rm EXCEPT !.r_alloc = z, !.r_all = a, !.updated = FALSE,
                                         !.r_down = d, !.down_updated = FALSE]
    BY <1>9 DEF status_request_cb
  <2>2. Only(rm, rm', {"r_alloc", "r_all", "updated", "r_down", "down_updated"})
    BY <2>1 DEF RmSound, Sound, Only, CtxFields
  <2> QED BY <1>2, <2>1, <2>2, SameAsks
<1>10. ASSUME NEW r, set_property_request_cb(r) \/ remove_property_request_cb(r) PROVE StreamsInv'
  <2>1. /\ rm # Off /\ edited \subseteq edited' /\ reqs' = reqs
        /\ fz' = fz /\ toFz' = toFz /\ acq' = acq /\ core' = core
        /\ \E z : rm' = [rm EXCEPT !.props = z]
    BY <1>10 DEF set_property_request_cb, remove_property_request_cb, Edit
  <2>2. Only(rm, rm', {"props"})
    BY <2>1 DEF RmSound, Sound, Only, CtxFields
  <2> QED BY <1>2, <2>1, <2>2, SameAsks
<1>11. CASE JobNext
  <2>1. ASSUME NEW j \in Job, Submit(j) \/ jobmanager_alloc_cb(j) PROVE StreamsInv'
    <3>1. /\ rm' = rm /\ fz' = fz /\ toFz' = toFz /\ acq' = acq /\ core' = core /\ edited' = edited
          /\ reqs' = reqs
      BY <2>1 DEF Submit, jobmanager_alloc_cb
    <3> QED BY <1>1, <3>1, SameAsks
  <2>2. ASSUME NEW j \in Job, jobmanager_hello_cb(j) PROVE StreamsInv'
    <3> DEFINE R == WithFreeRanks(HelloR(j), jm[j].freed)
               n == queue_of(j)
    <3>1. /\ fz' = fz /\ toFz' = toFz /\ acq' = acq /\ core' = core /\ edited' = edited /\ reqs' = reqs
          /\ rm' = (IF n \notin DOMAIN qm.queues THEN Error(rm) ELSE reapi_update_allocate(rm, j, R)).ctx
      BY <2>2 DEF jobmanager_hello_cb
    <3>2. CASE rm' = rm
      BY <1>1, <3>1, <3>2, SameAsks
    <3>3. CASE rm' # rm
      <4> DEFINE p == parse_R(R)
                 E == Emit(rm, p.ranks)
      <4>1. rm # Off /\ rm' = update_request_cb(rm, j, R).ctx
        BY <3>1, <3>3 DEF Error, reapi_update_allocate
      <4> HIDE DEF R
      <4>2. Taken(rm, rm', j, E, p.ranks)
        BY <3>3, <4>1, UpdateEffect DEF RmSound
      <4> HIDE DEF p, E
      <4>3. Only(rm, rm', {"booked", "jobs", "allocations"})
        BY <4>2 DEF Taken
      <4> QED BY <1>2, <3>1, <4>1, <4>3, SameAsks
    <3> QED BY <3>2, <3>3
  <2>3. ASSUME NEW j \in Job, NEW ranks, jobmanager_free_cb(j, ranks) PROVE StreamsInv'
    <3> DEFINE final == ranks = jm[j].R.ranks \ jm[j].freed
               x == IF final THEN reapi_cancel(rm, j) ELSE reapi_cancel_R(rm, j, ranks)
               c == x.ctx
    <3>1. /\ fz' = fz /\ toFz' = toFz /\ acq' = acq /\ core' = core /\ edited' = edited /\ reqs' = reqs
          /\ rm' = rm \/ rm' = c
      BY <2>3 DEF jobmanager_free_cb
    <3>2. final \in BOOLEAN
      OBVIOUS
    <3> HIDE DEF final
    <3>3. CASE rm = Off
      <4>1. c = rm
        BY <3>2, <3>3 DEF reapi_cancel, reapi_cancel_R
      <4> QED BY <1>1, <3>1, <4>1, SameAsks
    <3>4. CASE rm # Off
      <4>1. Only(rm, c, {"booked", "jobs", "allocations"})
        BY <3>2, <3>4, ReleaseEffect DEF RmSound
      <4> HIDE DEF c
      <4>2. CASE rm' = rm
        BY <1>1, <3>1, <4>2, SameAsks
      <4>3. CASE rm' = c
        BY <1>2, <3>1, <3>4, <4>1, <4>3, SameAsks
      <4> QED BY <3>1, <4>2, <4>3
    <3> QED BY <3>3, <3>4
  <2> QED BY <1>11, <2>1, <2>2, <2>3 DEF JobNext
<1> QED BY <1>3, <1>4, <1>5, <1>6, <1>7, <1>8, <1>9, <1>10, <1>11 DEF unload_qmanager

-----------------------------------------------------------------------------
\* The messages of a sequence of responses.
Msgs(s) == [i \in DOMAIN s |-> s[i].m]

\* One more message.
LEMMA PutOne ==
    ASSUME NEW S, NEW s \in Seq(S), NEW x
    PROVE  LET t == Append(s, x)
               n == Len(s)
           IN  /\ n \in Nat /\ DOMAIN s = 1..n
               /\ Longer(s, t, n) /\ t[n + 1] = x
               /\ Longer(Msgs(s), Msgs(t), n) /\ Msgs(t)[n + 1] = x.m
               /\ \E Y : t \in Seq(Y)
<1> DEFINE t == Append(s, x)
           n == Len(s)
           Y == S \cup {x}
<1>1. s \in Seq(Y) /\ x \in Y
  OBVIOUS
<1> HIDE DEF Y
<1>2. t \in Seq(Y)
  BY <1>1
<1>3. n \in Nat /\ DOMAIN s = 1..n /\ DOMAIN t = 1..(n + 1) /\ t[n + 1] = x /\ \A i \in 1..n : t[i] = s[i]
  OBVIOUS
<1> HIDE DEF t, n
<1>4. Longer(s, t, n)
  BY <1>3 DEF Longer
<1>5. Longer(Msgs(s), Msgs(t), n) /\ Msgs(t)[n + 1] = x.m
  BY <1>3 DEF Longer, Msgs
<1>6. /\ n \in Nat /\ DOMAIN s = 1..n
      /\ Longer(s, t, n) /\ t[n + 1] = x
      /\ Longer(Msgs(s), Msgs(t), n) /\ Msgs(t)[n + 1] = x.m
      /\ \E Z : t \in Seq(Z)
  BY <1>2, <1>3, <1>4, <1>5
<1> QED BY <1>6 DEF t, n

\* The first message is taken.
LEMMA TakeOne ==
    ASSUME NEW S, NEW s \in Seq(S), s # << >>
    PROVE  LET t == Tail(s)
               x == Head(s)
               n == Len(s) - 1
           IN  /\ n \in Nat /\ DOMAIN s = 1..(n + 1) /\ DOMAIN t = 1..n /\ x = s[1]
               /\ \A i \in 1..n : t[i] = s[i + 1]
               /\ Read(s, t, n)
               /\ Read(Msgs(s), Msgs(t), n) /\ Msgs(s)[1] = x.m
               /\ t \in Seq(S)
<1> DEFINE t == Tail(s)
           x == Head(s)
           n == Len(s) - 1
<1>1. t \in Seq(S)
  OBVIOUS
<1>2. n \in Nat /\ DOMAIN s = 1..(n + 1) /\ DOMAIN t = 1..n /\ x = s[1] /\ \A i \in 1..n : t[i] = s[i + 1]
  OBVIOUS
<1> HIDE DEF t, x, n
<1>3. Read(s, t, n)
  BY <1>2 DEF Read
<1>4. Read(Msgs(s), Msgs(t), n) /\ Msgs(s)[1] = x.m
  BY <1>2 DEF Read, Msgs
<1>5. /\ n \in Nat /\ DOMAIN s = 1..(n + 1) /\ DOMAIN t = 1..n /\ x = s[1]
      /\ \A i \in 1..n : t[i] = s[i + 1]
      /\ Read(s, t, n)
      /\ Read(Msgs(s), Msgs(t), n) /\ Msgs(s)[1] = x.m
      /\ t \in Seq(S)
  BY <1>1, <1>2, <1>3, <1>4
<1> QED BY <1>5 DEF t, x, n

\* What core says is what it does.
LEMMA TellStreams ==
    ASSUME Typed, StreamsInv, NEW c, NEW m, Tell(c, m),
           m.up \subseteq core.ranks, c.ranks = core.ranks \ m.lost,
           c.up = (core.up \cup m.up) \ (m.down \cup m.lost),
           EndOf(c.exp) = IF m.exp < 0 THEN EndOf(core.exp) ELSE EndOf(m.exp)
    PROVE  StreamsInv'
<1>1. /\ rm' = rm /\ fz' = fz /\ toFz' = toFz /\ reqs' = reqs /\ edited' = edited /\ core' = c
      /\ (rm # Off /\ ~OnFile => acq' = Append(acq, m))
  BY DEF Tell, OnFile
<1>2. SameView
  BY <1>1 DEF SameView, SameGraph, Subscribed
<1>3. AsksKept
  BY <1>1, SameAsks DEF Typed
<1>4. FzTyped' /\ AsksInv' /\ StreamInv' /\ FzFollows'
  BY <1>1, <1>2, <1>3, FrameFz
<1>5. SourceInv'
  BY <1>1 DEF StreamsInv, SourceInv, OnFile
<1>6. RmFollows'
  <2> SUFFICES ASSUME rm # Off, ~OnFile, "graph" \notin edited PROVE RmFollows'
    BY <1>1 DEF RmFollows, OnFile, EndOf
  <2> DEFINE n == Len(acq)
             t == Append(acq, m)
             e == EndOf(core.exp)
             f == EndOf(c.exp)
  <2>1. /\ Leads(acq, 0, rm.ranks, rm.up, rm.end, core.ranks, core.up, e, edited)
        /\ rm.ranks = rm.notify_resources.ranks \ rm.notify_lost
        /\ rm.end # Never => \/ rm.notify_expiration \in Nat \ {0} /\ rm.end = rm.notify_expiration
                             \/ rm.notify_expiration = -1 /\ rm.end = EndOf(rm.notify_resources.end)
    BY DEF StreamsInv, RmFollows
  <2>2. n \in Nat /\ Longer(acq, t, n) /\ t[n + 1] = m
    BY PutOne DEF Typed, AcqTyped
  <2> HIDE DEF n, t, e, f
  <2>3. f = IF m.exp < 0 THEN e ELSE EndOf(m.exp)
    BY DEF e, f
  <2>4. Leads(t, 0, rm.ranks, rm.up, rm.end, core.ranks \ m.lost, (core.up \cup m.up) \ (m.down \cup m.lost),
              f, edited)
    <3>1. 0 \in {0, 1} /\ 0 <= n
      BY <2>2
    <3>2. Leads(acq, 0, rm.ranks, rm.up, rm.end, core.ranks, core.up, e, edited)
      BY <2>1
    <3> QED BY <2>2, <2>3, <3>1, <3>2, LeadsPut
  <2>5. Leads(t, 0, rm.ranks, rm.up, rm.end, c.ranks, c.up, EndOf(c.exp), edited)
    BY <2>4 DEF f
  <2>6. acq' = t
    BY <1>1 DEF t
  <2>7. Leads(acq', 0, rm'.ranks, rm'.up, rm'.end, core'.ranks, core'.up, EndOf(core'.exp), edited')
    BY <1>1, <2>5, <2>6
  <2>8. /\ rm'.ranks = rm'.notify_resources.ranks \ rm'.notify_lost
        /\ rm'.end # Never => \/ rm'.notify_expiration \in Nat \ {0} /\ rm'.end = rm'.notify_expiration
                              \/ rm'.notify_expiration = -1 /\ rm'.end = EndOf(rm'.notify_resources.end)
    BY <1>1, <2>1
  <2> QED BY <2>7, <2>8 DEF RmFollows, EndOf
<1> QED BY <1>4, <1>5, <1>6 DEF StreamsInv

\* Core's steps.
LEMMA CoreStreams ==
    ASSUME Typed, StreamsInv, CoreNext
    PROVE  StreamsInv'
<1>0. core \in [ranks : SUBSET Rank, up : SUBSET Rank, exp : Nat] /\ core.up \subseteq core.ranks
  BY DEF Typed, CoreTyped
<1>1. ASSUME NEW r \in Rank, CoreUp(r) PROVE StreamsInv'
  <2> DEFINE c == [core EXCEPT !.up = @ \cup {r}]
             m == [Nothing EXCEPT !.up = {r}]
  <2>1. Tell(c, m) /\ r \in core.ranks
    BY <1>1 DEF CoreUp
  <2>2. m.up = {r} /\ m.down = {} /\ m.lost = {} /\ m.exp < 0
    BY DEF Nothing
  <2>3. c.ranks = core.ranks /\ c.up = core.up \cup {r} /\ c.exp = core.exp
    BY <1>0
  <2> HIDE DEF c, m
  <2> QED BY <2>1, <2>2, <2>3, TellStreams
<1>2. ASSUME NEW r \in Rank, CoreDown(r) PROVE StreamsInv'
  <2> DEFINE c == [core EXCEPT !.up = @ \ {r}]
             m == [Nothing EXCEPT !.down = {r}]
  <2>1. Tell(c, m)
    BY <1>2 DEF CoreDown
  <2>2. m.up = {} /\ m.down = {r} /\ m.lost = {} /\ m.exp < 0
    BY DEF Nothing
  <2>3. c.ranks = core.ranks /\ c.up = core.up \ {r} /\ c.exp = core.exp
    BY <1>0
  <2> HIDE DEF c, m
  <2> QED BY <2>1, <2>2, <2>3, TellStreams
<1>3. ASSUME NEW r \in Rank, CoreLost(r) PROVE StreamsInv'
  <2> DEFINE c == [core EXCEPT !.ranks = @ \ {r}, !.up = @ \ {r}]
             m == [Nothing EXCEPT !.down = {r}, !.lost = {r}]
  <2>1. Tell(c, m)
    BY <1>3 DEF CoreLost
  <2>2. m.up = {} /\ m.down = {r} /\ m.lost = {r} /\ m.exp < 0
    BY DEF Nothing
  <2>3. c.ranks = core.ranks \ {r} /\ c.up = core.up \ {r} /\ c.exp = core.exp
    BY <1>0
  <2> HIDE DEF c, m
  <2> QED BY <2>1, <2>2, <2>3, TellStreams
<1>4. ASSUME NEW e \in sc.expirations, CoreExpiration(e) PROVE StreamsInv'
  <2> DEFINE c == [core EXCEPT !.exp = e]
             m == [Nothing EXCEPT !.exp = e]
  <2>1. Tell(c, m)
    BY <1>4 DEF CoreExpiration
  <2>2. e \in Nat
    BY ScenarioAssumption DEF Typed, CoreTyped
  <2>3. m.up = {} /\ m.down = {} /\ m.lost = {} /\ m.exp = e
    BY DEF Nothing
  <2>4. c.ranks = core.ranks /\ c.up = core.up /\ c.exp = e
    BY <1>0
  <2> HIDE DEF c, m
  <2>5. ~(m.exp < 0)
    BY <2>2, <2>3
  <2> QED BY <2>1, <2>3, <2>4, <2>5, TellStreams
<1> QED BY <1>1, <1>2, <1>3, <1>4 DEF CoreNext

-----------------------------------------------------------------------------
\* Only who has subscribed changes.
LEMMA MsgsOnly ==
    ASSUME RmSound, rm # Off, NEW S, rm' = [rm EXCEPT !.notify_msgs = S]
    PROVE  SameGraph /\ (Subscribed' <=> "fz" \in S) /\ rm' # Off
<1>1. DOMAIN rm = CtxFields
  BY DEF RmSound, Sound
<1>2. /\ rm'.opts = rm.opts /\ rm'.core = rm.core /\ rm'.ranks = rm.ranks /\ rm'.up = rm.up
      /\ rm'.end = rm.end /\ rm'.notify_resources = rm.notify_resources
      /\ rm'.notify_lost = rm.notify_lost /\ rm'.notify_expiration = rm.notify_expiration
      /\ rm'.notify_msgs = S /\ DOMAIN rm' = CtxFields
  BY <1>1 DEF CtxFields
<1>3. "opts" \in DOMAIN rm' /\ DOMAIN Off = {"loaded"}
  BY <1>2 DEF CtxFields, Off
<1> QED BY <1>2, <1>3 DEF SameGraph, Subscribed

\* The resource module starts: nobody has subscribed.
LEMMA LoadStreams ==
    ASSUME Typed, NEW c, load_resource(c)
    PROVE  StreamsInv'
<1>1. PICK p, i : /\ i = init_resource_graph(resource_ctx_t(p.opts, TRUE), Acquired)
                  /\ rm' = IF p.ok /\ i.ok THEN i.ctx ELSE Off
  BY DEF load_resource
<1>2. /\ fz' = Off /\ toFz' = << >> /\ reqs' = << >> /\ acq' = << >> /\ edited' = {} /\ core' = core
  BY DEF load_resource
<1>3. AsksInv'
  BY <1>2 DEF AsksInv
<1>4. FzTyped'
  <2>1. << >> \in Seq({})
    OBVIOUS
  <2> QED BY <1>2, <2>1 DEF FzTyped
<1>5. CASE rm' = Off
  BY <1>3, <1>4, <1>5 DEF StreamsInv, SourceInv, StreamInv, RmFollows, FzFollows
<1>6. CASE rm' # Off
  <2> DEFINE o == p.opts
             n == resource_ctx_t(o, TRUE)
             m == Acquired
             d == init_resource_graph(n, m).ctx
  <2> HIDE DEF o
  <2>1. rm' = d /\ init_resource_graph(n, m).ok
    BY <1>1, <1>6 DEF o
  <2>2. /\ m.res = [ranks |-> core.ranks, start |-> 0, end |-> core.exp, writer |-> "none",
                    key |-> {}, free |-> {}]
        /\ m.up = core.up /\ m.down = {} /\ m.lost = {} /\ m.exp = -1
    BY DEF Acquired, Nothing
  <2>3. m.res \in Machine
    BY <2>2 DEF Machine, CoreTyped, Typed
  <2>4. m.res # NoR
    BY <2>3, MatchAssumption DEF Machine
  <2>5. core.up \subseteq core.ranks /\ m.up \subseteq m.res.ranks
    BY <2>2 DEF CoreTyped, Typed
  <2> HIDE DEF m
  <2>6. /\ Only(n, d, {"root", "initialized", "ranks", "up", "nodes_up", "end", "updated", "ups",
                       "down_updated", "notify_resources"})
        /\ ~IsSet(o, "load-file") => /\ d.ranks = m.res.ranks /\ d.up = m.up
                                     /\ d.end = EndOf(m.res.end) /\ d.notify_resources = m.res
    BY <2>1, <2>2, <2>3, <2>4, <2>5, Loaded
  <2>7. n.opts = o /\ n.core /\ n.notify_lost = {} /\ n.notify_expiration = -1 /\ n.notify_msgs = {}
    BY DEF resource_ctx_t
  <2> HIDE DEF n, d
  <2>8. d.opts = o /\ d.core = n.core /\ d.notify_lost = {} /\ d.notify_expiration = -1 /\ d.notify_msgs = {}
    BY <2>6, <2>7 DEF Only, CtxFields
  <2>9. OnFile' <=> IsSet(o, "load-file")
    BY <2>1, <2>8 DEF OnFile
  <2>10. ~Subscribed'
    BY <2>1, <2>8 DEF Subscribed
  <2>11. SourceInv'
    BY <2>1, <2>3, <2>6, <2>7, <2>8, <2>9 DEF SourceInv
  <2>12. StreamInv' /\ FzFollows'
    BY <1>2, <2>10 DEF StreamInv, FzFollows
  <2>13. RmFollows'
    <3> SUFFICES ASSUME ~OnFile' PROVE RmFollows'
      BY DEF RmFollows
    <3>1. /\ d.ranks = core.ranks /\ d.up = core.up /\ d.end = EndOf(core.exp)
          /\ d.notify_resources.ranks = core.ranks /\ d.notify_resources.end = core.exp
      BY <2>2, <2>6, <2>9
    <3> DEFINE s == << >>
               R == core.ranks
               U == core.up
               e == EndOf(core.exp)
    <3>2. DOMAIN s = {} /\ U \subseteq R
      BY <2>5
    <3> HIDE DEF s, R, U, e
    <3>3. U = U \cap R
      BY <3>2
    <3>4. Leads(s, 0, R, U, e, R, U, e, {})
      BY <3>2, <3>3, LeadsEnd
    <3>5. Leads(acq', 0, rm'.ranks, rm'.up, rm'.end, core'.ranks, core'.up, EndOf(core'.exp), edited')
      BY <1>2, <2>1, <3>1, <3>4 DEF s, R, U, e
    <3>6. /\ rm'.ranks = rm'.notify_resources.ranks \ rm'.notify_lost
          /\ rm'.notify_expiration = -1 /\ rm'.end = EndOf(rm'.notify_resources.end)
      BY <2>1, <2>8, <3>1
    <3> QED BY <3>5, <3>6 DEF RmFollows, EndOf
  <2> QED BY <1>3, <1>4, <2>11, <2>12, <2>13 DEF StreamsInv
<1> QED BY <1>5, <1>6

\* The resource module leaves.
LEMMA UnloadStreams ==
    ASSUME StreamsInv, unload_resource
    PROVE  StreamsInv'
<1>1. /\ rm' = Off /\ reqs' = << >> /\ fz' = fz /\ (toFz' = toFz \/ toFz' = Append(toFz, StreamError))
  BY DEF unload_resource
<1>2. PICK S : toFz \in Seq(S)
  BY DEF StreamsInv, FzTyped
<1>3. \E Y : Append(toFz, StreamError) \in Seq(Y)
  BY <1>2, PutOne
<1>4. FzTyped'
  BY <1>1, <1>2, <1>3 DEF StreamsInv, FzTyped
<1>5. AsksInv'
  BY <1>1 DEF AsksInv
<1> QED BY <1>1, <1>4, <1>5 DEF StreamsInv, SourceInv, StreamInv, RmFollows, FzFollows

\* The feasibility module leaves: what it asked for has been answered.
LEMMA LeaveStreams ==
    ASSUME Typed, StreamsInv, LeaveFz, fz.initialized \/ toFz # << >>
    PROVE  StreamsInv'
<1>1. /\ fz' = Off /\ toFz' = << >> /\ acq' = acq /\ core' = core /\ reqs' = reqs /\ edited' = edited
      /\ rm' = disconnect_request_cb("fz")
  BY DEF LeaveFz
<1>2. rm' # Off => rm # Off /\ SameGraph /\ ~Subscribed'
  <2> SUFFICES ASSUME rm # Off PROVE SameGraph /\ ~Subscribed'
    BY <1>1 DEF disconnect_request_cb
  <2> DEFINE S == rm.notify_msgs \ {"fz"}
  <2>1. rm' = [rm EXCEPT !.notify_msgs = S]
    BY <1>1 DEF disconnect_request_cb
  <2>2. "fz" \notin S
    OBVIOUS
  <2> HIDE DEF S
  <2> QED BY <2>1, <2>2, MsgsOnly DEF Typed
<1>3. SourceInv' /\ RmFollows'
  BY <1>1, <1>2, FrameRm
<1>4. FzTyped'
  <2>1. << >> \in Seq({})
    OBVIOUS
  <2> QED BY <1>1, <2>1 DEF FzTyped
<1>5. AsksInv'
  BY <1>1, <1>2 DEF StreamsInv, AsksInv, Asks
<1>6. StreamInv' /\ FzFollows'
  BY <1>1, <1>2 DEF StreamInv, FzFollows
<1> QED BY <1>3, <1>4, <1>5, <1>6 DEF StreamsInv

\* The feasibility module starts, with a graph of its own or by asking for one.
LEMMA LoadFzStreams ==
    ASSUME Typed, StreamsInv, NEW c, load_feasibility(c)
    PROVE  StreamsInv'
<1> DEFINE o == resource_options(feasibility_set_default_args, c.table, c.args)
           opts == o.opts
           ctx == resource_ctx_t(opts, FALSE)
           file == IsSet(opts, "load-file")
           ask == [k |-> "notify", who |-> "fz"]
<1>1. /\ rm # Off /\ fz = Off /\ rm' = rm /\ acq' = acq /\ core' = core /\ edited' = edited /\ toFz' = toFz
      /\ fz' = IF ~o.ok THEN Off
               ELSE IF file THEN Then(populate_resource_db_file(ctx), TRUE, InitTraverser).ctx
               ELSE ctx
      /\ reqs' = IF o.ok /\ ~file THEN Append(reqs, ask) ELSE reqs
  BY DEF load_feasibility
<1>0. /\ rm # Off /\ fz = Off /\ rm' = rm /\ acq' = acq /\ core' = core /\ edited' = edited /\ toFz' = toFz
  BY <1>1
<1>2. toFz = << >> /\ ~Subscribed
  BY <1>0 DEF StreamsInv, StreamInv
<1>3. \A i \in DOMAIN reqs : ~Asks(reqs[i])
  BY <1>0 DEF StreamsInv, AsksInv
<1>4. SameGraph /\ ~Subscribed'
  BY <1>0, <1>2 DEF SameGraph, Subscribed
<1>5. SourceInv' /\ RmFollows'
  BY <1>0, <1>4, FrameRm
<1>6. StreamInv' /\ FzFollows'
  BY <1>0, <1>2, <1>4 DEF StreamInv, FzFollows
<1>7. /\ DOMAIN ctx = CtxFields /\ ~ctx.core /\ ~ctx.initialized /\ Fresh(ctx) /\ ctx.opts = opts
  BY CtxNew DEF resource_ctx_t, Fresh
<1>8. ctx # Off
  <2>1. "opts" \in DOMAIN ctx /\ DOMAIN Off = {"loaded"}
    BY <1>7 DEF CtxFields, Off
  <2> HIDE DEF ctx
  <2> QED BY <2>1
<1>9. file => LET d == Then(populate_resource_db_file(ctx), TRUE, InitTraverser).ctx
              IN  DOMAIN d = CtxFields /\ ~d.core /\ d.initialized
  <2> DEFINE x == [load(ctx, FileRanks) EXCEPT !.end = Never]
             l == load(ctx, FileRanks)
             d == [x EXCEPT !.initialized = TRUE]
  <2>1. DOMAIN l = CtxFields /\ l.root /\ l.core = ctx.core
    BY <1>7 DEF load, CtxFields
  <2> HIDE DEF l
  <2>2. x = [l EXCEPT !.end = Never]
    BY DEF l
  <2> HIDE DEF x
  <2>3. DOMAIN x = CtxFields /\ x.root = l.root /\ x.core = l.core
    BY <2>1, <2>2 DEF CtxFields
  <2>4. Then(populate_resource_db_file(ctx), TRUE, InitTraverser).ctx = d
    BY <2>1, <2>3 DEF Then, populate_resource_db_file, Done, InitTraverser, x
  <2>5. DOMAIN d = CtxFields /\ d.core = x.core /\ d.initialized
    BY <2>3 DEF CtxFields
  <2> QED BY <1>7, <2>1, <2>3, <2>4, <2>5
<1> DEFINE d == Then(populate_resource_db_file(ctx), TRUE, InitTraverser).ctx
<1> HIDE DEF ctx, file, o, d
<1>10. FzTyped'
  <2>1. fz' # Off => \/ DOMAIN fz' = CtxFields /\ ~fz'.core /\ fz'.initialized
                     \/ fz' = ctx /\ ~file
    BY <1>1, <1>9 DEF d
  <2>2. ASSUME fz' = ctx, ~file PROVE ~IsSet(fz'.opts, "load-file") /\ Fresh(fz')
    BY <1>7, <2>2 DEF file
  <2> QED BY <1>1, <1>7, <2>1, <2>2 DEF StreamsInv, FzTyped, Fresh
<1>11. AsksInv'
  <2>1. CASE reqs' = reqs
    BY <1>3, <2>1 DEF AsksInv, Asks
  <2>2. CASE reqs' # reqs
    <3> DEFINE n == Len(reqs)
               q == n + 1
               t == Append(reqs, ask)
    <3>1. reqs' = t /\ fz' = ctx
      BY <1>1, <2>2
    <3>2. n \in Nat /\ DOMAIN reqs = 1..n /\ Longer(reqs, t, n)
      BY PutOne DEF Typed, ReqsTyped
    <3> HIDE DEF n, t
    <3>3. \A i \in DOMAIN t : i = q \/ (i \in DOMAIN reqs /\ t[i] = reqs[i])
      BY <3>2 DEF Longer
    <3>4. \A i \in DOMAIN reqs' : Asks(reqs[i])' => i = q
      BY <1>3, <3>1, <3>3 DEF Asks
    <3>5. fz' # Off /\ ~fz'.initialized /\ toFz' = << >> /\ ~Subscribed'
      BY <1>1, <1>2, <1>4, <1>7, <1>8, <3>1
    <3> HIDE DEF q
    <3> QED BY <3>4, <3>5 DEF AsksInv
  <2> QED BY <2>1, <2>2
<1> QED BY <1>5, <1>6, <1>10, <1>11 DEF StreamsInv

\* The ranks that are up after a message about ranks that are there.
LEMMA FollowUp ==
    ASSUME NEW ctx, DOMAIN ctx = CtxFields, ctx.initialized, NEW m, m.res = NoR,
           m.up \subseteq ctx.ranks, ctx.up \subseteq ctx.ranks
    PROVE  LET c == update_resource(ctx, m).ctx
           IN  /\ update_resource(ctx, m).ok /\ DOMAIN c = CtxFields
               /\ c.initialized /\ c.core = ctx.core /\ c.opts = ctx.opts
               /\ c.notify_msgs = ctx.notify_msgs /\ c.notify_resources = ctx.notify_resources
               /\ c.ranks = ctx.ranks \ m.lost
               /\ c.up = (ctx.up \cup m.up) \ (m.down \cup m.lost)
               /\ c.end = IF m.exp < 0 THEN ctx.end ELSE EndOf(m.exp)
               /\ ctx.core => /\ c.notify_lost = ctx.notify_lost \cup m.lost
                              /\ c.notify_expiration = IF m.exp > 0 THEN m.exp ELSE ctx.notify_expiration
<1> DEFINE c == update_resource(ctx, m).ctx
<1>1. /\ update_resource(ctx, m).ok
      /\ Only(ctx, c, {"up", "nodes_up", "down_updated", "booked", "ranks", "props", "end",
                       "notify_lost", "notify_expiration"})
      /\ c.ranks = ctx.ranks \ m.lost
      /\ c.booked = IF m.lost = {} THEN ctx.booked
                    ELSE [r \in Rank |-> IF r \in m.lost THEN Nobody ELSE ctx.booked[r]]
      /\ c.up = ((ctx.up \cup (m.up \cap ctx.ranks)) \ ((m.down \ m.lost) \cap ctx.ranks)) \ m.lost
      /\ c.down_updated \/ (c.down_updated = ctx.down_updated /\ c.up = ctx.up \ m.lost)
      /\ c.end = IF m.exp < 0 THEN ctx.end ELSE EndOf(m.exp)
      /\ ctx.core => /\ c.notify_lost = ctx.notify_lost \cup m.lost
                     /\ c.notify_expiration = IF m.exp > 0 THEN m.exp ELSE ctx.notify_expiration
  BY Follow, Zenon
<1> HIDE DEF c
<1>2. c.up = (ctx.up \cup m.up) \ (m.down \cup m.lost)
  BY <1>1
<1>3. /\ c.initialized = ctx.initialized /\ c.core = ctx.core /\ c.opts = ctx.opts /\ DOMAIN c = CtxFields
      /\ c.notify_msgs = ctx.notify_msgs /\ c.notify_resources = ctx.notify_resources
  BY <1>1 DEF Only, CtxFields
<1> QED BY <1>1, <1>2, <1>3 DEF c

\* The feasibility module reads a response.
LEMMA NotifiedStreams ==
    ASSUME Typed, StreamsInv, feasibility_notified
    PROVE  StreamsInv'
<1> DEFINE msg == Head(toFz)
           m == msg.m
           t == Tail(toFz)
           made == Then(populate_resource_db(fz, m), TRUE, InitTraverser)
           next == IF ~fz.initialized THEN made
                   ELSE IF msg = EmptyResponse THEN Done(fz) ELSE update_resource(fz, m)
           u == IF msg = StreamError THEN Error(fz) ELSE next
<1>1. /\ fz # Off /\ toFz # << >>
      /\ IF msg = StreamError \/ (~fz.initialized /\ ~u.ok) THEN LeaveFz
         ELSE /\ fz' = u.ctx /\ toFz' = t
              /\ UNCHANGED <<sc, core, acq, rm, qm, jm, reqs, toQm, edited, silent>>
  BY DEF feasibility_notified
<1>0. fz # Off /\ toFz # << >>
  BY <1>1
<1>2. CASE msg = StreamError \/ (~fz.initialized /\ ~u.ok)
  <2>1. LeaveFz /\ toFz # << >>
    BY <1>1, <1>2
  <2> QED BY <2>1, LeaveStreams
<1>3. CASE ~(msg = StreamError \/ (~fz.initialized /\ ~u.ok))
  <2>1. /\ fz' = next.ctx /\ toFz' = t /\ rm' = rm /\ core' = core /\ acq' = acq /\ reqs' = reqs
        /\ edited' = edited /\ msg # StreamError /\ (~fz.initialized => made.ok)
    BY <1>1, <1>3
  <2> DEFINE n == Len(toFz) - 1
  <2>2. PICK S : toFz \in Seq(S)
    BY DEF StreamsInv, FzTyped
  <2>3. /\ n \in Nat /\ DOMAIN toFz = 1..(n + 1) /\ DOMAIN t = 1..n /\ msg = toFz[1]
        /\ \A i \in 1..n : t[i] = toFz[i + 1]
        /\ Read(Msgs(toFz), Msgs(t), n) /\ Msgs(toFz)[1] = m /\ t \in Seq(S)
    BY <1>1, <2>2, TakeOne
  <2> HIDE DEF n, t, msg, u
  <2>4. SameGraph /\ (Subscribed' <=> Subscribed) /\ (OnFile' <=> OnFile)
    BY <2>1 DEF SameGraph, Subscribed, OnFile
  <2>5. SourceInv' /\ RmFollows'
    BY <2>1, <2>4, FrameRm
  <2>6. AsksInv'
    BY <1>1, <2>1, <2>4 DEF StreamsInv, AsksInv, Asks
  <2>7. CASE rm = Off
    BY <2>1, <2>3, <2>5, <2>6, <2>7 DEF StreamsInv, FzTyped, StreamInv, FzFollows
  <2>8. CASE rm # Off
    <3>1. Subscribed /\ ~OnFile
      BY <2>1, <2>3, <2>8 DEF StreamsInv, StreamInv
    <3>2. \A i \in DOMAIN t : Later(t[i])
      <4>1. \A i \in 1..n : i + 1 > 1 /\ i + 1 \in 1..(n + 1)
        BY <2>3
      <4> QED BY <2>3, <2>8, <3>1, <4>1 DEF StreamsInv, StreamInv
    <3>3. DOMAIN fz = CtxFields /\ ~fz.core
      BY <1>0, <2>8 DEF StreamsInv, FzTyped
    <3>4. ASSUME fz' # Off, DOMAIN fz' = CtxFields, ~fz'.core, fz'.initialized,
                 "graph" \notin edited => Leads(Msgs(t), 0, fz'.ranks, fz'.up, fz'.end, rm.ranks, rm.up, rm.end, edited)
          PROVE  StreamsInv'
      <4>1. FzTyped'
        BY <2>1, <2>3, <3>4 DEF FzTyped
      <4>2. StreamInv'
        BY <2>1, <2>4, <3>1, <3>2, <3>4 DEF StreamInv
      <4>3. Updates' = Msgs(t)
        BY <2>1 DEF Updates, Msgs
      <4>4. FzFollows'
        BY <2>1, <3>4, <4>3 DEF FzFollows
      <4> QED BY <2>5, <2>6, <4>1, <4>2, <4>4 DEF StreamsInv
    <3>5. CASE fz.initialized
      <4>1. Later(msg)
        BY <2>3, <2>8, <3>1, <3>5 DEF StreamsInv, StreamInv
      <4>2. "graph" \notin edited => Leads(Msgs(toFz), 0, fz.ranks, fz.up, fz.end, rm.ranks, rm.up, rm.end, edited)
        <5>1. Updates = Msgs(toFz)
          BY DEF Updates, Msgs
        <5> QED BY <2>8, <3>1, <3>5, <5>1 DEF StreamsInv, FzFollows
      <4>3. "graph" \notin edited =>
               /\ m.up \subseteq fz.ranks /\ fz.up \subseteq fz.ranks
               /\ Leads(Msgs(t), 0, fz.ranks \ m.lost, (fz.up \cup m.up) \ (m.down \cup m.lost),
                        IF m.exp < 0 THEN fz.end ELSE EndOf(m.exp), rm.ranks, rm.up, rm.end, edited)
        <5> DEFINE F == IF m.exp < 0 THEN fz.end ELSE EndOf(m.exp)
                   s == Msgs(toFz)
                   x == Msgs(t)
        <5> SUFFICES ASSUME "graph" \notin edited
                     PROVE  /\ m.up \subseteq fz.ranks /\ fz.up \subseteq fz.ranks
                            /\ Leads(x, 0, fz.ranks \ m.lost, (fz.up \cup m.up) \ (m.down \cup m.lost),
                                     F, rm.ranks, rm.up, rm.end, edited)
          OBVIOUS
        <5>1. Read(s, x, n) /\ m = s[1] /\ Leads(s, 0, fz.ranks, fz.up, fz.end, rm.ranks, rm.up, rm.end, edited)
          BY <2>3, <4>2
        <5> HIDE DEF s, x, m
        <5> QED BY <5>1, LeadsTake
      <4>4. CASE msg = EmptyResponse
        <5>1. fz' = fz
          BY <2>1, <3>5, <4>4 DEF Done
        <5>2. m.up = {} /\ m.down = {} /\ m.lost = {} /\ m.exp < 0
          BY <4>4 DEF EmptyResponse, Nothing
        <5>3. "graph" \notin edited => Leads(Msgs(t), 0, fz.ranks, fz.up, fz.end, rm.ranks, rm.up, rm.end, edited)
          <6>1. fz.ranks \ m.lost = fz.ranks /\ (fz.up \cup m.up) \ (m.down \cup m.lost) = fz.up
            BY <5>2
          <6> QED BY <4>3, <5>2, <6>1
        <5> QED BY <1>1, <3>3, <3>4, <3>5, <5>1, <5>3
      <4>5. CASE msg # EmptyResponse
        <5> DEFINE d == update_resource(fz, m).ctx
        <5>1. fz' = d /\ m.res = NoR
          BY <2>1, <3>5, <4>1, <4>5 DEF Later
        <5> HIDE DEF m
        <5>2. Only(fz, d, {"up", "nodes_up", "down_updated", "booked", "ranks", "props", "end",
                           "notify_lost", "notify_expiration"})
          BY <3>3, <3>5, <5>1, Follow
        <5>3. m.up \subseteq fz.ranks /\ fz.up \subseteq fz.ranks =>
                 /\ d.ranks = fz.ranks \ m.lost /\ d.up = (fz.up \cup m.up) \ (m.down \cup m.lost)
                 /\ d.end = IF m.exp < 0 THEN fz.end ELSE EndOf(m.exp)
          BY <3>3, <3>5, <5>1, FollowUp
        <5> HIDE DEF d
        <5>4. DOMAIN d = CtxFields /\ d.core = fz.core /\ d.initialized = fz.initialized
          BY <5>2 DEF Only, CtxFields
        <5>5. d # Off
          <6>1. "opts" \in DOMAIN d /\ DOMAIN Off = {"loaded"}
            BY <5>4 DEF CtxFields, Off
          <6> QED BY <6>1
        <5>6. "graph" \notin edited => Leads(Msgs(t), 0, d.ranks, d.up, d.end, rm.ranks, rm.up, rm.end, edited)
          BY <4>3, <5>3
        <5> QED BY <3>3, <3>4, <3>5, <5>1, <5>4, <5>5, <5>6
      <4> QED BY <4>4, <4>5
    <3>6. CASE ~fz.initialized
      <4>1. First(msg)
        BY <2>3, <2>8, <3>1, <3>6 DEF StreamsInv, StreamInv
      <4>2. "graph" \notin edited => Leads(Msgs(toFz), 1, m.res.ranks, m.res.ranks, EndOf(m.res.end),
                                           rm.ranks, rm.up, rm.end, edited)
        <5>1. Updates = Msgs(toFz)
          BY DEF Updates, Msgs
        <5> QED BY <2>3, <2>8, <3>1, <3>6, <5>1 DEF StreamsInv, FzFollows
      <4>3. "graph" \notin edited => Leads(Msgs(t), 0, m.res.ranks, m.res.ranks, EndOf(m.res.end),
                                           rm.ranks, rm.up, rm.end, edited)
        BY <2>3, <4>2, LeadsDrop
      <4>4. Fresh(fz) /\ ~IsSet(fz.opts, "load-file")
        BY <1>0, <2>8, <3>6 DEF StreamsInv, FzTyped
      <4> DEFINE c == update_resource(fz, m).ctx
                 d == [c EXCEPT !.initialized = TRUE]
      <4>5. m.res \in Machine /\ m.up = {} /\ m.down = {} /\ m.lost = {} /\ m.exp = -1
        BY <4>1 DEF First
      <4>6. m.res # NoR
        BY <4>5, MatchAssumption DEF Machine
      <4>7. update_resource(fz, m).ok /\ (c.root => fz' = d)
        BY <2>1, <3>6, <4>4 DEF Then, populate_resource_db, InitTraverser, Done
      <4> HIDE DEF m
      <4>8. /\ Only(fz, c, {"root", "ranks", "up", "nodes_up", "end", "updated", "ups", "notify_resources"})
            /\ c.root /\ c.ranks = m.res.ranks /\ c.up = m.res.ranks /\ c.end = EndOf(m.res.end)
        BY <3>3, <4>4, <4>5, <4>6, <4>7, Populated
      <4> HIDE DEF c
      <4>9. c.core = fz.core /\ DOMAIN c = CtxFields
        BY <4>8 DEF Only, CtxFields
      <4>10. /\ DOMAIN d = CtxFields /\ d.initialized /\ d.core = c.core /\ d.ranks = c.ranks /\ d.up = c.up
             /\ d.end = c.end
        BY <4>9 DEF CtxFields
      <4> HIDE DEF d
      <4>11. d # Off
        <5>1. "opts" \in DOMAIN d /\ DOMAIN Off = {"loaded"}
          BY <4>10 DEF CtxFields, Off
        <5> QED BY <5>1
      <4>12. "graph" \notin edited => Leads(Msgs(t), 0, d.ranks, d.up, d.end, rm.ranks, rm.up, rm.end, edited)
        BY <4>3, <4>8, <4>10
      <4> QED BY <3>3, <3>4, <4>7, <4>8, <4>9, <4>10, <4>11, <4>12
    <3> QED BY <3>5, <3>6
  <2> QED BY <2>7, <2>8
<1> QED BY <1>2, <1>3

\* The status was changed by hand.
LEMMA LeadsStatus ==
    ASSUME NEW s, NEW o, NEW R, NEW U, NEW E, NEW T, NEW V, NEW e, NEW a, NEW b,
           Leads(s, o, R, U, E, T, V, e, a), a \subseteq b,
           NEW X, NEW W, X \subseteq R, "status" \notin b => X = U /\ W = V
    PROVE  Leads(s, o, R, X, E, T, W, e, b)
  BY DEF Leads

\* The resource module changes, and tells whoever has subscribed, unless its status is
\* changed by hand.
LEMMA SendStreams ==
    ASSUME StreamsInv, rm # Off, rm'.opts = rm.opts, Subscribed' <=> Subscribed, fz' = fz, reqs' = reqs,
           edited \subseteq edited', NEW x, Later(x),
           \/ toFz' = IF Subscribed THEN Append(toFz, x) ELSE toFz
           \/ toFz' = toFz /\ "status" \in edited' /\ x.m.lost = {} /\ x.m.exp < 0,
           "graph" \notin edited' /\ Subscribed =>
              /\ x.m.up \subseteq rm.ranks /\ rm'.ranks = rm.ranks \ x.m.lost
              /\ "status" \notin edited' => rm'.up = (rm.up \cup x.m.up) \ (x.m.down \cup x.m.lost)
              /\ rm'.end = IF x.m.exp < 0 THEN rm.end ELSE EndOf(x.m.exp)
    PROVE  FzTyped' /\ AsksInv' /\ StreamInv' /\ FzFollows'
<1>1. PICK S : toFz \in Seq(S)
  BY DEF StreamsInv, FzTyped
<1> DEFINE t == Append(toFz, x)
           n == Len(toFz)
<1>2. /\ n \in Nat /\ DOMAIN toFz = 1..n
      /\ Longer(toFz, t, n) /\ t[n + 1] = x
      /\ Longer(Msgs(toFz), Msgs(t), n) /\ Msgs(t)[n + 1] = x.m
      /\ \E Y : t \in Seq(Y)
  BY <1>1, PutOne
<1>3. toFz = << >> => n = 0
  OBVIOUS
<1>4. n # 0 => t # << >>
  BY <1>1
<1> HIDE DEF t, n
<1>5. toFz' = toFz \/ (Subscribed /\ toFz' = t)
  BY DEF t
<1>6. FzTyped'
  BY <1>2, <1>5 DEF StreamsInv, FzTyped
<1>7. AsksInv'
  BY <1>5 DEF StreamsInv, AsksInv, Asks
<1>8. /\ \A i \in DOMAIN t : i = n + 1 \/ (i \in DOMAIN toFz /\ t[i] = toFz[i])
      /\ \A i \in DOMAIN toFz : i \in DOMAIN t
  BY <1>2 DEF Longer
<1>9. Subscribed /\ ~fz.initialized => n # 0 /\ 1 \in DOMAIN toFz /\ t[1] = toFz[1]
  <2> SUFFICES ASSUME Subscribed, ~fz.initialized PROVE n # 0 /\ 1 \in DOMAIN toFz /\ t[1] = toFz[1]
    OBVIOUS
  <2>1. toFz # << >>
    BY DEF StreamsInv, StreamInv
  <2>2. n # 0
    BY <1>1, <2>1 DEF n
  <2> QED BY <1>2, <2>2 DEF Longer
<1>10. StreamInv'
  <2>1. CASE toFz' = toFz
    BY <2>1 DEF StreamsInv, StreamInv, OnFile
  <2>2. CASE Subscribed /\ toFz' = t
    <3>1. \A i \in DOMAIN t : fz.initialized \/ i > 1 => Later(t[i])
      BY <1>2, <1>8, <2>2 DEF StreamsInv, StreamInv
    <3>2. ~fz.initialized => t # << >> /\ First(t[1])
      BY <1>4, <1>9, <2>2 DEF StreamsInv, StreamInv
    <3>3. fz # Off /\ ~OnFile
      BY <2>2 DEF StreamsInv, StreamInv
    <3> QED BY <2>2, <3>1, <3>2, <3>3 DEF StreamInv, OnFile
  <2> QED BY <1>5, <2>1, <2>2
<1>11. FzFollows'
  <2> SUFFICES ASSUME "graph" \notin edited', Subscribed
               PROVE  /\ fz.initialized => Leads(Updates', 0, fz.ranks, fz.up, fz.end, rm'.ranks, rm'.up, rm'.end, edited')
                      /\ ~fz.initialized => Leads(Updates', 1, toFz'[1].m.res.ranks, toFz'[1].m.res.ranks,
                                                   EndOf(toFz'[1].m.res.end), rm'.ranks, rm'.up, rm'.end, edited')
    BY DEF FzFollows, EndOf
  <2> DEFINE m == x.m
             up == (rm.up \cup m.up) \ (m.down \cup m.lost)
             f == IF m.exp < 0 THEN rm.end ELSE EndOf(m.exp)
  <2>1. /\ "graph" \notin edited /\ m.up \subseteq rm.ranks /\ rm'.ranks = rm.ranks \ m.lost
        /\ "status" \notin edited' => rm'.up = up
        /\ rm'.end = f
    OBVIOUS
  <2> HIDE DEF m, up, f
  <2>2. ASSUME NEW o \in {0, 1}, o <= n, NEW R, NEW U, NEW E,
               Leads(Updates, o, R, U, E, rm.ranks, rm.up, rm.end, edited)
        PROVE  Leads(Updates', o, R, U, E, rm'.ranks, rm'.up, rm'.end, edited')
    <3>1. CASE toFz' = t
      <4>1. Leads(Msgs(toFz), o, R, U, E, rm.ranks, rm.up, rm.end, edited)
        BY <2>2 DEF Updates, Msgs
      <4>2. f = IF m.exp < 0 THEN rm.end ELSE EndOf(m.exp)
        BY DEF f
      <4>3. m = Msgs(t)[n + 1]
        BY <1>2 DEF m
      <4>4. Leads(Msgs(t), o, R, U, E, rm.ranks \ m.lost, up, f, edited)
        <5> DEFINE s == Msgs(toFz)
                   q == Msgs(t)
                   T == rm.ranks
                   V == rm.up
                   e == rm.end
        <5>1. /\ Longer(s, q, n) /\ m = q[n + 1] /\ Leads(s, o, R, U, E, T, V, e, edited)
              /\ m.up \subseteq T /\ f = IF m.exp < 0 THEN e ELSE EndOf(m.exp)
          BY <1>2, <2>1, <4>1, <4>2, <4>3
        <5> HIDE DEF s, q, T, V, e
        <5>2. Leads(q, o, R, U, E, T \ m.lost, (V \cup m.up) \ (m.down \cup m.lost), f, edited)
          <6>1. o \in {0, 1} /\ o <= n
            BY <2>2
          <6>2. Longer(s, q, n) /\ m = q[n + 1]
            BY <5>1
          <6>3. Leads(s, o, R, U, E, T, V, e, edited)
            BY <5>1
          <6>4. m.up \subseteq T /\ f = IF m.exp < 0 THEN e ELSE EndOf(m.exp)
            BY <5>1
          <6>5. n \in Nat
            BY <1>2
          <6>6. CASE o = 0
            <7>1. 0 \in {0, 1} /\ 0 <= n /\ Leads(s, 0, R, U, E, T, V, e, edited)
              BY <6>3, <6>5, <6>6
            <7>2. Leads(q, 0, R, U, E, T \ m.lost, (V \cup m.up) \ (m.down \cup m.lost), f, edited)
              BY <6>2, <6>4, <6>5, <7>1, LeadsPut
            <7> QED BY <6>6, <7>2
          <6>7. CASE o = 1
            <7>1. 1 \in {0, 1} /\ 1 <= n /\ Leads(s, 1, R, U, E, T, V, e, edited)
              BY <6>1, <6>3, <6>5, <6>7
            <7>2. Leads(q, 1, R, U, E, T \ m.lost, (V \cup m.up) \ (m.down \cup m.lost), f, edited)
              BY <6>2, <6>4, <6>5, <7>1, LeadsPut
            <7> QED BY <6>7, <7>2
          <6> QED BY <6>1, <6>6, <6>7
        <5> QED BY <5>2 DEF up, q, T, V
      <4>5. Updates' = Msgs(t)
        BY <3>1 DEF Updates, Msgs
      <4>6. U \subseteq R
        BY <4>1 DEF Leads
      <4>7. Leads(Msgs(t), o, R, U, E, rm.ranks \ m.lost, rm'.up, f, edited')
        BY <2>1, <4>4, <4>6, LeadsStatus
      <4> QED BY <2>1, <4>5, <4>7
    <3>2. CASE toFz' # t
      <4>1. toFz' = toFz /\ "status" \in edited' /\ m.lost = {} /\ m.exp < 0
        BY <3>2 DEF t, m
      <4>2. Updates' = Updates /\ rm.ranks \ m.lost = rm.ranks /\ f = rm.end
        BY <4>1 DEF Updates, f
      <4>3. U \subseteq R
        BY <2>2 DEF Leads
      <4>4. Leads(Updates, o, R, U, E, rm.ranks, rm'.up, rm.end, edited')
        BY <2>2, <4>1, <4>3, LeadsStatus
      <4> QED BY <2>1, <4>2, <4>4
    <3> QED BY <3>1, <3>2
  <2>3. CASE fz.initialized
    <3>1. Leads(Updates, 0, fz.ranks, fz.up, fz.end, rm.ranks, rm.up, rm.end, edited)
      BY <2>1, <2>3 DEF StreamsInv, FzFollows
    <3>2. 0 \in {0, 1} /\ 0 <= n
      BY <1>2
    <3> QED BY <2>2, <2>3, <3>1, <3>2
  <2>4. CASE ~fz.initialized
    <3>1. Leads(Updates, 1, toFz[1].m.res.ranks, toFz[1].m.res.ranks, EndOf(toFz[1].m.res.end),
                rm.ranks, rm.up, rm.end, edited)
      BY <2>1, <2>4 DEF StreamsInv, FzFollows
    <3>2. 1 \in {0, 1} /\ 1 <= n
      BY <1>2, <1>9, <2>4
    <3>3. toFz'[1] = toFz[1]
      BY <1>5, <1>9, <2>4
    <3> QED BY <2>2, <2>4, <3>1, <3>2, <3>3
  <2> QED BY <2>3, <2>4
<1> QED BY <1>6, <1>7, <1>10, <1>11

\* What core says is taken over and sent on.
LEMMA UpdateStreams ==
    ASSUME Typed, StreamsInv, update_resource_then
    PROVE  StreamsInv'
<1> DEFINE m == Head(acq)
           t == Tail(acq)
           x == Payload(m)
           n == Len(acq) - 1
           u == update_resource(rm, m)
           d == u.ctx
<1>1. /\ rm # Off /\ acq # << >> /\ rm' = d /\ acq' = t
      /\ fz' = fz /\ core' = core /\ reqs' = reqs /\ edited' = edited
      /\ toFz' = IF "fz" \in (IF u.ok THEN rm.notify_msgs ELSE {}) THEN Append(toFz, x) ELSE toFz
  BY DEF update_resource_then, Respond
<1>2. m \in Update /\ Read(acq, t, n) /\ m = acq[1]
  BY <1>1, Shorter, TakeOne DEF Typed, AcqTyped
<1>3. m.res = NoR /\ m.exp \in Int /\ x.m = m /\ Later(x)
  BY <1>2 DEF Update, Payload, Later
<1>4. DOMAIN rm = CtxFields /\ rm.initialized
  BY <1>1 DEF Typed, RmSound, Sound
<1> HIDE DEF m, t, x, n
<1>5. u.ok /\ Only(rm, d, {"up", "nodes_up", "down_updated", "booked", "ranks", "props", "end",
                           "notify_lost", "notify_expiration"})
  BY <1>3, <1>4, Follow
<1>6. m.up \subseteq rm.ranks /\ rm.up \subseteq rm.ranks =>
         /\ d.ranks = rm.ranks \ m.lost /\ d.up = (rm.up \cup m.up) \ (m.down \cup m.lost)
         /\ d.end = IF m.exp < 0 THEN rm.end ELSE EndOf(m.exp)
         /\ rm.core => /\ d.notify_lost = rm.notify_lost \cup m.lost
                       /\ d.notify_expiration = IF m.exp > 0 THEN m.exp ELSE rm.notify_expiration
  BY <1>3, <1>4, FollowUp
<1>7. toFz' = IF Subscribed THEN Append(toFz, x) ELSE toFz
  BY <1>1, <1>5 DEF Subscribed
<1> HIDE DEF u, d
<1>8. d.opts = rm.opts /\ d.core = rm.core /\ d.notify_msgs = rm.notify_msgs /\ d.notify_resources = rm.notify_resources
  BY <1>5 DEF Only, CtxFields
<1>9. SourceInv'
  BY <1>1, <1>8 DEF StreamsInv, SourceInv, OnFile
<1>10. (Subscribed' <=> Subscribed) /\ (OnFile' <=> OnFile)
  BY <1>1, <1>8 DEF Subscribed, OnFile
<1>11. CASE OnFile \/ "graph" \in edited
  <2>1. RmFollows'
    BY <1>1, <1>10, <1>11 DEF RmFollows
  <2>2. "graph" \notin edited' /\ Subscribed => FALSE
    BY <1>1, <1>11 DEF StreamsInv, StreamInv
  <2>3. FzTyped' /\ AsksInv' /\ StreamInv' /\ FzFollows'
    BY <1>1, <1>3, <1>7, <1>8, <1>10, <2>2, SendStreams
  <2> QED BY <1>9, <2>1, <2>3 DEF StreamsInv
<1>12. CASE ~OnFile /\ "graph" \notin edited
  <2> DEFINE e == EndOf(core.exp)
             F == IF m.exp < 0 THEN rm.end ELSE EndOf(m.exp)
             R == rm.notify_resources
  <2>1. /\ Leads(acq, 0, rm.ranks, rm.up, rm.end, core.ranks, core.up, e, edited)
        /\ rm.ranks = R.ranks \ rm.notify_lost
        /\ rm.end # Never => \/ rm.notify_expiration \in Nat \ {0} /\ rm.end = rm.notify_expiration
                             \/ rm.notify_expiration = -1 /\ rm.end = EndOf(R.end)
    BY <1>1, <1>12 DEF StreamsInv, RmFollows
  <2>2. rm.core
    BY <1>1 DEF StreamsInv, SourceInv
  <2>3. /\ m.up \subseteq rm.ranks /\ rm.up \subseteq rm.ranks
        /\ Leads(t, 0, rm.ranks \ m.lost, (rm.up \cup m.up) \ (m.down \cup m.lost), F,
                 core.ranks, core.up, e, edited)
    <3> HIDE DEF e
    <3>1. Leads(acq, 0, rm.ranks, rm.up, rm.end, core.ranks, core.up, e, edited)
      BY <2>1
    <3> QED BY <1>2, <3>1, LeadsTake
  <2>4. /\ d.ranks = rm.ranks \ m.lost /\ d.up = (rm.up \cup m.up) \ (m.down \cup m.lost) /\ d.end = F
        /\ d.notify_lost = rm.notify_lost \cup m.lost
        /\ d.notify_expiration = IF m.exp > 0 THEN m.exp ELSE rm.notify_expiration
    BY <1>6, <2>2, <2>3
  <2>5. FzTyped' /\ AsksInv' /\ StreamInv' /\ FzFollows'
    <3>1. x.m.up \subseteq rm.ranks /\ rm'.ranks = rm.ranks \ x.m.lost
          /\ rm'.up = (rm.up \cup x.m.up) \ (x.m.down \cup x.m.lost)
          /\ rm'.end = IF x.m.exp < 0 THEN rm.end ELSE EndOf(x.m.exp)
      BY <1>1, <1>3, <2>3, <2>4
    <3> QED BY <1>1, <1>3, <1>7, <1>8, <1>10, <3>1, SendStreams
  <2>6. d.ranks = R.ranks \ d.notify_lost
    BY <2>1, <2>4
  <2>7. d.end # Never => \/ d.notify_expiration \in Nat \ {0} /\ d.end = d.notify_expiration
                         \/ d.notify_expiration = -1 /\ d.end = EndOf(R.end)
    <3>1. CASE m.exp < 0
      <4>1. d.end = rm.end /\ d.notify_expiration = rm.notify_expiration
        BY <1>3, <2>4, <3>1
      <4> QED BY <2>1, <4>1
    <3>2. CASE ~(m.exp < 0)
      <4>1. d.end = EndOf(m.exp)
        BY <2>4, <3>2
      <4>2. d.end # Never => m.exp \in Nat \ {0} /\ m.exp > 0 /\ d.end = m.exp
        BY <1>3, <3>2, <4>1 DEF EndOf
      <4> QED BY <2>4, <4>2
    <3> QED BY <3>1, <3>2
  <2>8. Leads(t, 0, d.ranks, d.up, d.end, core.ranks, core.up, e, edited)
    BY <2>3, <2>4
  <2>9. Leads(acq', 0, rm'.ranks, rm'.up, rm'.end, core'.ranks, core'.up, EndOf(core'.exp), edited')
    BY <1>1, <2>8
  <2>10. /\ rm'.ranks = rm'.notify_resources.ranks \ rm'.notify_lost
         /\ rm'.end # Never =>
               \/ rm'.notify_expiration \in Nat \ {0} /\ rm'.end = rm'.notify_expiration
               \/ rm'.notify_expiration = -1 /\ rm'.end = EndOf(rm'.notify_resources.end)
    BY <1>1, <1>8, <2>6, <2>7
  <2>11. RmFollows'
    BY <2>9, <2>10 DEF RmFollows, EndOf
  <2> QED BY <1>9, <2>5, <2>11 DEF StreamsInv
<1> QED BY <1>11, <1>12

\* The status is changed by hand.
LEMMA StatusStreams ==
    ASSUME Typed, StreamsInv, NEW r, NEW up \in BOOLEAN, set_status_request_cb(r, up)
    PROVE  StreamsInv'
<1> DEFINE d == mark_now(rm, {r}, up)
           x == EmptyResponse
<1>1. /\ rm # Off /\ rm' = d /\ acq' = acq /\ edited' = edited \cup {"status"}
      /\ fz' = fz /\ core' = core /\ reqs' = reqs
      /\ toFz' = IF "fz" \in (IF up THEN rm.notify_msgs ELSE {}) THEN Append(toFz, x) ELSE toFz
  BY DEF set_status_request_cb, Respond, Edit
<1>2. DOMAIN rm = CtxFields
  BY <1>1 DEF Typed, RmSound, Sound
<1>3. /\ Only(rm, d, {"up", "nodes_up", "down_updated"})
      /\ d.up = IF up THEN rm.up \cup ({r} \cap rm.ranks) ELSE rm.up \ ({r} \cap rm.ranks)
  BY <1>2, MarkNow
<1>4. x.m.up = {} /\ x.m.down = {} /\ x.m.lost = {} /\ x.m.exp < 0 /\ Later(x)
  BY DEF EmptyResponse, Nothing, Later
<1>5. \/ toFz' = IF Subscribed THEN Append(toFz, x) ELSE toFz
      \/ toFz' = toFz
  BY <1>1 DEF Subscribed
<1> HIDE DEF d, x
<1>6. /\ d.opts = rm.opts /\ d.core = rm.core /\ d.ranks = rm.ranks
      /\ d.end = rm.end /\ d.notify_resources = rm.notify_resources
      /\ d.notify_lost = rm.notify_lost /\ d.notify_expiration = rm.notify_expiration
      /\ d.notify_msgs = rm.notify_msgs
  BY <1>3 DEF Only, CtxFields
<1>7. (Subscribed' <=> Subscribed) /\ (OnFile' <=> OnFile)
  BY <1>1, <1>6 DEF Subscribed, OnFile
<1>8. "status" \in edited' /\ edited \subseteq edited' /\ ("graph" \in edited' <=> "graph" \in edited)
  BY <1>1
<1>9. SourceInv'
  BY <1>1, <1>6 DEF StreamsInv, SourceInv, OnFile
<1>10. FzTyped' /\ AsksInv' /\ StreamInv' /\ FzFollows'
  <2>1. x.m.up \subseteq rm.ranks /\ rm'.ranks = rm.ranks \ x.m.lost /\ rm'.end = rm.end
    BY <1>1, <1>4, <1>6
  <2> QED BY <1>1, <1>4, <1>5, <1>6, <1>7, <1>8, <2>1, SendStreams
<1>11. RmFollows'
  <2> SUFFICES ASSUME ~OnFile, "graph" \notin edited PROVE RmFollows'
    BY <1>7, <1>8 DEF RmFollows
  <2> DEFINE e == EndOf(core.exp)
  <2>1. /\ Leads(acq, 0, rm.ranks, rm.up, rm.end, core.ranks, core.up, e, edited)
        /\ rm.ranks = rm.notify_resources.ranks \ rm.notify_lost
        /\ rm.end # Never => \/ rm.notify_expiration \in Nat \ {0} /\ rm.end = rm.notify_expiration
                             \/ rm.notify_expiration = -1 /\ rm.end = EndOf(rm.notify_resources.end)
    BY <1>1 DEF StreamsInv, RmFollows
  <2> HIDE DEF e
  <2>2. d.up \subseteq rm.ranks
    <3>1. rm.up \subseteq rm.ranks
      BY <2>1 DEF Leads
    <3> QED BY <1>3, <3>1
  <2>3. Leads(acq, 0, rm.ranks, d.up, rm.end, core.ranks, core.up, e, edited')
    BY <1>8, <2>1, <2>2, LeadsStatus
  <2>4. Leads(acq', 0, rm'.ranks, rm'.up, rm'.end, core'.ranks, core'.up, EndOf(core'.exp), edited')
    BY <1>1, <1>6, <2>3 DEF e
  <2>5. /\ rm'.ranks = rm'.notify_resources.ranks \ rm'.notify_lost
        /\ rm'.end # Never =>
              \/ rm'.notify_expiration \in Nat \ {0} /\ rm'.end = rm'.notify_expiration
              \/ rm'.notify_expiration = -1 /\ rm'.end = EndOf(rm'.notify_resources.end)
    BY <1>1, <1>6, <2>1
  <2> QED BY <2>4, <2>5 DEF RmFollows, EndOf
<1> QED BY <1>9, <1>10, <1>11 DEF StreamsInv

\* The ranks in the graph are edited: nothing is said of them any more.
LEMMA GraphStreams ==
    ASSUME Typed, StreamsInv, NEW r, add_subgraph_request_cb(r) \/ remove_subgraph_request_cb(r)
    PROVE  StreamsInv'
<1>1. /\ rm # Off /\ "graph" \in edited' /\ acq' = acq /\ core' = core /\ fz' = fz /\ toFz' = toFz /\ reqs' = reqs
      /\ \/ rm' = run_add_subgraph(rm, r).ctx
         \/ rm' = run_remove_subgraph(rm, r).ctx
  BY DEF add_subgraph_request_cb, remove_subgraph_request_cb, Edit
<1>2. DOMAIN rm = CtxFields
  BY <1>1 DEF Typed, RmSound, Sound
<1>3. rm'.opts = rm.opts /\ rm'.core = rm.core /\ rm'.notify_resources = rm.notify_resources
      /\ rm'.notify_msgs = rm.notify_msgs
  <2> DEFINE a == [rm EXCEPT !.ranks = @ \cup {r}, !.up = @ \cup {r}]
             b == [rm EXCEPT !.ranks = @ \ {r}, !.up = @ \ {r}, !.props = @ \ {r}]
  <2>1. /\ Only(rm, a, {"ranks", "up", "props"}) /\ Only(rm, b, {"ranks", "up", "props"})
    BY <1>2 DEF Only, CtxFields
  <2>2. PICK c : Only(rm, c, {"ranks", "up", "props"}) /\ (rm' = c \/ rm' = [c EXCEPT !.initialized = TRUE])
    <3> HIDE DEF a, b
    <3>1. \/ rm' = rm \/ rm' = InitTraverser(a).ctx \/ rm' = InitTraverser(b).ctx
      BY <1>1 DEF run_add_subgraph, run_remove_subgraph, Error, a, b
    <3>2. \A z : InitTraverser(z).ctx = z \/ InitTraverser(z).ctx = [z EXCEPT !.initialized = TRUE]
      BY DEF InitTraverser, Done, Error
    <3>3. Only(rm, rm, {"ranks", "up", "props"})
      BY <1>2 DEF Only
    <3> QED BY <2>1, <3>1, <3>2, <3>3
  <2>3. Only(rm, rm', {"ranks", "up", "props", "initialized"})
    BY <2>2 DEF Only, CtxFields
  <2> QED BY <2>3 DEF Only, CtxFields
<1>4. (Subscribed' <=> Subscribed) /\ (OnFile' <=> OnFile)
  BY <1>3 DEF Subscribed, OnFile
<1>5. FzTyped' /\ StreamInv'
  BY <1>1, <1>4 DEF StreamsInv, FzTyped, StreamInv
<1>6. AsksInv'
  BY <1>1, <1>4 DEF StreamsInv, AsksInv, Asks
<1>7. SourceInv'
  BY <1>1, <1>3, <1>4 DEF StreamsInv, SourceInv
<1>8. RmFollows' /\ FzFollows'
  BY <1>1 DEF RmFollows, FzFollows
<1> QED BY <1>5, <1>6, <1>7, <1>8 DEF StreamsInv

\* A stream starts: with the resources as they were, and with what has changed since.
LEMMA FirstLeads ==
    ASSUME NEW s, NEW now, DOMAIN s = {1, 2}, s[2] = now,
           NEW R, NEW U, NEW L, NEW x, NEW T, NEW E, NEW e, NEW ed, T = R \ L, U \subseteq T,
           now.up = U, now.down = T \ U, now.lost = L, now.exp = x,
           e # Never => \/ x \in Nat \ {0} /\ e = x
                        \/ x = -1 /\ e = E
    PROVE  Leads(s, 1, R, R, E, T, U, e, ed)
<1>1. \A i \in DOMAIN s : i > 1 <=> i = 2
  OBVIOUS
<1>2. \A i \in DOMAIN s : ~(i > 2) /\ ~(1 < i /\ i < 2)
  OBVIOUS
<1>3. RanksLead(s, 1, R, T)
  BY <1>1 DEF RanksLead
<1>4. Timely(s, 1, R)
  BY <1>1, <1>2 DEF Timely
<1>5. UpLeads(s, 1, R, R, U)
  <2> SUFFICES ASSUME NEW r \in R PROVE r \in U <=> Rises(s, 1, R, r)
    BY DEF UpLeads
  <2>1. Says(now, r) <=> r \in T \/ r \in L
    BY DEF Says
  <2>2. Rises(s, 1, R, r) <=> r \in U \ ((T \ U) \cup L) \/ ~Says(now, r)
    BY <1>1, <1>2 DEF Rises
  <2> QED BY <2>1, <2>2
<1>6. e # Never => EndLeads(s, 1, E, e)
  <2>1. CASE x \in Nat \ {0} /\ e = x
    <3>1. ~(x < 0) /\ EndOf(x) = e
      BY <2>1 DEF EndOf
    <3> QED BY <1>1, <1>2, <3>1 DEF EndLeads
  <2>2. CASE x = -1 /\ e = E
    <3>1. x < 0
      BY <2>2
    <3> QED BY <1>1, <2>2, <3>1 DEF EndLeads
  <2> QED BY <2>1, <2>2
<1> QED BY <1>3, <1>4, <1>5, <1>6 DEF Leads

\* A module subscribes.
LEMMA SubscribeStreams ==
    ASSUME Typed, StreamsInv, notify_request_cb
    PROVE  StreamsInv'
<1> DEFINE who == Head(reqs).who
           old == [Nothing EXCEPT !.res = rm.notify_resources]
           now == [Nothing EXCEPT !.up = rm.up, !.down = rm.ranks \ rm.up,
                                  !.lost = rm.notify_lost, !.exp = rm.notify_expiration]
           out == IF OnFile THEN <<StreamError>> ELSE <<Payload(old), Payload(now)>>
           S == rm.notify_msgs \cup {who}
<1>1. /\ rm # Off /\ reqs # << >> /\ Head(reqs).k = "notify"
      /\ rm' = (IF OnFile THEN rm ELSE [rm EXCEPT !.notify_msgs = S])
      /\ reqs' = Tail(reqs) /\ acq' = acq /\ core' = core /\ fz' = fz /\ edited' = edited
      /\ toFz' = IF who = "fz" THEN toFz \o out ELSE toFz
  BY DEF notify_request_cb, OnFile
<1>2. Head(reqs) = reqs[1] /\ 1 \in DOMAIN reqs /\ who \in {"fz", "qm"}
  <2> DEFINE Q == NotifyRequest \cup MatchRequest
  <2>1. reqs \in Seq(Q)
    BY DEF Typed, ReqsTyped
  <2> HIDE DEF Q
  <2>2. Head(reqs) = reqs[1] /\ 1 \in DOMAIN reqs /\ Head(reqs) \in Q
    BY <1>1, <2>1
  <2>3. who \in {"fz", "qm"}
    BY <1>1, <2>2 DEF Q, NotifyRequest, MatchRequest
  <2> QED BY <2>2, <2>3
<1>3. /\ rm' # Off /\ SameGraph
      /\ Subscribed' <=> (IF OnFile THEN Subscribed ELSE "fz" \in S)
  <2>1. CASE OnFile
    BY <1>1, <2>1 DEF SameGraph, Subscribed
  <2>2. CASE ~OnFile
    <3> HIDE DEF S
    <3> QED BY <1>1, <2>2, MsgsOnly DEF Typed
  <2> QED BY <2>1, <2>2
<1>4. AsksKept
  BY <1>1, SameAsks DEF Typed
<1>5. SourceInv' /\ RmFollows'
  BY <1>1, <1>3, FrameRm
<1>6. CASE who = "qm"
  <2>1. toFz' = toFz /\ SameView
    BY <1>1, <1>3, <1>6 DEF SameView, Subscribed
  <2> QED BY <1>1, <1>4, <2>1, FrameStep
<1>7. CASE who = "fz"
  <2>1. /\ \A k \in DOMAIN reqs : Asks(reqs[k]) => k = 1
        /\ fz # Off /\ ~fz.initialized /\ toFz = << >> /\ ~Subscribed
    BY <1>1, <1>2, <1>7 DEF StreamsInv, AsksInv, Asks
  <2>2. AsksInv'
    <3> DEFINE t == Tail(reqs)
               n == Len(reqs) - 1
    <3>1. n \in Nat /\ DOMAIN reqs = 1..(n + 1) /\ DOMAIN t = 1..n /\ \A i \in 1..n : t[i] = reqs[i + 1]
      BY <1>1, TakeOne DEF Typed, ReqsTyped
    <3> HIDE DEF t, n
    <3>2. \A i \in DOMAIN t : i + 1 \in DOMAIN reqs /\ i + 1 # 1
      BY <3>1
    <3>3. \A i \in DOMAIN t : ~Asks(t[i])
      BY <2>1, <3>1, <3>2
    <3>4. reqs' = t
      BY <1>1 DEF t
    <3> QED BY <3>3, <3>4 DEF AsksInv, Asks
  <2>3. toFz' = out
    BY <1>1, <1>7, <2>1
  <2>4. FzTyped'
    <3>1. \E Y : out \in Seq(Y)
      <4> DEFINE a == Payload(old)
                 b == Payload(now)
                 c == StreamError
                 Y == {a, b, c}
      <4> HIDE DEF a, b, c
      <4>1. <<c>> \in Seq(Y) /\ <<a, b>> \in Seq(Y)
        OBVIOUS
      <4> HIDE DEF Y
      <4> QED BY <4>1 DEF a, b, c
    <3> QED BY <1>1, <2>3, <3>1 DEF StreamsInv, FzTyped
  <2>5. CASE OnFile
    <3>1. ~Subscribed' /\ toFz' = <<StreamError>>
      BY <1>3, <2>1, <2>3, <2>5
    <3>2. \A i \in DOMAIN toFz' : toFz'[i] = StreamError
      <4> DEFINE c == StreamError
      <4> HIDE DEF c
      <4>1. \A i \in DOMAIN <<c>> : <<c>>[i] = c
        OBVIOUS
      <4> QED BY <3>1, <4>1 DEF c
    <3>3. fz' # Off
      BY <1>1, <2>1
    <3>4. StreamInv' /\ FzFollows'
      BY <3>1, <3>2, <3>3 DEF StreamInv, FzFollows
    <3> QED BY <1>5, <2>2, <2>4, <3>4 DEF StreamsInv
  <2>6. CASE ~OnFile
    <3> DEFINE R == rm.notify_resources
    <3>1. Subscribed' /\ toFz' = <<Payload(old), Payload(now)>> /\ ~OnFile'
      BY <1>3, <1>7, <2>3, <2>6 DEF OnFile, SameGraph
    <3>2. R \in Machine
      BY <1>1, <2>6 DEF StreamsInv, SourceInv
    <3>3. /\ old.res = R /\ old.up = {} /\ old.down = {} /\ old.lost = {} /\ old.exp = -1
      BY DEF Nothing
    <3>4. /\ now.res = NoR /\ now.up = rm.up /\ now.down = rm.ranks \ rm.up /\ now.lost = rm.notify_lost
          /\ now.exp = rm.notify_expiration
      BY DEF Nothing
    <3> HIDE DEF old, now, R
    <3>5. First(Payload(old)) /\ Later(Payload(now)) /\ Payload(old).m = old /\ Payload(now).m = now
      BY <3>2, <3>3, <3>4 DEF First, Later, Payload
    <3>6. /\ DOMAIN toFz' = {1, 2} /\ toFz'[1] = Payload(old) /\ toFz'[2] = Payload(now) /\ toFz' # << >>
      <4> DEFINE a == Payload(old)
                 b == Payload(now)
      <4>1. toFz' = <<a, b>>
        BY <3>1
      <4> HIDE DEF a, b
      <4>2. DOMAIN <<a, b>> = 1..2 /\ <<a, b>>[1] = a /\ <<a, b>>[2] = b /\ <<a, b>> # << >>
        OBVIOUS
      <4> QED BY <4>1, <4>2 DEF a, b
    <3>7. \A i \in {1, 2} : i > 1 => i = 2
      OBVIOUS
    <3>8. StreamInv'
      BY <1>1, <2>1, <3>1, <3>5, <3>6, <3>7 DEF StreamInv
    <3>9. FzFollows'
      <4> SUFFICES ASSUME "graph" \notin edited PROVE FzFollows'
        BY <1>1 DEF FzFollows
      <4> DEFINE s == [i \in DOMAIN toFz' |-> toFz'[i].m]
                 E == EndOf(R.end)
      <4>1. DOMAIN s = {1, 2} /\ s[2] = now
        BY <3>5, <3>6
      <4>2. /\ rm.ranks = R.ranks \ rm.notify_lost /\ rm.up \subseteq rm.ranks
            /\ rm.end # Never => \/ rm.notify_expiration \in Nat \ {0} /\ rm.end = rm.notify_expiration
                                 \/ rm.notify_expiration = -1 /\ rm.end = E
        BY <1>1, <2>6 DEF StreamsInv, RmFollows, Leads, R
      <4> HIDE DEF s, E
      <4>3. Leads(s, 1, R.ranks, R.ranks, E, rm.ranks, rm.up, rm.end, edited)
        BY <3>4, <4>1, <4>2, FirstLeads
      <4>4. Updates' = s
        BY DEF Updates, s
      <4>5. Leads(Updates', 1, toFz'[1].m.res.ranks, toFz'[1].m.res.ranks, EndOf(toFz'[1].m.res.end),
                  rm'.ranks, rm'.up, rm'.end, edited')
        <5>1. toFz'[1].m.res = R
          BY <3>3, <3>5, <3>6
        <5>2. rm'.ranks = rm.ranks /\ rm'.up = rm.up /\ rm'.end = rm.end
          BY <1>3 DEF SameGraph
        <5> QED BY <1>1, <4>3, <4>4, <5>1, <5>2 DEF E
      <4>6. ~fz'.initialized
        BY <1>1, <2>1
      <4> QED BY <4>5, <4>6 DEF FzFollows, EndOf
    <3> QED BY <1>5, <2>2, <2>4, <3>8, <3>9 DEF StreamsInv
  <2> QED BY <2>5, <2>6
<1> QED BY <1>2, <1>6, <1>7

\* Every step of the system keeps the streams as they should be.
LEMMA StreamsStep ==
    ASSUME Typed, StreamsInv, [Next]_vars
    PROVE  StreamsInv'
<1>1. CASE CoreNext
  BY <1>1, CoreStreams
<1>2. CASE ModuleNext
  <2>1. CASE unload_feasibility
    BY <2>1, LeaveStreams DEF unload_feasibility
  <2> QED BY <1>2, <2>1, LoadStreams, LoadFzStreams, UnloadStreams, FramedStep DEF ModuleNext
<1>3. CASE AdminNext
  BY <1>3, StatusStreams, GraphStreams, FramedStep DEF AdminNext
<1>4. CASE HandlerNext
  BY <1>4, UpdateStreams, SubscribeStreams, NotifiedStreams, FramedStep DEF HandlerNext
<1>5. CASE JobNext \/ UNCHANGED vars
  BY <1>5, FramedStep
<1> QED BY <1>1, <1>2, <1>3, <1>4, <1>5 DEF Next

\* The streams are as they should be in every state.
LEMMA StreamsAlways ==
    Spec => []StreamsInv
<1>1. Init => StreamsInv
  <2> SUFFICES ASSUME Init PROVE StreamsInv
    OBVIOUS
  <2>1. << >> \in Seq({})
    OBVIOUS
  <2> QED BY <2>1 DEF Init, StreamsInv, FzTyped, AsksInv, SourceInv, StreamInv, RmFollows, FzFollows
<1>2. Typed /\ StreamsInv /\ [Next]_vars => StreamsInv'
  BY StreamsStep
<1> QED BY <1>1, <1>2, TypedAlways, PTL DEF Spec

\* Whoever subscribed, and whenever, has read its way to what core has: once the streams
\* are empty, the resource module and the feasibility module have the ranks of core, the
\* same ones are up, and the resources last as long (update_resource, notify_request_cb).
THEOREM SubscribersKeepUp == Spec => []SubscribersAgree
<1>1. Typed /\ StreamsInv => SubscribersAgree
  <2> SUFFICES ASSUME Typed, StreamsInv, rm # Off, fz # Off, acq = << >>, toFz = << >>,
                      Subscribed, "graph" \notin edited
               PROVE  \A ctx \in {rm, fz} : /\ ctx.ranks = core.ranks
                                            /\ "status" \in edited \/ ctx.up = core.up
                                            /\ core.exp # 0 => ctx.end = EndOf(core.exp)
    BY DEF SubscribersAgree, Subscribed
  <2> DEFINE e == EndOf(core.exp)
             s == << >>
  <2>1. fz.initialized /\ ~OnFile
    BY DEF StreamsInv, StreamInv
  <2>2. DOMAIN s = {}
    OBVIOUS
  <2>3. DOMAIN Updates = {}
    BY DEF Updates
  <2>4. Leads(s, 0, rm.ranks, rm.up, rm.end, core.ranks, core.up, e, edited)
    BY <2>1 DEF StreamsInv, RmFollows
  <2>5. Leads(Updates, 0, fz.ranks, fz.up, fz.end, rm.ranks, rm.up, rm.end, edited)
    BY <2>1 DEF StreamsInv, FzFollows
  <2>6. core.up \subseteq core.ranks /\ (core.exp # 0 => e # Never)
    BY MatchAssumption DEF Typed, CoreTyped, EndOf
  <2> HIDE DEF e, s
  <2>7. /\ core.ranks = rm.ranks /\ ("status" \notin edited => rm.up = core.up \cap rm.ranks)
        /\ e # Never => rm.end = e
    BY <2>2, <2>4, LeadsEnd
  <2>8. /\ rm.ranks = fz.ranks /\ ("status" \notin edited => fz.up = rm.up \cap fz.ranks)
        /\ rm.end # Never => fz.end = rm.end
    BY <2>3, <2>5, LeadsEnd
  <2> QED BY <2>6, <2>7, <2>8 DEF e
<1> QED BY <1>1, TypedAlways, StreamsAlways, PTL
=============================================================================
