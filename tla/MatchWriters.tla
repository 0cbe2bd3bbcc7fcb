---------------------------- MODULE MatchWriters ----------------------------
(***************************************************************************)
(* The match writers (resource/writers/match_writers.cpp): they are told of *)
(* the vertices and edges of a match, children first, and emit the job's R. *)
(* One writer serves all the jobs of its owner, so what it has not emitted  *)
(* stays with it.                                                           *)
(*                                                                          *)
(* reducer   the cores and gpus seen since the last node                    *)
(* gatherer  the R_lite entries: a rank and what it contributes             *)
(* vout      the JGF nodes, or the lines of the simple formats              *)
(* eout      the JGF edges, named by their targets                          *)
(* complete  whether a shorthand writer has left nothing out                *)
(***************************************************************************)
EXTENDS Traverser

CONSTANT ReducerTypes   \* the types R_lite lists: cores and gpus

Format == {"simple", "jgf", "jgf_shorthand", "rlite", "rv1", "rv1_nosched", "rv1_shorthand",
           "pretty_simple"}

HasRlite(f) == f \in {"rlite", "rv1", "rv1_nosched", "rv1_shorthand"}

HasJgf(f) == f \in {"jgf", "jgf_shorthand", "rv1", "rv1_shorthand"}

IsShorthand(f) == f \in {"jgf_shorthand", "rv1_shorthand"}

IsRv1(f) == f \in {"rv1", "rv1_nosched", "rv1_shorthand"}

\* The writer of a format; an unknown name is that of the simple one.
get_writers_type(name) == IF name \in Format THEN name ELSE "simple"

create(name) ==
    [format |-> get_writers_type(name), reducer |-> {}, gatherer |-> {}, vout |-> << >>,
     eout |-> << >>, complete |-> TRUE]

(***************************************************************************)
(* R_lite.                                                                  *)
(***************************************************************************)
m_reducer_set(w) == w.reducer # {}

\* Variant: what a node has taken is not forgotten.
emit_gatherer_kept(w, u) ==
    [w EXCEPT !.gatherer = @ \cup {[rank |-> Rank[u], children |-> w.reducer]}]

\* A node takes all that was seen before it and its own children are ready.
emit_gatherer(w, u) ==
    IF ~m_reducer_set(w) THEN w
    ELSE [w EXCEPT !.gatherer = @ \cup {[rank |-> Rank[u], children |-> w.reducer]},
                   !.reducer = {}]

rlite_emit_vtx(w, u) ==
    IF Type[u] \in ReducerTypes THEN [w EXCEPT !.reducer = @ \cup {<<Type[u], Id[u]>>}]
    ELSE IF Type[u] = NodeType THEN emit_gatherer(w, u) ELSE w

rlite_empty(w) == w.gatherer = {}

(***************************************************************************)
(* JGF.                                                                     *)
(***************************************************************************)
jgf_emit_vtx(w, e) ==
    [w EXCEPT !.vout = Append(@, [v |-> e.v, size |-> e.needs, exclusive |-> e.exclusive])]

jgf_emit_edg(w, e) == [w EXCEPT !.eout = Append(@, e.v)]

\* Under an exclusive parent nothing is written.
jgf_shorthand_emit_vtx(w, e) ==
    IF e.excl_parent THEN [w EXCEPT !.complete = FALSE] ELSE jgf_emit_vtx(w, e)

jgf_shorthand_emit_edg(w, e) ==
    IF e.excl_parent THEN [w EXCEPT !.complete = FALSE] ELSE jgf_emit_edg(w, e)

jgf_empty(w) == w.vout = << >> /\ w.eout = << >>

\* Vertices without edges, or edges without vertices, are refused.
check_array_sizes(w) == (w.vout = << >>) = (w.eout = << >>)

\* Whether the JGF needs the shorthand reader.
get_uri(w) == IsShorthand(w.format) /\ ~w.complete

(***************************************************************************)
(* Any format.                                                              *)
(***************************************************************************)
write_vtx(w, e) ==
    LET l == IF HasRlite(w.format) THEN rlite_emit_vtx(w, e.v) ELSE w
    IN  IF IsShorthand(w.format) THEN jgf_shorthand_emit_vtx(l, e)
        ELSE IF HasRlite(w.format) /\ ~HasJgf(w.format) THEN l ELSE jgf_emit_vtx(l, e)

write_edg(w, e) ==
    IF IsShorthand(w.format) THEN jgf_shorthand_emit_edg(w, e)
    ELSE IF HasJgf(w.format) THEN jgf_emit_edg(w, e) ELSE w

\* All that an update of the graph tells the writers.
write(w, emitted) ==
    FoldLeft(LAMBDA acc, e : IF e.edge THEN write_edg(acc, e) ELSE write_vtx(acc, e), w, emitted)

NoR == [some |-> FALSE, rlite |-> {}, nodes |-> << >>, edges |-> << >>, jgf |-> FALSE,
        shorthand |-> FALSE, starttime |-> 0, expiration |-> 0, free_ranks |-> {}]

\* Only version 1 has the times; every match sets them before it emits.
emit_tm(w, t) == IF IsRv1(w.format) THEN t ELSE 0

ToR(w, start, end) ==
    [some |-> TRUE, rlite |-> w.gatherer, nodes |-> w.vout, edges |-> w.eout,
     jgf |-> HasJgf(w.format), shorthand |-> get_uri(w), starttime |-> emit_tm(w, start),
     expiration |-> emit_tm(w, end), free_ranks |-> {}]

\* Emitted content is forgotten; an R that would lack its R_lite or its JGF
\* is not emitted, and the rest of it stays.
emit(w, start, end) ==
    LET f == w.format
        R == ToR(w, start, end)
        gone == [w EXCEPT !.gatherer = {}, !.vout = << >>, !.eout = << >>]
        lite == [w EXCEPT !.gatherer = {}]
    IN  CASE f \in {"simple", "pretty_simple"} -> [w |-> gone, ok |-> TRUE, R |-> R]
          [] f = "rlite" -> IF rlite_empty(w) THEN [w |-> w, ok |-> FALSE, R |-> NoR]
                            ELSE [w |-> lite, ok |-> TRUE, R |-> R]
          [] f = "rv1_nosched" -> IF rlite_empty(w) THEN [w |-> w, ok |-> TRUE, R |-> NoR]
                                  ELSE [w |-> lite, ok |-> TRUE, R |-> R]
          [] f \in {"jgf", "jgf_shorthand"} ->
               IF ~check_array_sizes(w) THEN [w |-> w, ok |-> FALSE, R |-> NoR]
               ELSE IF jgf_empty(w) THEN [w |-> w, ok |-> TRUE, R |-> NoR]
               ELSE [w |-> gone, ok |-> TRUE, R |-> R]
          [] OTHER ->
               IF rlite_empty(w) \/ jgf_empty(w) THEN [w |-> w, ok |-> TRUE, R |-> NoR]
               ELSE IF ~check_array_sizes(w) THEN [w |-> lite, ok |-> FALSE, R |-> NoR]
               ELSE [w |-> gone, ok |-> TRUE, R |-> R]
=============================================================================
