----------------------------- MODULE Retrieval -----------------------------
(***************************************************************************)
(* The two answers that announce an edit before it is made (engine.py,     *)
(* build_formatter_context and discover_memory_conflicts).  Both read the  *)
(* memories and decide nothing.                                            *)
(***************************************************************************)
EXTENDS TextSpans

CONSTANTS MaxHints      \* max_memories of the request

Retrievable(memories) == {m \in DOMAIN memories : memories[m].state # "suppressed"}

(* The occurrences of a memory's variants that are not its canonical form. *)
Occurrences(memory, text) ==
    {f \in UNION {CandidateSpans(text, variant) : variant \in memory.variants} :
        Slice(text, f.span) # memory.canonical}

(* Mistake: a later match replaces an earlier one whatever its method.     *)
Foremost_Weakest(found) ==
    CHOOSE f \in found : \A o \in found : Priority(f.method) <= Priority(o.method)

(* The match a memory is hinted with: one by its best method.              *)
Foremost(found) ==
    CHOOSE f \in found : \A o \in found : Priority(f.method) >= Priority(o.method)

(* The best match of every memory that occurs in the text.                 *)
Matched(memories, text) ==
    LET found == [m \in Retrievable(memories) |-> Occurrences(memories[m], text)]
    IN  [m \in {o \in DOMAIN found : found[o] # {}} |-> Foremost(found[m])]

(* The hints in order: better method first, then canonical form; cut off   *)
(* at max_memories, after ambiguity was settled.                           *)
Ranked(memories, text, best) ==
    LET Before(m, o) ==
            \/ Priority(best[m].method) > Priority(best[o].method)
            \/ /\ Priority(best[m].method) = Priority(best[o].method)
               /\ memories[m].name < memories[o].name
        order == Sorted(DOMAIN best, {p \in (DOMAIN best) \X (DOMAIN best) : Before(p[1], p[2])})
        Same(m, o) == Slice(text, best[m].span) = Slice(text, best[o].span)
    IN  [k \in 1 .. Min({MaxHints, Cardinality(DOMAIN best)}) |->
            [memory |-> order[k], method |-> best[order[k]].method,
             ambiguous |-> \E o \in DOMAIN best \ {order[k]} : Same(order[k], o)]]

Hints(memories, text) == Ranked(memories, text, Matched(memories, text))

-----------------------------------------------------------------------------
Letters(form) == FoldLeft(LAMBDA n, s : n + IF s \in Word THEN Length(s) ELSE 1, 0, form)

(* Mistake: only confirmed memories can collide.                           *)
Colliding_Confirmed(memories) == {m \in DOMAIN memories : memories[m].state = "confirmed"}

Colliding(memories) == {m \in DOMAIN memories : memories[m].state # "suppressed"}

(* The routes by which a memory is reached.                                *)
RoutesTo(memory) ==
    {<<"surface", v>> : v \in {w \in memory.variants : Letters(w) >= 4}}
    \cup {<<"phonetic", Sounds(v)>> :
            v \in {w \in memory.variants : Sounds(w) # Silent /\ Letters(w) >= 5}}

(* A group has context to tell its members apart if any of them learned    *)
(* where it is right.                                                      *)
Resolvable(memories, members) ==
    \E m \in members : \E i \in DOMAIN memories[m].evidence :
        memories[m].evidence[i].polarity = "positive"

(* discover_memory_conflicts: the routes that lead to several memories.    *)
Conflicts(memories) ==
    LET Members(route) == {m \in Colliding(memories) : route \in RoutesTo(memories[m])}
        routes == UNION {RoutesTo(memories[m]) : m \in Colliding(memories)}
    IN  {[route |-> r, members |-> Members(r), resolvable |-> Resolvable(memories, Members(r))] :
            r \in {x \in routes : Cardinality(Members(x)) > 1}}
=============================================================================
