----------------------------- MODULE ProtosQuery -----------------------------
(***************************************************************************)
(* get_protos, the query of the protos pallet that the RPC forwards to the *)
(* runtime.  It changes nothing: it finds protos through the index of      *)
(* owners or of categories, filters them and returns one page of the rest. *)
(*                                                                         *)
(* The order of the lists is that of uploads and transfers, and that of    *)
(* the categories is the order of their keys in storage; Protos leaves     *)
(* both out, so a page here is one of some order of what the index lists.  *)
(* An owner that was never listed is told "Owner not found"; here it finds *)
(* nothing.  What an answer shows of each proto is left out.               *)
(***************************************************************************)
EXTENDS Protos

(* GetProtosParams, but for the page; None and {} ask for nothing. *)
GetProtosParams == [owner: Accounts \cup {None}, categories: SUBSET Categories,
                    tags: SUBSET TagNames, available: BOOLEAN \cup {None}]

-----------------------------------------------------------------------------
\* Mutated form: one of the tags is enough.
FilterProtoAnyTag(q, p) ==
    /\ Protos[p] # None
    /\ q.available = None \/ (q.available <=> Protos[p].include_cost # None)
    /\ q.categories = {} \/ Protos[p].category \in q.categories
    /\ q.tags = {} \/ \E t \in q.tags : Tags[t] # 0 /\ Tags[t] \in Protos[p].tags

(* filter_proto: the first of the categories will do, every tag must fit. *)
FilterProto(q, p) ==
    /\ Protos[p] # None
    /\ q.available = None \/ (q.available <=> Protos[p].include_cost # None)
    /\ q.categories = {} \/ Protos[p].category \in q.categories
    /\ \A t \in q.tags : Tags[t] # 0 /\ Tags[t] \in Protos[p].tags

(* The places that the query comes across: p stands for the i-th time in   *)
(* the list of the owner, or in those of the categories, of all of them    *)
(* if it names none.                                                       *)
Places(q) ==
    LET in(list, names) ==
          UNION {{<<l[1], l[2], i>> : i \in 1 .. list[l]} : l \in names \X Hashes}
    IN  IF q.owner # None THEN in(ProtosByOwner, {q.owner})
        ELSE in(ProtosByCategory,
                IF q.categories = {} THEN Categories ELSE q.categories)

Passing(q) == {x \in Places(q) : FilterProto(q, x[2])}

(* What passes the filter, in each order the query may come across it. *)
Found(q) ==
    {[i \in DOMAIN order |-> order[i][2]] :
        order \in Bijection(1 .. Cardinality(Passing(q)), Passing(q))}

(* skip(from).take(limit); the answer is a map and forgets the order. *)
Page(found, from, limit) ==
    {found[i] : i \in DOMAIN found \cap (from + 1 .. from + limit)}

-----------------------------------------------------------------------------
(* What a scan of the whole registry would find. *)
Scan(q) ==
    {p \in Uploaded :
       /\ q.owner # None => Protos[p].owner = q.owner
       /\ q.categories # {} => Protos[p].category \in q.categories
       /\ q.available # None => q.available = (Protos[p].include_cost # None)
       /\ {Tags[t] : t \in q.tags} \subseteq Protos[p].tags}

(* The pages of a list of n hold together what a scan finds, each proto on *)
(* one of them, and each is full if there is enough for it.                *)
PagesHold(found, limit, scan) ==
    LET n == Cardinality(scan)
    IN  /\ UNION {Page(found, i * limit, limit) : i \in 0 .. n} = scan
        /\ \A i \in 0 .. n :
             Cardinality(Page(found, i * limit, limit)) =
               Cardinality((i * limit + 1 .. i * limit + limit) \cap 1 .. n)

(***************************************************************************)
(* While the registry rests, the pages of a query hold together what a     *)
(* scan finds, each proto on one page, and each page is full if there is   *)
(* enough for it, so that a short page is the last: the indexes by owner,  *)
(* category and tag never hide or repeat a proto, detached ones included.  *)
(* (get_protos, filter_proto)                                              *)
(***************************************************************************)
PagesFindAll ==
    \A q \in GetProtosParams :
        LET scan == Scan(q)
        IN  \A found \in Found(q), limit \in 1 .. Cardinality(scan) + 1 :
              PagesHold(found, limit, scan)

=============================================================================
